SPECIFICATION Spec
CONSTANTS
    File = File
    Segs = {s1}
    FragmentNum = 2
    Urls = {u1, u2, u3}
    Workloads <- SegmentOrSites
    Base <- SameBase
    FragmentSized = {u2}
    Empty = {u3}
    Handlers = {h1}
    Threads = {t1}
    DataShards = 2
    EnoughResps = 2
    MaxReq = 1
    MaxMail = 1
    MaxCount = 2
    name1 = name1
    CacheDir <- OptCache
    None = None
INVARIANT NeverUndercounted
INVARIANT RestoredSitesServable
PROPERTY SiteEventuallyCached
