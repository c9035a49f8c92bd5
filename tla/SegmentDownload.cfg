SPECIFICATION SegmentSpec
CONSTANTS
    Cachers = {p1, p2}
    NoCacher = NoCacher
    Fragments = {f1, f2, f3}
    NoFragment = NoFragment
    DataShards = 2
INVARIANT OneWriterPerFile
PROPERTY LongListsReturn
PROPERTY SegmentEnds
CHECK_DEADLOCK FALSE
