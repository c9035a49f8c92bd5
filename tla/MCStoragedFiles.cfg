SPECIFICATION Spec
CONSTANTS
    Segments = {s1, s2}
    Peers = {p1, p2}
    FragmentNum = 3
    DataShards = 2
    MinCachedSegmentNum = 1
    MaxCachedSegmentNum = 2
    AvgCachedSegmentNum = 2
    NeighborNum = 3
    MaxSegments = 3
SYMMETRY Symmetry
INVARIANT TypeOK
INVARIANT FetchedWithinBudget
INVARIANT RequestedExamined
INVARIANT AnnouncedIsKeyed
