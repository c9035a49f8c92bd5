SPECIFICATION Spec
CONSTANTS
    Peers = {p1, p2}
    NoPeer = NoPeer
    Known = 3
    NeighborNum = 6
    AvgCachedSegmentNum = 1
    MaxProviders = 4
INVARIANT TypeOK
INVARIANT CachedBounded
INVARIANT StuckOnlyWhenOverfed
CHECK_DEADLOCK FALSE
PROPERTY BoundedCallReturns
