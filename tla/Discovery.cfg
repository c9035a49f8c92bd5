SPECIFICATION DiscoverySpec
CONSTANTS
    Peers = {p1, p2}
    Self = Self
    NoPeer = NoPeer
    Cap = 1
    MaxCachers = 1
INVARIANT CachersBounded
INVARIANT OwnResultUnlessRaced
PROPERTY SendsComplete
PROPERTY CancelReturns
CHECK_DEADLOCK FALSE
