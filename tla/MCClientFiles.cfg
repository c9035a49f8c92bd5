SPECIFICATION Spec
CONSTANTS
    FragmentSize = 2
    DataShards = 2
    Overhead = 1
    Box = Box
    Dirs <- SmallDirs
    Calls = {c1, c2}
    Fragments = {f1, f2, f3}
    MaxTries = 2
SYMMETRY Symmetry
INVARIANT FileIsWhole
INVARIANT BoxedFileIsRight
INVARIANT LeftoversExplained
CHECK_DEADLOCK FALSE
