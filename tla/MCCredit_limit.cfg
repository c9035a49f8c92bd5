SPECIFICATION Spec
CONSTANTS
    Handlers = {h1}
    Accounts = {a}
    Ops <- NodeOps
    Legacy = {}
    Sizes = {2, 3}
    Orders = {1, 2}
    FragmentSize = 2
    ResourceLimit = 3
    Modulus = 32
    MaxBytes = 5
INVARIANT OverLimitRefused
CHECK_DEADLOCK FALSE
