SPECIFICATION Spec
CONSTANTS
    Handlers = {h1, h2}
    Accounts = {a}
    Ops <- AllOps
    Legacy = {a}
    Sizes = {5}
    Orders = {1}
    FragmentSize = 2
    ResourceLimit = 3
    Modulus = 6
    MaxBytes = 6
SYMMETRY Symmetry
INVARIANT TypeOK
INVARIANT NeverOvercharged
INVARIANT ExactUndisturbed
CHECK_DEADLOCK FALSE
