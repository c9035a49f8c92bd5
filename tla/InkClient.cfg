SPECIFICATION Spec
CONSTANTS
    Calls = {c1, c2}
    MaxNonce = 4
INVARIANT PendingBounded
INVARIANT SilentExplained
INVARIANT OkIsInBlock
PROPERTY CallsReturn
