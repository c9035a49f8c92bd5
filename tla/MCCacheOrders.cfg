SPECIFICATION Spec
CONSTANTS
    Calls = {c1}
    Jobs <- OneProgram
    Nodes = {n1, n2}
    Self = n1
    Node = Node
    None = None
    Grace = 1
    MaxTerm = 3
    MaxTx = 2
    c1 = c1
    n1 = n1
    n2 = n2
INVARIANT ConfirmedOrMistaken
INVARIANT UpIsRegistered
INVARIANT CreditedWasPaid
PROPERTY CountCatchesUp
CHECK_DEADLOCK FALSE
