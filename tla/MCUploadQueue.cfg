SPECIFICATION Spec
CONSTANTS
    Calls = {c1, c2}
    Files = {f1, f2}
    Uploads <- DifferentOrSame
    BadPaths = {f2}
    DirOf <- OneDir
    Servers = {s1}
    Peers = {p1, p2}
    NoPeer = NoPeer
    GroupNum = 2
    QueueSize = 1
    c1 = c1
    c2 = c2
    f1 = f1
    f2 = f2
INVARIANT TaskInOnePlace
INVARIANT GroupsOnDifferentPeers
INVARIANT FragmentsKept
PROPERTY KeepsPromise
CHECK_DEADLOCK FALSE
