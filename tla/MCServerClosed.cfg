SPECIFICATION Spec
CONSTANTS
    Peers = {p1, p2}
    MAX = 3
    MaxFd = 3
    MaxMsg = 0
    UserOps = {"close"}
INVARIANTS ClosedMeansClosed
