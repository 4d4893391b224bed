SPECIFICATION MCSpec
CONSTANTS
    Peers = {p1, p2}
    MAX = 3
    MaxFd = 3
    MaxMsg = 1
    UserOps = {}
PROPERTIES DataHeard GoneRemoved ConnectAccepted AccepterEnds CloseReturns
