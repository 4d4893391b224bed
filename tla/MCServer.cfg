SPECIFICATION MCSpec
CONSTANTS
    Peers = {p1, p2, p3}
    Third = p3
    MAX = 4
    MaxFd = 4
    MaxMsg = 1
    UserOps = {"sendall", "send", "disconnect", "close"}
SYMMETRY PeerSymmetry
INVARIANTS TypeOK  CloseReleases 
PROPERTIES CallbackExact BroadcastComplete ImplementsRoster DropsOnlyGone
