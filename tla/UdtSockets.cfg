\* Two threads of the application over two sockets, one of its own and one accepted, and a peer.
SPECIFICATION SocketsFairSpec
CONSTANTS
    Threads = {t1, t2}
    Peers = {p1}
    MaxSockets = 2
    MaxOwn = 1
    MaxTries = 2
    BackLog = 1
INVARIANTS
    NobodyUsesRemoved
    WaitersAreWoken
PROPERTY ClosedIsRemoved
CHECK_DEADLOCK FALSE
