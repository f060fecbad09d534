CONSTANTS
    Peer = {"p", "q"}
    Trusted = {"q"}
    MaxPeers = 1
    MaxSessions = 2
    MaxBlames = 1
    MaxTicks = 1
    MaxPacks = 2
SPECIFICATION Spec
INVARIANTS
    PeerSetIsLive
    SyncLoopIsBusy
    NothingHandledAfterStop
PROPERTIES
    StopReturns
CHECK_DEADLOCK FALSE
