CONSTANTS
    Event = {"e1", "e2"}
    Tx = {"t1"}
    Parents <- MCParents
    Lamport <- MCLamport
    Window = 1
    SoftLimit = 1
    MaxQueued = 1
    MaxKnown = 3
    WireCap = 1
    MaxFaults = 1
SPECIFICATION Spec
INVARIANTS
    QueueHasRoom
PROPERTIES
    EverythingPropagates
CHECK_DEADLOCK FALSE
