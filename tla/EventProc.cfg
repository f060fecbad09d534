CONSTANTS
    Event = {"a1", "a2", "x1", "y1", "c1", "c2"}
    Own = {"a2"}
    WrongHash = {"c2"}
    Invalid = {"x1"}
    EpochOf <- MCEpochOf
    Creator <- MCCreator
    Parents <- MCParents
    Lamport <- MCLamport
    MaxEpoch = 2
SPECIFICATION Spec
INVARIANTS
    NoFalseBan
    DagIsSound
    DiskIsSound
    LastEventsAreLast
    GetHeadsConnected
CHECK_DEADLOCK FALSE
