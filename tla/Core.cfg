SPECIFICATION Spec
INVARIANTS
    EncodingIsExact
    VectorsAreExact
    GasPowerHolds
    TurnsAreFair
    ExecutionIsExact
    StartupIsConsistent
    PruningIsExact
    ImportIsComplete
CHECK_DEADLOCK FALSE
