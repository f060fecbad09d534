CONSTANTS
    Sender = {"s1", "s2"}
    None = None
    MaxInterval = 360
    Protection = 972
    Capacity = 1
    ValidatorEpochs = {1, 3}
    YoungNetwork = FALSE
    MaxId = 3
    MaxEpoch = 3
    MaxCrash = 2
SPECIFICATION MCSpec
INVARIANTS
    SignedOnce
    CountersHold
PROPERTY
    SigningGoesOn
CHECK_DEADLOCK FALSE
