CONSTANTS
    Sender = {}
    None = None
    MaxInterval = 360
    Protection = 972
    Capacity = 1
    ValidatorEpochs = {1, 2}
    YoungNetwork = TRUE
    MaxId = 2
    MaxEpoch = 2
    MaxCrash = 0
SPECIFICATION Spec
INVARIANT
    ProtectionExceedsMax
CHECK_DEADLOCK FALSE
