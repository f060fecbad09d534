SPECIFICATION Spec
INVARIANTS
    HalfWrittenIsHidden
    SearchIsExact
    
    EstimatesHold
    SfcAnswersHold
    PriceIsEnough
CHECK_DEADLOCK FALSE
