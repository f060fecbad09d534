SPECIFICATION Spec
INVARIANT
    DeliveredOnce
PROPERTIES
    OnlyTimeoutsBlock
    TasksAreAnswered
CHECK_DEADLOCK FALSE
