SPECIFICATION Spec
PROPERTY
    EventLoopNeverDeadlocks
CHECK_DEADLOCK FALSE
