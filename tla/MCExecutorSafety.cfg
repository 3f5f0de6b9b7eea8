SPECIFICATION Spec
CONSTANTS
    Kinds <- AllKinds
    MaxTools = 3
    MaxProgress = 1
CHECK_DEADLOCK FALSE
INVARIANTS
    TypeOK Exclusive StartOrder OneAnswer NoLostWakeup CleanEnd
PROPERTIES
    SchedulerSpec AnswerWhole
