SPECIFICATION Spec
CONSTANTS
    Kinds <- MixedKinds
    MaxTools = 3
    MaxProgress = 1
CHECK_DEADLOCK FALSE
INVARIANTS
    EveryBlockAnswered
