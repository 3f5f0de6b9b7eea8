SPECIFICATION Spec
CONSTANTS
    Kinds <- AllKinds
    MaxCommands = 3
    MaxCancels = 1
    Immediates = TRUE
    MayThrow = FALSE
    FastKeys = FALSE
INVARIANTS Interruptible
CHECK_DEADLOCK FALSE
