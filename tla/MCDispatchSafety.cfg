SPECIFICATION Spec
CONSTANTS
    Kinds <- AllKinds
    MaxCommands = 3
    MaxCancels = 1
    Immediates = TRUE
    MayThrow = TRUE
    FastKeys = TRUE
INVARIANTS
    TypeOK GuardOwned NoCommandLost
    OneTurnUncancelled InterruptibleUncancelled HandledOnce
CHECK_DEADLOCK FALSE
