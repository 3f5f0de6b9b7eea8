SPECIFICATION FairSpec
CONSTANTS
    Kinds <- SlashKinds
    MaxCommands = 3
    MaxCancels = 1
    Immediates = FALSE
    MayThrow = TRUE
    FastKeys = FALSE
PROPERTIES QueueDrains GuardReleased
CHECK_DEADLOCK FALSE
