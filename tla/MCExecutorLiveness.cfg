SPECIFICATION FairSpec
CONSTANTS
    Kinds <- KnownKinds
    MaxTools = 2
    MaxProgress = 1
CHECK_DEADLOCK FALSE
PROPERTIES
    EveryToolAnswered
