SPECIFICATION FairSpec
CONSTANTS
    Kinds <- MixedKinds
    MaxTools = 2
    MaxProgress = 1
CHECK_DEADLOCK FALSE
PROPERTIES
    EveryToolAnswered
