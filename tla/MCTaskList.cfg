\* Every operation, two agents, two ids; one process may crash at any step.
SPECIFICATION Spec
CONSTANTS
    a1 = a1
    a2 = a2
    Agents <- MCAgents
    NoAgent = NoAgent
    MaxTasks = 2
    MaxOps = 3
    MaxCrashes = 1
    Ops = {"create", "claim", "edit", "delete", "block", "reset", "clear", "unassign"}
SYMMETRY MCSymmetry
CHECK_DEADLOCK FALSE
INVARIANTS
    TypeOK
    IdsFresh
    ClaimHeld
    NoLostUpdate
    NoGridlock
