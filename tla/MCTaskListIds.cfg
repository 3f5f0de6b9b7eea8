\* One agent creates a task while another deletes one.
SPECIFICATION Spec
CONSTANTS
    a1 = a1
    a2 = a2
    Agents <- MCAgents
    NoAgent = NoAgent
    MaxTasks = 3
    MaxOps = 3
    MaxCrashes = 0
    Ops = {"create", "delete"}
SYMMETRY MCSymmetry
CHECK_DEADLOCK FALSE
INVARIANTS
    Fresh
