\* Two calls of the main agent and a teammate's; nobody presses Esc.
SPECIFICATION Spec
CONSTANTS
    m1 = m1
    m2 = m2
    t1 = t1
    w1 = w1
    Mains <- TwoMains
    Teammates <- OneTeammate
    Workers <- None
    NoRequest = NoRequest
    Bridge = FALSE
    Channel = FALSE
    MayCancel = FALSE
    MaxTypings = 1
CHECK_DEADLOCK FALSE
INVARIANTS
    DialogIsFloor
