\* A call of the main agent with every racer, one of a teammate, one of a worker.
SPECIFICATION FairSpec
CONSTANTS
    m1 = m1
    m2 = m2
    t1 = t1
    w1 = w1
    Mains <- OneMain
    Teammates <- OneTeammate
    Workers <- OneWorker
    NoRequest = NoRequest
    Bridge = TRUE
    Channel = TRUE
    MayCancel = TRUE
    MaxTypings = 1
CHECK_DEADLOCK FALSE
INVARIANTS
    TypeOK
    AnswerAgrees
    NoStaleDialog
    NoStalePrompt
PROPERTIES
    AllAnswered
