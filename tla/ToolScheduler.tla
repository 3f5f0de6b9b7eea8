---------------------------- MODULE ToolScheduler ----------------------------
(***************************************************************************)
(* What StreamingToolExecutor promises of the calls it makes, without      *)
(* queues, promises, results or cancellation: a first-in first-out         *)
(* readers-writer lock.  A call that is safe may run with other safe       *)
(* calls, any other runs alone, and no call overtakes one that waits.      *)
(***************************************************************************)
EXTENDS Naturals, Sequences

VARIABLE calls  \* the requested calls in order: [safe, phase]

Waiting(i) == calls[i].phase = "waiting"
Running(i) == calls[i].phase = "running"

NextInLine(i) == Waiting(i) /\ \A j \in DOMAIN calls : j < i => ~Waiting(j)

Compatible(i) ==
    \A j \in DOMAIN calls : Running(j) => calls[i].safe /\ calls[j].safe

Init == calls = <<>>

Admit == \E safe \in BOOLEAN : calls' = Append(calls, [safe |-> safe, phase |-> "waiting"])

\* The request names no tool: it is answered without waiting for anything.
Reject == calls' = Append(calls, [safe |-> TRUE, phase |-> "finished"])

Start(i) ==
    /\ NextInLine(i) /\ Compatible(i)
    /\ calls' = [calls EXCEPT ![i].phase = "running"]

\* A call cancelled in the queue ends in its turn without running.
Skip(i) ==
    /\ NextInLine(i)
    /\ calls' = [calls EXCEPT ![i].phase = "finished"]

Finish(i) ==
    /\ Running(i)
    /\ calls' = [calls EXCEPT ![i].phase = "finished"]

Next == Admit \/ Reject \/ \E i \in DOMAIN calls : Start(i) \/ Skip(i) \/ Finish(i)

Spec == Init /\ [][Next]_calls
=============================================================================
