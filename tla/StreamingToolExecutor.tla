------------------------ MODULE StreamingToolExecutor ------------------------
(***************************************************************************)
(* One StreamingToolExecutor (services/tools/StreamingToolExecutor.ts) and *)
(* the query loop that feeds it tool_use blocks and drains its results.    *)
(*                                                                         *)
(* JavaScript runs one job at a time.  A microtask (the continuation of an *)
(* await on a settled promise) runs before the event loop serves the next  *)
(* timer, socket or child process.  Here `Quiet' says that no microtask is *)
(* pending: the events of the outside world (a stream message, a progress  *)
(* report, a tool's answer, ESC) wait for it, and pending microtasks run   *)
(* in any order.  Every tool call answers in an event of its own.          *)
(***************************************************************************)
EXTENDS Integers, Sequences, FiniteSets

CONSTANTS
    Kinds,       \* the kinds of tool_use block the model may send
    MaxTools,    \* BOUND: tool_use blocks in one assistant turn
    MaxProgress  \* BOUND: progress messages of one tool not yet yielded

\* A block names a tool of the registry or not ("No such tool available"),
\* its input is concurrency safe or not, and the tool is Bash or another one.
Kind == [known : BOOLEAN, safe : BOOLEAN, bash : BOOLEAN]

ASSUME KindsAssumption ==
    /\ Kinds \subseteq Kind
    /\ \A kd \in Kinds : ~kd.known => kd.safe /\ ~kd.bash
ASSUME BoundsAssumption == MaxTools \in Nat /\ MaxProgress \in Nat

VARIABLES
    blocks,      \* the tool_use blocks the query loop has yielded so far
    tools,       \* this.tools, in the order received
    hasErrored,  \* a Bash call failed: siblingAbortController has fired
    discarded,   \* discard() was called
    aborted,     \* reason of toolUseContext.abortController, "no" before it fires
    loops,       \* tools whose processQueue loop is suspended at `await executeTool'
    kicks,       \* completed tools whose promise.finally has not run
    inProgress,  \* inProgressToolUseIDs of the session, as indices of tools
    pc,          \* where the query loop is suspended
    site,        \* which of the three uses of getCompletedResults it is in
    k,           \* its position in tools there
    waitSet      \* the promises of its Promise.race

vars == <<blocks, tools, hasErrored, discarded, aborted, loops, kicks, inProgress,
          pc, site, k, waitSet>>
control == <<hasErrored, discarded, aborted>>
consumer == <<pc, site, k, waitSet>>

Idx == DOMAIN tools
Synthetic == {"streaming_fallback", "sibling_error", "user_interrupted"}
Answers == {"ok", "err"} \cup Synthetic  \* messages holding a tool_result block

\* What a call can return: its tool_result, perhaps followed by hook attachments.
Outcomes == {<<"ok">>, <<"err">>, <<"ok", "note">>, <<"err", "note">>}

(***************************************************************************)
(* A TrackedTool, with the state of the closure that runs it: `call' is    *)
(* the runToolUse underneath, `updates' what it has enqueued and the       *)
(* `for await' has not read, `errored' is thisToolErrored.                 *)
(***************************************************************************)
Tracked(kd) ==
    [kind |-> kd, call |-> "none", updates |-> <<>>, errored |-> FALSE, progress |-> 0,
     status |-> IF kd.known THEN "queued" ELSE "completed",
     results |-> IF kd.known THEN <<>> ELSE <<"err">>]

Update(i, t) == tools' = [tools EXCEPT ![i] = t]

Executing == {i \in Idx : tools[i].status = "executing"}
Queued == {i \in Idx : tools[i].status = "queued"}

\* Mutants: the calls under way are not looked at; the tool itself is not.
CanExecuteToolWhenSafe(safe) == Executing = {} \/ safe
CanExecuteToolAmongSafe(safe) == \A i \in Executing : tools[i].kind.safe

CanExecuteTool(safe) ==
    \/ Executing = {}
    \/ safe /\ \A i \in Executing : tools[i].kind.safe

\* Mutant: the reason of the signal is handed on as it is.
AbortReasonOfSignal ==
    IF discarded THEN "streaming_fallback"
    ELSE IF hasErrored THEN "sibling_error"
    ELSE IF aborted # "no" THEN aborted ELSE "none"

\* getAbortReason.  No tool of the repository declares an interruptBehavior,
\* so every tool is 'block' and the reason 'interrupt' cancels none.
AbortReason ==
    IF discarded THEN "streaming_fallback"
    ELSE IF hasErrored THEN "sibling_error"
    ELSE IF aborted = "user" THEN "user_interrupted" ELSE "none"

\* The tool's own signal: created aborted when the query's signal is.
SignalAborted == hasErrored \/ aborted # "no"

-----------------------------------------------------------------------------
\* Only a Bash call that fails cancels its siblings.
Cascades(t, u) == u = "err" /\ t.kind.bash

(***************************************************************************)
(* processQueue from position p, up to its first await.  A queued tool     *)
(* that cannot start blocks all behind it: an unsafe one breaks the loop,  *)
(* a safe one is blocked by an unsafe call, which blocks the others too.   *)
(***************************************************************************)
\* Mutant: processQueue does not stop at a tool that cannot start.
StartableOvertaking(p) ==
    {i \in Queued : i >= p /\ CanExecuteTool(tools[i].kind.safe)}

Startable(p) ==
    {i \in Queued : /\ i >= p
                    /\ \A j \in Queued : j >= p => i <= j
                    /\ CanExecuteTool(tools[i].kind.safe)}

\* Mutant: a tool cancelled before it starts is answered for and called too.
StartedThoughCancelled(t) ==
    [t EXCEPT !.status = "executing", !.call = "live",
              !.results = IF AbortReason # "none" THEN <<AbortReason>> ELSE <<>>]

\* The synchronous part of executeTool: a tool cancelled before it starts is
\* completed at once; one whose signal is already aborted by an 'interrupt'
\* answers CANCEL_MESSAGE (an error result) without calling the tool.
Started(t) ==
    IF AbortReason # "none"
    THEN [t EXCEPT !.status = "completed", !.results = <<AbortReason>>]
    ELSE IF SignalAborted
    THEN [t EXCEPT !.status = "executing", !.call = "settled", !.updates = <<"err">>]
    ELSE [t EXCEPT !.status = "executing", !.call = "live"]

\* ks: the promise.finally callbacks already pending.
ExecuteTool(i, ks) ==
    /\ Update(i, Started(tools[i]))
    /\ inProgress' = inProgress \cup {i}
    /\ kicks' = ks \cup (IF AbortReason # "none" THEN {i} ELSE {})

\* A processQueue nobody awaits: addTool's and the one of promise.finally.
ProcessQueue(ls, ks, p) ==
    \/ \E i \in Startable(p) : ExecuteTool(i, ks) /\ loops' = ls \cup {i}
    \/ /\ Startable(p) = {}
       /\ loops' = ls /\ kicks' = ks
       /\ UNCHANGED <<tools, inProgress>>

-----------------------------------------------------------------------------
(***************************************************************************)
(* getCompletedResults runs to its next yield without giving way.          *)
(***************************************************************************)
Stops(from) ==  \* where the generator can first yield or break
    {i \in Idx : /\ i >= from
                 /\ \/ tools[i].progress > 0
                    \/ tools[i].status = "completed"
                    \/ tools[i].status = "executing" /\ ~tools[i].kind.safe}

HasUnfinished == \E i \in Idx : tools[i].status # "yielded"
HasCompleted == \E i \in Idx : tools[i].status = "completed"
HasProgress == \E i \in Idx : tools[i].progress > 0
MustWait == Executing # {} /\ ~HasCompleted /\ ~HasProgress

\* The query loop leaves the generator: back to the model's stream, round
\* the while of getRemainingResults, or past its end.
EndCollect(at) ==
    /\ tools' = tools
    /\ site' = at
    /\ k' = 0
    /\ pc' = IF at = "stream" THEN "streaming"
             ELSE IF at = "final" THEN "done"
             ELSE IF MustWait THEN "waiting" ELSE "top"
    /\ waitSet' = IF at = "loop" /\ MustWait THEN Executing ELSE {}

\* Suspended at a yield: "progress" resumes at k, "result" marks k as complete.
YieldAt(i, at) == k' = i /\ site' = at /\ waitSet' = {}

Collect(from, at) ==
    \/ Stops(from) = {} /\ EndCollect(at)
    \/ \E i \in Stops(from) :
         /\ \A j \in Stops(from) : i <= j
         /\ \/ /\ tools[i].progress > 0
               /\ Update(i, [tools[i] EXCEPT !.progress = @ - 1])
               /\ pc' = "progress" /\ YieldAt(i, at)
            \/ /\ tools[i].progress = 0 /\ tools[i].status = "completed"
               /\ Update(i, [tools[i] EXCEPT !.status = "yielded"])
               /\ pc' = "result" /\ YieldAt(i, at)
            \/ /\ tools[i].progress = 0 /\ tools[i].status = "executing"
               /\ EndCollect(at)

-----------------------------------------------------------------------------
\* Mutant: only progress messages wake the query loop.
WokenByProgress == HasProgress

\* The race of getRemainingResults has settled: one of the calls it names is
\* done, or a progress message has resolved progressAvailableResolve.
Woken == (\E i \in waitSet : tools[i].status # "executing") \/ HasProgress

\* The query loop is in the middle of a job: nothing else runs.
InJob == pc \in {"added", "drain", "top"}

Quiet ==
    /\ loops = {} /\ kicks = {}
    /\ \A i \in Idx : tools[i].status = "executing" => tools[i].call = "live"
    /\ \/ pc \in {"streaming", "offered", "progress", "result", "done", "gone"}
       \/ pc = "waiting" /\ ~Woken

Init ==
    /\ blocks = <<>> /\ tools = <<>>
    /\ loops = {} /\ kicks = {} /\ inProgress = {}
    /\ hasErrored = FALSE /\ discarded = FALSE /\ aborted = "no"
    /\ pc = "streaming" /\ site = "stream" /\ k = 0 /\ waitSet = {}

(***************************************************************************)
(* The query loop (query.ts).  A message of the model's stream is first    *)
(* yielded to the session, which takes its time; the tool_use block it     *)
(* carries (at most one) is then added, unless the query was aborted.      *)
(***************************************************************************)
MessageArrives ==
    /\ pc = "streaming" /\ Quiet /\ Len(blocks) < MaxTools
    /\ \E kd \in Kinds : blocks' = Append(blocks, kd)
    /\ pc' = "offered"
    /\ UNCHANGED <<control, tools, loops, kicks, inProgress, site, k, waitSet>>

AddTool ==
    /\ pc = "offered"
    /\ IF aborted = "no"
       THEN /\ tools' = Append(tools, Tracked(blocks[Len(blocks)]))
            /\ pc' = "added"
       ELSE tools' = tools /\ pc' = "streaming"
    /\ UNCHANGED <<control, blocks, loops, kicks, inProgress, site, k, waitSet>>

\* The rest of addTool, in the same job: processQueue for a known tool.
AddToolStarts ==
    /\ pc = "added"
    /\ IF tools[Len(tools)].kind.known
       THEN ProcessQueue(loops, kicks, 1)
       ELSE UNCHANGED <<tools, loops, inProgress, kicks>>
    /\ pc' = "drain"
    /\ UNCHANGED <<control, blocks, site, k, waitSet>>

\* The getCompletedResults that follows, still in the same job.
DrainStream ==
    /\ pc = "drain"
    /\ Collect(1, "stream")
    /\ UNCHANGED <<control, blocks, loops, kicks, inProgress>>

\* A message without a tool_use block: only the draining.
OtherMessage ==
    /\ pc = "streaming" /\ Quiet /\ aborted = "no"
    /\ Collect(1, "stream")
    /\ UNCHANGED <<control, blocks, loops, kicks, inProgress>>

\* Mutant: a yielded tool stays in progress.
PullUnmarked ==
    /\ pc \in {"progress", "result"}
    /\ Collect(IF pc = "result" THEN k + 1 ELSE k, site)
    /\ UNCHANGED <<control, blocks, loops, kicks, inProgress>>

\* The session asks for more: the generator resumes after its yield.
Pull ==
    /\ pc \in {"progress", "result"}
    /\ Collect(IF pc = "result" THEN k + 1 ELSE k, site)
    /\ inProgress' = IF pc = "result" THEN inProgress \ {k} ELSE inProgress
    /\ UNCHANGED <<control, blocks, loops, kicks>>

\* The stream ends, normally or because of an abort: getRemainingResults begins.
StreamEnds ==
    /\ pc = "streaming" /\ Quiet
    /\ pc' = "top"
    /\ UNCHANGED <<control, blocks, tools, loops, kicks, inProgress, site, k, waitSet>>

\* A fallback (to non-streaming, or to another model) replaces the executor.
Discard ==
    /\ pc = "streaming" /\ Quiet
    /\ discarded' = TRUE
    /\ pc' = "gone"
    /\ UNCHANGED <<hasErrored, aborted, blocks, tools, loops, kicks, inProgress,
                   site, k, waitSet>>

\* callModel throws something else: the turn ends with model_error and the
\* executor is left as it is.
StreamThrows ==
    /\ pc = "streaming" /\ Quiet
    /\ pc' = "gone"
    /\ UNCHANGED <<control, blocks, tools, loops, kicks, inProgress, site, k, waitSet>>

(***************************************************************************)
(* getRemainingResults: while a tool is not yielded, await processQueue,   *)
(* drain, and race the executing calls when there is nothing to yield.     *)
(***************************************************************************)
AwaitProcessQueue(from) ==
    /\ \/ \E i \in Startable(from) :
            ExecuteTool(i, kicks) /\ k' = i + 1 /\ pc' = "scanning"
       \/ Startable(from) = {} /\ k' = 0 /\ pc' = "scanned"
                                      /\ UNCHANGED <<tools, inProgress, kicks>>
    /\ UNCHANGED <<control, blocks, loops, site, waitSet>>

LoopTop ==
    /\ pc = "top"
    /\ IF HasUnfinished
       THEN AwaitProcessQueue(1)
       ELSE /\ Collect(1, "final")
            /\ UNCHANGED <<control, blocks, loops, kicks, inProgress>>

Scan == pc = "scanning" /\ AwaitProcessQueue(k)

DrainRemaining ==
    /\ pc = "scanned"
    /\ Collect(1, "loop")
    /\ UNCHANGED <<control, blocks, loops, kicks, inProgress>>

WakeUp ==
    /\ pc = "waiting" /\ Woken
    /\ pc' = "top" /\ waitSet' = {}
    /\ UNCHANGED <<control, blocks, tools, loops, kicks, inProgress, site, k>>

-----------------------------------------------------------------------------
\* `await executeTool' of a processQueue nobody awaits is over.
LoopResumes(i) ==
    /\ i \in loops /\ ~InJob
    /\ ProcessQueue(loops \ {i}, kicks, i + 1)
    /\ UNCHANGED <<control, blocks, consumer>>

\* promise.finally: a completed tool processes the queue.
Kick(i) ==
    /\ i \in kicks /\ ~InJob
    /\ ProcessQueue(loops, kicks \ {i}, 1)
    /\ UNCHANGED <<control, blocks, consumer>>

(***************************************************************************)
(* The calls.  A tool reports progress and answers once; its Stream hands  *)
(* the messages of the answer to the collector one by one.                 *)
(***************************************************************************)
\* A progress message: the collector either stores it or, when the tool has
\* been cancelled meanwhile, answers for the tool and stops listening to it.
ToolProgress(i) ==
    /\ tools[i].call = "live" /\ tools[i].status = "executing" /\ Quiet
    /\ IF AbortReason = "none"
       THEN /\ tools[i].progress < MaxProgress
            /\ Update(i, [tools[i] EXCEPT !.progress = @ + 1])
            /\ kicks' = kicks
       ELSE /\ Update(i, [tools[i] EXCEPT !.status = "completed",
                                           !.results = Append(@, AbortReason)])
            /\ kicks' = kicks \cup {i}
    /\ UNCHANGED <<control, blocks, consumer, loops, inProgress>>

\* The call answers.  Nobody listens to the answer of a tool already completed.
ToolReturns(i) ==
    /\ tools[i].call = "live" /\ Quiet
    /\ \E out \in Outcomes :
         Update(i, [tools[i] EXCEPT !.call = "settled",
                      !.updates = IF tools[i].status = "executing" THEN out ELSE <<>>])
    /\ UNCHANGED <<control, blocks, consumer, loops, kicks, inProgress>>

\* The user rejects the permission dialog (cancelAndAbort): the tool's own
\* controller is aborted, which aborts the query unless that signal had fired.
RejectPermission(i) ==
    /\ tools[i].call = "live" /\ Quiet
    /\ Update(i, [tools[i] EXCEPT !.call = "settled",
                    !.updates = IF tools[i].status = "executing" THEN <<"err">> ELSE <<>>])
    /\ aborted' = IF SignalAborted \/ discarded THEN aborted ELSE "user"
    /\ UNCHANGED <<hasErrored, discarded, blocks, consumer, loops, kicks, inProgress>>

\* Mutant: an answer is not heard to its end, not even by the call that failed,
\* which only does not get a second error.
DeliverCutShort(i) ==
    /\ tools[i].status = "executing" /\ tools[i].updates # <<>> /\ ~InJob
    /\ LET u == Head(tools[i].updates) IN
       IF AbortReason # "none"
       THEN /\ Update(i, [tools[i] EXCEPT !.status = "completed", !.updates = <<>>,
                            !.results = IF tools[i].errored THEN @ ELSE Append(@, AbortReason)])
            /\ kicks' = kicks \cup {i}
            /\ hasErrored' = hasErrored
       ELSE /\ Update(i, [tools[i] EXCEPT !.updates = Tail(@),
                                           !.errored = @ \/ u = "err",
                                           !.results = Append(@, u)])
            /\ hasErrored' = (hasErrored \/ Cascades(tools[i], u))
            /\ kicks' = kicks
    /\ UNCHANGED <<discarded, aborted, blocks, consumer, loops, inProgress>>

\* One turn of the collector's `for await' over an answer.
Deliver(i) ==
    /\ tools[i].status = "executing" /\ tools[i].updates # <<>> /\ ~InJob
    /\ LET u == Head(tools[i].updates) IN
       IF AbortReason # "none" /\ ~tools[i].errored
       THEN /\ Update(i, [tools[i] EXCEPT !.status = "completed", !.updates = <<>>,
                                           !.results = Append(@, AbortReason)])
            /\ kicks' = kicks \cup {i}
            /\ hasErrored' = hasErrored
       ELSE /\ Update(i, [tools[i] EXCEPT !.updates = Tail(@),
                                           !.errored = @ \/ u = "err",
                                           !.results = Append(@, u)])
            /\ hasErrored' = (hasErrored \/ Cascades(tools[i], u))
            /\ kicks' = kicks
    /\ UNCHANGED <<discarded, aborted, blocks, consumer, loops, inProgress>>

\* Mutant: a completed tool does not process the queue.
CompleteUnheard(i) ==
    /\ tools[i].status = "executing" /\ tools[i].call = "settled"
    /\ tools[i].updates = <<>> /\ ~InJob
    /\ Update(i, [tools[i] EXCEPT !.status = "completed"])
    /\ UNCHANGED <<control, blocks, consumer, loops, kicks, inProgress>>

\* The answer is read to its end: the tool is completed.
Complete(i) ==
    /\ tools[i].status = "executing" /\ tools[i].call = "settled"
    /\ tools[i].updates = <<>> /\ ~InJob
    /\ Update(i, [tools[i] EXCEPT !.status = "completed"])
    /\ kicks' = kicks \cup {i}
    /\ UNCHANGED <<control, blocks, consumer, loops, inProgress>>

\* ESC ("user"), or a message submitted with priority 'now' ("interrupt").
Abort ==
    /\ aborted = "no" /\ Quiet
    /\ aborted' \in {"user", "interrupt"}
    /\ UNCHANGED <<hasErrored, discarded, blocks, tools, consumer, loops, kicks, inProgress>>

Consumer ==
    \/ MessageArrives \/ AddTool \/ AddToolStarts \/ DrainStream \/ OtherMessage
    \/ Pull \/ StreamEnds \/ Discard \/ StreamThrows
    \/ LoopTop \/ Scan \/ DrainRemaining \/ WakeUp

Tool(i) ==
    \/ ToolProgress(i) \/ ToolReturns(i) \/ RejectPermission(i)
    \/ Deliver(i) \/ Complete(i) \/ LoopResumes(i) \/ Kick(i)

Next == Consumer \/ Abort \/ \E i \in Idx : Tool(i)

Spec == Init /\ [][Next]_vars

(***************************************************************************)
(* Fairness.  Pending microtasks run.  The session pulls what is yielded,  *)
(* the model's stream ends and every call answers: an event of the outside *)
(* world is only delayed while microtasks keep the event loop from it, so  *)
(* it happens when it is possible again and again (strong fairness).       *)
(***************************************************************************)
ToolTurn(i) == i \in Idx /\ (Deliver(i) \/ Complete(i) \/ LoopResumes(i) \/ Kick(i))
CallAnswers(i) == i \in Idx /\ ToolReturns(i)

Fairness ==
    /\ WF_vars(AddTool \/ AddToolStarts \/ DrainStream \/ Pull)
    /\ WF_vars(LoopTop \/ Scan \/ DrainRemaining \/ WakeUp)
    /\ SF_vars(StreamEnds)
    /\ \A i \in 1 .. MaxTools : WF_vars(ToolTurn(i)) /\ SF_vars(CallAnswers(i))

FairSpec == Spec /\ Fairness

-----------------------------------------------------------------------------
(***************************************************************************)
(* Properties.                                                             *)
(***************************************************************************)
ToolRecord ==
    [kind : Kind, call : {"none", "live", "settled"},
     updates : Seq({"ok", "err", "note"}), errored : BOOLEAN, progress : Nat,
     status : {"queued", "executing", "completed", "yielded"},
     results : Seq(Answers \cup {"note"})]

\* The type invariant.
TypeOK ==
    /\ blocks \in Seq(Kinds) /\ tools \in Seq(ToolRecord)
    /\ hasErrored \in BOOLEAN /\ discarded \in BOOLEAN
    /\ aborted \in {"no", "user", "interrupt"}
    /\ loops \in SUBSET Idx /\ kicks \in SUBSET Idx /\ inProgress \in SUBSET Idx
    /\ pc \in {"streaming", "offered", "added", "drain", "progress", "result", "top",
               "scanning", "scanned", "waiting", "done", "gone"}
    /\ site \in {"stream", "loop", "final"}
    /\ k \in Nat /\ waitSet \in SUBSET Idx

Live == {i \in Idx : tools[i].call = "live"}
Begun(i) == tools[i].status # "queued"

\* "Non-concurrent tools must execute alone (exclusive access)": no call of an
\* unsafe tool is under way together with another call, not even with one
\* whose tool was cancelled and answered for while the call went on.
Exclusive ==
    \A i, j \in Live : i # j => tools[i].kind.safe /\ tools[j].kind.safe

\* Tools start in the order the model sent them: a blocked tool is never
\* overtaken, whatever loops of processQueue are suspended half-way.
StartOrder ==
    \A i, j \in Idx : i < j /\ tools[j].kind.known /\ Begun(j) => Begun(i)

\* A finished tool has exactly one message with its tool_result (the API
\* refuses none and two), however cancellation raced its own answer.
OneAnswer ==
    \A i \in Idx : tools[i].status \in {"completed", "yielded"} =>
        Cardinality({n \in DOMAIN tools[i].results : tools[i].results[n] \in Answers}) = 1

\* No wake-up is lost: a tool that may start is never left in the queue with
\* nobody about to process it, however the loops of processQueue, the callbacks
\* of finished calls and the draining of results interleave.
NoLostWakeup ==
    Startable(1) # {} =>
        \/ loops # {} \/ kicks # {} \/ pc = "scanning"
        \/ pc = "added" /\ tools[Len(tools)].kind.known

\* The executor implements ToolScheduler: what the abstract lock calls running
\* is a runToolUse under way, whatever the status of its tool.
Phase(t) == IF t.call = "live" THEN "running"
            ELSE IF t.status = "queued" THEN "waiting" ELSE "finished"
Calls == [i \in Idx |-> [safe |-> tools[i].kind.safe, phase |-> Phase(tools[i])]]
Scheduler == INSTANCE ToolScheduler WITH calls <- Calls
SchedulerSpec == Scheduler!Spec

\* What a tool was answered stays as it is: once a message of its answer has
\* been kept (its own, or the one of a cancellation) the rest follows and nothing
\* else does.  The error that cancels the siblings does not cut short the answer
\* it is part of, and the late answer of a cancelled call is not added.
AnswerWhole ==
    [][\A i \in Idx : tools[i].results # <<>> =>
            tools'[i].results \o tools'[i].updates = tools[i].results \o tools[i].updates]_vars

\* A turn that drained its executor leaves nothing behind: every tool was
\* yielded, no tool is shown as in progress, none waits to be started.
CleanEnd == pc = "done" => inProgress = {} /\ \A i \in Idx : tools[i].status = "yielded"

\* "Wait for remaining tools and yield their results as they complete": every
\* tool given to the executor is answered, unless its attempt is given up.
EveryToolAnswered ==
    \A i \in 1 .. MaxTools :
        (i \in Idx) ~> (pc = "gone" \/ (i \in Idx /\ tools[i].status = "yielded"))

\* "Without this, tool_use blocks would lack matching tool_result blocks": a
\* turn that drained its executor has answered every block it yielded.
EveryBlockAnswered ==
    pc = "done" => \A b \in DOMAIN blocks : b \in Idx /\ tools[b].status = "yielded"
=============================================================================
