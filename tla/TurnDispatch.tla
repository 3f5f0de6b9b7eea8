----------------------------- MODULE TurnDispatch -----------------------------
(***************************************************************************)
(* How the REPL turns commands into turns: QueryGuard, the command queue   *)
(* (messageQueueManager, queueProcessor, useQueueProcessor), the dispatch  *)
(* in handlePromptSubmit, onQuery and onCancel of REPL.tsx, and the        *)
(* mid-turn drain of the queue in query.ts.                                *)
(*                                                                         *)
(* Every action is one event of the event loop with all its microtasks: a  *)
(* key, the end of processUserInput or of a query, a render of React.  The *)
(* interface acts on what was last rendered (`shown', `seen...'), the      *)
(* queue and the guard are read as they are.                               *)
(***************************************************************************)
EXTENDS Integers, Sequences, FiniteSets

CONSTANTS
    Kinds,        \* the kinds of commands there are, see Kind
    MaxCommands,  \* BOUND: commands issued
    MaxCancels,   \* BOUND: times the user cancels or rewinds
    MayThrow,     \* whether processUserInput may throw
    Immediates,   \* whether the user runs immediate commands
    FastKeys      \* whether ESC may be pressed before a change is rendered

(***************************************************************************)
(* A command is a prompt, a prompt of priority 'now', a bash line, a slash *)
(* command, a task notification, one addressed to a subagent, or a hidden  *)
(* prompt (isMeta: of a scheduled task, or the result of a forked command).*)
(***************************************************************************)
Kind == {"prompt", "now", "bash", "slash", "note", "agent", "meta"}

ASSUME KindsAssumption == Kinds \subseteq Kind
ASSUME BoundsAssumption == MaxCommands \in Nat /\ MaxCancels \in Nat
ASSUME ScopeAssumption ==
    MayThrow \in BOOLEAN /\ Immediates \in BOOLEAN /\ FastKeys \in BOOLEAN

VARIABLES
    status,      \* QueryGuard._status
    generation,  \* QueryGuard._generation
    queue,       \* commandQueue
    turns,       \* the calls of executeUserInput and handleIncomingPrompt
    controller,  \* the abort controller in React state: a turn, or 0 for null
    panel,       \* the turn whose local-jsx dialog is open, 0, or Immediate
    loading,     \* an immediate command is being loaded
    shown,       \* controller at the last render
    seenActive,  \* isQueryActive at the last render
    seenPanel,   \* hasActiveLocalJsxUI at the last render
    seenCancel,  \* isEscapeActive at the last render
    queueDirty,  \* the queue snapshot has changed since the last render
    issued,      \* commands issued so far; their ids are 1 .. issued
    handled,     \* id -> times its command was executed or put in a conversation
    left,        \* <<id, why>> of the commands that left without being handled
    cancels      \* calls of onCancel so far

guard == <<status, generation>>
dialogs == <<panel, loading>>
rendered == <<shown, seenActive, seenPanel, seenCancel>>
ghosts == <<handled, left>>
vars == <<guard, queue, turns, controller, dialogs, rendered, queueDirty, issued,
          ghosts, cancels>>

Turn == DOMAIN turns
Immediate == -1
Active == status # "idle"  \* isActive
Processing == {t \in Turn : turns[t].stage = "processing"}
Querying == {t \in Turn : turns[t].stage \in {"querying", "attaching"}}
Current == {t \in Querying : turns[t].gen = generation}
Elements(s) == {s[i] : i \in DOMAIN s}
Ids(s) == {s[i].id : i \in DOMAIN s}

\* Mutant: ids are counted from zero.
CommandFromZero(id, kind, copy) == [id |-> id - 1, kind |-> kind, copy |-> copy]

\* A queued command object; `copy' tells objects with the same text apart.
Command(id, kind, copy) == [id |-> id, kind |-> kind, copy |-> copy]

Main(c) == c.kind # "agent"
Mode(c) == IF c.kind \in {"note", "agent"} THEN "task-notification"
           ELSE IF c.kind = "bash" THEN "bash" ELSE "prompt"
Priority(c) == IF c.kind = "now" THEN 0
               ELSE IF c.kind \in {"note", "agent", "meta"} THEN 2 ELSE 1
Editable(c) == Mode(c) # "task-notification" /\ c.kind # "meta"

Handle(s) == handled' = [i \in DOMAIN handled |->
                           IF i \in Ids(s) THEN handled[i] + 1 ELSE handled[i]]
\* The user takes it back or clears it away, processUserInput throws, or
\* onQuery refuses it and does not enqueue it again.
Reasons == {"taken", "cleared", "failed", "skipped"}
Leave(ids, why) == left' = left \cup (ids \X {why})
Touched == queueDirty' = (queueDirty \/ queue' # queue)

-----------------------------------------------------------------------------
(***************************************************************************)
(* processQueueIfReady: the command of the highest priority, first in      *)
(* first out; a slash or bash command goes alone, another one takes with   *)
(* it all commands of its mode.                                            *)
(***************************************************************************)
\* The elements of s that are in `keep', in their order: the n-th is the one
\* with n of them up to it.  (No proof could be done about SelectSeq.)
Only(s, keep) ==
    LET kept == {i \in DOMAIN s : s[i] \in keep}
        Rank(i) == Cardinality({j \in kept : j <= i})
    IN [n \in 1 .. Cardinality(kept) |-> s[CHOOSE i \in kept : Rank(i) = n]]

MainIndices == {i \in DOMAIN queue : Main(queue[i])}
Best == CHOOSE i \in MainIndices : \A j \in MainIndices :
            \/ Priority(queue[i]) < Priority(queue[j])
            \/ Priority(queue[i]) = Priority(queue[j]) /\ i <= j
Batch ==
    IF queue[Best].kind \in {"slash", "bash"}
    THEN <<queue[Best]>>
    ELSE Only(queue, {c \in Elements(queue) : /\ Main(c) /\ c.kind # "slash"
                                              /\ Mode(c) = Mode(queue[Best])})

\* What is left of a queue.  Mutant: the head is removed, not what was taken.
WithoutHead(s, gone) == IF s = <<>> THEN s ELSE Tail(s)
Without(s, gone) == Only(s, Elements(s) \ gone)

\* A turn starts: a fresh abort controller, which becomes the session's.
NewTurn(cmds, direct, stage, gen) ==
    [cmds |-> cmds, direct |-> direct, stage |-> stage, gen |-> gen,
     aborted |-> "no", dialog |-> FALSE, snapshot |-> <<>>]

\* Mutants: the reservation is not made; the controller stays with its creator.
ExecuteUserInputUnreserved(ts, cmds) ==
    /\ turns' = Append(ts, NewTurn(cmds, FALSE, "processing", 0))
    /\ controller' = Len(ts) + 1
    /\ status' = status
ExecuteUserInputUnlinked(ts, cmds) ==
    /\ turns' = Append(ts, NewTurn(cmds, FALSE, "processing", 0))
    /\ controller' = controller
    /\ status' = IF status = "idle" THEN "dispatching" ELSE status

\* executeUserInput up to processUserInput.  The result of reserve() is ignored.
ExecuteUserInput(ts, cmds) ==
    /\ turns' = Append(ts, NewTurn(cmds, FALSE, "processing", 0))
    /\ controller' = Len(ts) + 1
    /\ status' = IF status = "idle" THEN "dispatching" ELSE status

Over(t) == [turns[t] EXCEPT !.stage = "over", !.cmds = <<>>, !.snapshot = <<>>]
AbortIn(ts, t, reason) ==
    IF t \in DOMAIN ts /\ ts[t].aborted = "no"
    THEN [ts EXCEPT ![t].aborted = reason] ELSE ts

Init ==
    /\ status = "idle" /\ generation = 0
    /\ queue = <<>> /\ turns = <<>> /\ controller = 0 /\ panel = 0 /\ loading = FALSE
    /\ shown = 0 /\ seenActive = FALSE /\ seenPanel = FALSE /\ seenCancel = FALSE
    /\ queueDirty = FALSE
    /\ issued = 0 /\ cancels = 0
    /\ handled = [i \in 1 .. MaxCommands |-> 0] /\ left = {}

-----------------------------------------------------------------------------
(***************************************************************************)
(* Commands come in.                                                       *)
(***************************************************************************)
Issue(kind) == issued < MaxCommands /\ kind \in Kinds /\ issued' = issued + 1

\* handlePromptSubmit: queue when the guard is active, execute otherwise.
Submit(kind) ==
    /\ kind \in {"prompt", "bash", "slash"} /\ Issue(kind)
    /\ panel \in {0, Immediate}  \* a dialog of a slash command hides the prompt
    /\ LET cmd == Command(issued + 1, kind, 0) IN
       IF Active
       THEN queue' = Append(queue, cmd) /\ UNCHANGED <<turns, controller, status>>
       ELSE queue' = queue /\ ExecuteUserInput(turns, <<cmd>>)
    /\ Touched
    /\ UNCHANGED <<generation, dialogs, rendered, ghosts, cancels>>

\* enqueue and enqueuePendingNotification: a 'now' prompt from another
\* client, a hidden prompt, a notification of a background task or for a
\* subagent.
Notify(kind) ==
    /\ kind \in {"now", "note", "agent", "meta"} /\ Issue(kind)
    /\ queue' = Append(queue, Command(issued + 1, kind, 0))
    /\ Touched
    /\ UNCHANGED <<guard, turns, controller, dialogs, rendered, ghosts, cancels>>

\* handleIncomingPrompt: a teammate's message becomes a turn of its own,
\* unless the guard is active or a prompt or bash command is queued.
IncomingPrompt ==
    /\ Issue("prompt") /\ ~Active
    /\ \A i \in DOMAIN queue : Mode(queue[i]) \notin {"prompt", "bash"}
    /\ status' = "running" /\ generation' = generation + 1
    /\ LET cmds == <<Command(issued + 1, "prompt", 0)>> IN
       /\ turns' = Append(turns, NewTurn(cmds, TRUE, "querying", generation'))
       /\ Handle(cmds)
    /\ controller' = Len(turns) + 1
    /\ UNCHANGED <<queue, dialogs, rendered, queueDirty, left, cancels>>

\* A subagent's query drains the notifications addressed to it.
SubagentDrains ==
    /\ \E i \in DOMAIN queue : ~Main(queue[i])
    /\ LET mine == Only(queue, {c \in Elements(queue) : ~Main(c)}) IN
       queue' = Without(queue, Elements(mine)) /\ Handle(mine)
    /\ Touched
    /\ UNCHANGED <<guard, turns, controller, dialogs, rendered, issued, left, cancels>>

(***************************************************************************)
(* A render.  When the queue, the guard or the dialog has changed, the     *)
(* effect of useQueueProcessor runs in the same commit, and then the one   *)
(* that aborts the turn whose controller is rendered for a 'now' command.  *)
(***************************************************************************)
\* Mutant: React renders the guard and the dialog only.
ChangedGuard == seenActive # Active \/ seenPanel # (panel # 0)
Cancellable(t) == t # 0 /\ turns[t].aborted = "no"
EscapeActive == Cancellable(controller) \/ queue # <<>>
Changed == queueDirty \/ seenActive # Active \/ seenPanel # (panel # 0)
ReadyToProcess == Changed /\ ~Active /\ panel = 0 /\ MainIndices # {}

Render ==
    /\ Changed \/ shown # controller \/ seenCancel # EscapeActive
    /\ shown' = controller /\ seenActive' = Active /\ seenPanel' = (panel # 0)
    /\ seenCancel' = EscapeActive
    /\ LET now == queueDirty /\ \E i \in DOMAIN queue : queue[i].kind = "now"
           ts == IF now THEN AbortIn(turns, controller, "interrupt") ELSE turns IN
       IF ReadyToProcess
       THEN /\ queue' = Without(queue, Elements(Batch))
            /\ ExecuteUserInput(ts, Batch)
       ELSE turns' = ts /\ UNCHANGED <<queue, controller, status>>
    /\ queueDirty' = (queue' # queue)
    /\ UNCHANGED <<generation, dialogs, issued, ghosts, cancels>>

-----------------------------------------------------------------------------
(***************************************************************************)
(* processUserInput is over, and the rest of executeUserInput.             *)
(***************************************************************************)
\* A slash command that shows a dialog ends when the dialog is answered.
MayFinish(t) == turns[t].dialog => panel = t

\* A slash command may submit a next input (enqueued before the finally).
Chained(q, t) ==
    \/ queue' = q /\ issued' = issued
    \/ /\ turns[t].cmds[1].kind = "slash" /\ issued < MaxCommands
       /\ queue' = Append(q, Command(issued + 1, "prompt", 0))
       /\ issued' = issued + 1

\* Mutant: messages that may not be sent are dropped.
AsPromptsDropped(s) == <<>>

Hidden(s) == {c \in Elements(s) : c.kind = "meta"}

\* What onQuery does with messages it may not send: the text of those that are
\* not hidden is enqueued as a prompt each.
AsPrompts(s) ==
    LET told == Only(s, Elements(s) \ Hidden(s)) IN
    [i \in DOMAIN told |-> Command(told[i].id, "prompt", told[i].copy + 1)]

Refused(t, s) ==
    /\ Chained(queue \o AsPrompts(s), t)
    /\ Leave({c.id : c \in Hidden(s)}, "skipped")

\* shouldQuery: onQuery starts a query (tryStart), or re-enqueues the text.
\* In both cases the dispatch has cleared the local-jsx dialog.
BecomesQuery(t) ==
    /\ t \in Processing /\ MayFinish(t) /\ turns[t].cmds[1].kind # "bash"
    /\ panel' = 0 /\ loading' = loading
    /\ IF status # "running"
       THEN /\ status' = "running" /\ generation' = generation + 1
            /\ turns' = [turns EXCEPT ![t].stage = "querying", ![t].gen = generation']
            /\ Handle(turns[t].cmds)
            /\ queue' = queue /\ issued' = issued /\ left' = left
       ELSE /\ turns' = [turns EXCEPT ![t] = Over(t)]
            /\ Refused(t, turns[t].cmds)
            /\ UNCHANGED <<guard, handled>>
    /\ Touched
    /\ UNCHANGED <<controller, rendered, cancels>>

\* Messages but no query (a bash command, a local command, a prompt blocked by
\* a hook): the guard runs and ends within the event, and the session's
\* controller is cleared.  The first command has been dealt with; the others
\* of its batch are put in the conversation.
BecomesLocal(t) ==
    /\ t \in Processing /\ MayFinish(t)
    /\ panel' = 0 /\ loading' = loading
    /\ turns' = [turns EXCEPT ![t] = Over(t)]
    /\ IF status # "running"
       THEN /\ status' = "idle" /\ generation' = generation + 1
            /\ controller' = 0
            /\ Handle(turns[t].cmds)
            /\ Chained(queue, t) /\ left' = left
       ELSE /\ \E rest \in {turns[t].cmds, Tail(turns[t].cmds)} : Refused(t, rest)
            /\ Handle(<<turns[t].cmds[1]>>)
            /\ UNCHANGED <<guard, controller>>
    /\ Touched
    /\ UNCHANGED <<rendered, cancels>>

\* cancelReservation.  Mutant: the reservation is kept.
ReleasedNever == status
Released == IF status = "dispatching" THEN "idle" ELSE status

\* No messages at all (a local command that shows nothing).
BecomesNothing(t) ==
    /\ t \in Processing /\ MayFinish(t) /\ turns[t].cmds[1].kind = "slash"
    /\ status' = Released
    /\ panel' = 0 /\ loading' = loading
    /\ controller' = 0
    /\ turns' = [turns EXCEPT ![t] = Over(t)]
    /\ Handle(turns[t].cmds)
    /\ Chained(queue, t)
    /\ Touched
    /\ UNCHANGED <<generation, rendered, left, cancels>>

\* processUserInput throws: only the finally of executeUserInput runs.
Throws(t) ==
    /\ MayThrow /\ t \in Processing /\ ~turns[t].dialog
    /\ status' = Released
    /\ turns' = [turns EXCEPT ![t] = Over(t)]
    /\ Leave(Ids(turns[t].cmds), "failed")
    /\ UNCHANGED <<generation, queue, controller, dialogs, rendered, queueDirty,
                   issued, handled, cancels>>

\* QueryGuard.end releases the guard for the current generation only.
\* Mutant: for any.
EndsAnyway(t) == status = "running"
Ends(t) == status = "running" /\ turns[t].gen = generation

\* The query is over: onQuery's finally (end, and clearing the controller when
\* it succeeds), then for a dispatched turn the finally of executeUserInput.
QueryEnds(t) ==
    /\ t \in Turn /\ turns[t].stage = "querying"
    /\ status' = IF Ends(t) THEN "idle"
                 ELSE IF turns[t].direct THEN status ELSE Released
    /\ controller' = IF Ends(t) THEN 0 ELSE controller
    /\ IF turns[t].direct THEN queue' = queue /\ issued' = issued
       ELSE Chained(queue, t)
    /\ turns' = [turns EXCEPT ![t] = Over(t)]
    /\ Touched
    /\ UNCHANGED <<generation, dialogs, rendered, ghosts, cancels>>

(***************************************************************************)
(* Between two requests of a query, query.ts turns queued commands into    *)
(* attachments: it takes a snapshot (up to 'later' after a Sleep), builds  *)
(* and yields the attachments, and then removes what it has consumed.      *)
(***************************************************************************)
TakeSnapshot(t) ==
    /\ t \in Turn /\ turns[t].stage = "querying" /\ turns[t].aborted = "no"
    /\ \E threshold \in {1, 2} :
         LET taken == Only(queue, {c \in Elements(queue) :
                                      /\ Main(c) /\ c.kind # "slash"
                                      /\ Priority(c) <= threshold
                                      /\ Mode(c) # "bash"}) IN
         /\ taken # <<>>
         /\ turns' = [turns EXCEPT ![t].stage = "attaching", ![t].snapshot = taken]
    /\ UNCHANGED <<guard, queue, controller, dialogs, rendered, queueDirty, issued,
                   ghosts, cancels>>

RemoveConsumed(t) ==
    /\ t \in Turn /\ turns[t].stage = "attaching"
    /\ Handle(turns[t].snapshot)
    /\ queue' = Without(queue, Elements(turns[t].snapshot))
    /\ turns' = [turns EXCEPT ![t].stage = "querying", ![t].snapshot = <<>>]
    /\ Touched
    /\ UNCHANGED <<guard, controller, dialogs, rendered, issued, left, cancels>>

-----------------------------------------------------------------------------
(***************************************************************************)
(* The user.                                                               *)
(***************************************************************************)
UpToDate == ~Changed /\ shown = controller
Keys == ~seenPanel /\ (FastKeys \/ UpToDate)

\* onCancel: forceEnd, abort the controller that was rendered, clear it.
OnCancel ==
    /\ cancels < MaxCancels /\ cancels' = cancels + 1
    /\ IF Active
       THEN status' = "idle" /\ generation' = generation + 1
       ELSE UNCHANGED guard
    /\ turns' = AbortIn(turns, shown, "user")
    /\ controller' = 0
    /\ UNCHANGED <<queue, dialogs, rendered, queueDirty, issued, ghosts>>

\* ESC cancels what is running or, when nothing it can cancel was rendered
\* and the queue is empty by now, calls onCancel all the same.  With commands
\* in the queue it is PopQueue.
Escape == Keys /\ seenCancel /\ (Cancellable(shown) \/ queue = <<>>) /\ OnCancel

\* Restoring an earlier message (from a dialog that has been rendered) calls
\* onCancel whatever is running.
Rewind == ~seenPanel /\ UpToDate /\ OnCancel

\* The up arrow, or ESC with nothing to cancel, takes the editable commands
\* back to the prompt.
PopQueue ==
    /\ panel \in {0, Immediate}
    /\ LET editable == {c \in Elements(queue) : Editable(c)} IN
       /\ editable # {}
       /\ queue' = Without(queue, editable)
       /\ Leave({c.id : c \in editable}, "taken")
    /\ Touched
    /\ UNCHANGED <<guard, turns, controller, dialogs, rendered, issued, handled, cancels>>

\* chat:killAgents, pressed twice: the queue is cleared and the model told.
KillAgents ==
    /\ Issue("note")
    /\ Leave(Ids(queue), "cleared")
    /\ queue' = <<Command(issued + 1, "note", 0)>>
    /\ Touched
    /\ UNCHANGED <<guard, turns, controller, dialogs, rendered, handled, cancels>>

(***************************************************************************)
(* Dialogs.  While the guard is active, an immediate local-jsx command is  *)
(* loaded beside the turn; then it shows a dialog, is over at once (which  *)
(* clears the dialog there is) or fails.  A slash command of a turn shows  *)
(* its dialog when it is loaded.  A dialog replaces the one there is.      *)
(***************************************************************************)
RunImmediate ==
    /\ Immediates /\ Active /\ panel \in {0, Immediate} /\ ~loading
    /\ loading' = TRUE
    /\ UNCHANGED <<guard, queue, turns, controller, panel, rendered, queueDirty, issued,
                   ghosts, cancels>>

ImmediateLoaded ==
    /\ loading /\ loading' = FALSE
    /\ panel' \in {Immediate, 0, panel}
    /\ UNCHANGED <<guard, queue, turns, controller, rendered, queueDirty, issued,
                   ghosts, cancels>>

OpenDialog(t) ==
    /\ t \in Processing /\ turns[t].cmds[1].kind = "slash" /\ ~turns[t].dialog
    /\ turns' = [turns EXCEPT ![t].dialog = TRUE]
    /\ panel' = t /\ loading' = loading
    /\ UNCHANGED <<guard, queue, controller, rendered, queueDirty, issued, ghosts, cancels>>

CloseImmediate ==
    /\ panel = Immediate
    /\ panel' = 0 /\ loading' = loading
    /\ UNCHANGED <<guard, queue, turns, controller, rendered, queueDirty, issued,
                   ghosts, cancels>>

Dispatched(t) == BecomesQuery(t) \/ BecomesLocal(t) \/ BecomesNothing(t) \/ Throws(t)

Next ==
    \/ \E kind \in Kinds : Submit(kind) \/ Notify(kind)
    \/ IncomingPrompt \/ SubagentDrains \/ Render
    \/ \E t \in Turn : \/ Dispatched(t) \/ OpenDialog(t)
                       \/ QueryEnds(t) \/ TakeSnapshot(t) \/ RemoveConsumed(t)
    \/ Escape \/ Rewind \/ PopQueue \/ KillAgents 
    \/ RunImmediate \/ ImmediateLoaded \/ CloseImmediate

Spec == Init /\ [][Next]_vars

(***************************************************************************)
(* Fairness.  React renders what has changed, processUserInput and queries *)
(* end (the user answers a dialog, the model's stream and the tools end),  *)
(* attachments are built (they have a timeout), a panel is closed.         *)
(***************************************************************************)
Fairness ==
    /\ WF_vars(Render) /\ WF_vars(ImmediateLoaded) /\ WF_vars(CloseImmediate)
    /\ \A t \in 1 .. 2 * MaxCommands :
         /\ WF_vars(t \in Turn /\ Dispatched(t))
         /\ WF_vars(t \in Turn /\ QueryEnds(t))
         /\ WF_vars(t \in Turn /\ RemoveConsumed(t))

FairSpec == Spec /\ Fairness

-----------------------------------------------------------------------------
(***************************************************************************)
(* Properties.                                                             *)
(***************************************************************************)
CommandObject == [id : 1 .. MaxCommands, kind : Kind, copy : Nat]
TurnRecord ==
    [cmds : Seq(CommandObject), direct : BOOLEAN,
     stage : {"processing", "querying", "attaching", "over"}, gen : Nat,
     aborted : {"no", "user", "interrupt"}, dialog : BOOLEAN,
     snapshot : Seq(CommandObject)]

\* The type invariant.
TypeOK ==
    /\ status \in {"idle", "dispatching", "running"} /\ generation \in Nat
    /\ queue \in Seq(CommandObject) /\ turns \in Seq(TurnRecord)
    /\ controller \in Turn \cup {0} /\ shown \in Turn \cup {0}
    /\ panel \in Turn \cup {0, Immediate} /\ loading \in BOOLEAN
    /\ seenActive \in BOOLEAN /\ seenPanel \in BOOLEAN /\ seenCancel \in BOOLEAN
    /\ queueDirty \in BOOLEAN
    /\ issued \in 0 .. MaxCommands /\ cancels \in 0 .. MaxCancels
    /\ handled \in [1 .. MaxCommands -> Nat] /\ left \subseteq (1 .. MaxCommands) \X Reasons

\* The guard always has an owner that will give it back: a reservation is
\* held while some dispatch is processing, the guard runs exactly while one
\* query is of the current generation, and a query that was cancelled (whose
\* `finally' comes late) is never mistaken for the one that replaced it.
GuardOwned ==
    /\ status = "dispatching" => Processing # {}
    /\ status = "running" <=> Current # {}
    /\ \A t, u \in Current : t = u

\* No command disappears: it waits in the queue, is being processed, was
\* executed or put in the conversation, was taken back or cleared away by the
\* user, or was lost with the dispatch that threw.  A hidden prompt is skipped
\* by onQuery only after a cancellation: before it, none is ever refused.
NoCommandLost ==
    \A id \in 1 .. issued :
        \/ handled[id] > 0
        \/ id \in Ids(queue)
        \/ \E t \in Processing : id \in Ids(turns[t].cmds)
        \/ \E why \in {"taken", "cleared", "failed"} : <<id, why>> \in left
        \/ <<id, "skipped">> \in left /\ cancels > 0

Alive == {t \in Processing \cup Querying : turns[t].aborted = "no"}

\* "queryGuard guarantees no concurrent executeUserInput call": turns follow
\* one another, apart from a turn that was aborted and is still unwinding.
OneTurn == \A t, u \in Alive : t = u

\* "so users can always interrupt Claude": the session holds the controller
\* of every turn that is under way and not aborted yet.
Interruptible == Alive \subseteq {controller}

\* As long as nothing was cancelled, both hold in spite of exceptions, dialogs,
\* refused queries and renders that come late.
OneTurnUncancelled == cancels = 0 => OneTurn
InterruptibleUncancelled == cancels = 0 => Interruptible

\* No command is executed, or put in a conversation, twice: the mid-turn drain,
\* the queue processor and the re-enqueueing never take the same one, unless
\* a cancellation started a new turn in the middle of a drain.
HandledOnce == cancels = 0 => \A id \in 1 .. issued : handled[id] <= 1

\* The queue never stalls: a command for the main thread leaves it, even when
\* notifications stay in it for a subagent that is gone.
QueueDrains ==
    \A id \in 1 .. MaxCommands :
        (\E i \in MainIndices : queue[i].id = id) ~> (id \notin Ids(queue))

\* The session is never wedged: whatever was cancelled, thrown or answered
\* late, the guard becomes idle again.
GuardReleased == Active ~> ~Active
=============================================================================
