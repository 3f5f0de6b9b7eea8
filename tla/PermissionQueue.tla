---------------------------- MODULE PermissionQueue ----------------------------
(***************************************************************************)
(* The permission dialogs of an interactive session.  Tool calls of the    *)
(* main agent (useCanUseTool, interactiveHandler), of in-process teammates *)
(* (createInProcessCanUseTool) and of worker processes (swarmWorkerHandler *)
(* and useInboxPoller) wait in one queue for the user; for the main agent  *)
(* hooks, the bash classifier, the remote bridge, a channel and a recheck  *)
(* of the rules race the dialog.  createResolveOnce arbitrates.            *)
(*                                                                         *)
(* A step is what runs between two awaits.  The user acts on what was last *)
(* rendered (`shown'), which the queue may have left behind.               *)
(***************************************************************************)
EXTENDS Naturals, FiniteSets

CONSTANTS
    Mains,       \* requests of the main agent, all of one turn
    Teammates,   \* requests of in-process teammates, one each
    Workers,     \* requests of worker processes, one each
    NoRequest,   \* nothing on the screen
    Bridge,      \* is claude.ai connected?
    Channel,     \* is there a channel that relays permissions?
    MayCancel,   \* does the user press Esc outside a dialog?
    MaxTypings   \* BOUND: times the user starts to type

Requests == Mains \cup Teammates \cup Workers

ASSUME KindsAssumption ==
    /\ Mains \cap Teammates = {} /\ Mains \cap Workers = {} /\ Teammates \cap Workers = {}
    /\ NoRequest \notin Requests
ASSUME FlagsAssumption == {Bridge, Channel, MayCancel} \subseteq BOOLEAN
ASSUME TypingsAssumption == MaxTypings \in Nat

VARIABLES
    req,      \* request -> its record, see New
    queue,    \* toolUseConfirmQueue: request -> its place, 0 if it is not in it
    shown,    \* the dialog on the screen
    typing,   \* isPromptInputActive: dialogs wait until the user stops typing
    typings,
    turn,     \* the main turn: "running", "aborted" or "released" (its controller
              \* is no longer the REPL's, yet nobody aborted it)
    ruled,    \* have the permission rules or the mode changed?
    dropped   \* requests whose dialog left the queue undecided

vars == <<req, queue, shown, typing, typings, turn, ruled, dropped>>

(***************************************************************************)
(* stage      checking (rules, automated checks), opening, open, done      *)
(* claimed    createResolveOnce's flag, decisionMade                       *)
(* decision   what canUseTool resolved to                                  *)
(* allowing   between claim and resolve of onAllow                         *)
(* asking     claude.ai shows its own prompt                               *)
(* bridge, channel    an answer from there would be heard                  *)
(* told       what claude.ai was told about the local answer               *)
(* hook, classifier, recheck    run in the background, to some effect      *)
(* checkmark  the dialog stays to show that the classifier approved        *)
(* reply      the leader's answer on its way to a worker                   *)
(***************************************************************************)
New == [stage |-> "checking", claimed |-> FALSE, decision |-> "none", allowing |-> FALSE,
        asking |-> FALSE, bridge |-> FALSE, channel |-> FALSE, told |-> "none",
        hook |-> FALSE, classifier |-> FALSE, recheck |-> FALSE, checkmark |-> FALSE,
        reply |-> "none"]

Nobody == [r \in Requests |-> 0]

Init ==
    /\ req = [r \in Requests |->
                IF r \in Workers THEN [New EXCEPT !.stage = "opening"] ELSE New]
    /\ queue = Nobody /\ shown = NoRequest
    /\ typing = FALSE /\ typings = 0
    /\ turn = "running" /\ ruled = FALSE /\ dropped = {}

Open(r) == req[r].stage = "open"
Pending(r) == Open(r) /\ ~req[r].claimed

Queued(q) == {r \in Requests : q[r] # 0}
\* Those behind move up.
Without(q, r) == [x \in Requests |->
    IF x = r THEN 0 ELSE IF q[r] # 0 /\ q[x] > q[r] THEN q[x] - 1 ELSE q[x]]
\* The head of the queue.
First(r) == queue[r] # 0 /\ \A x \in Queued(queue) : queue[r] <= queue[x]
\* The end of the queue is the n-th place.
AtEnd(n) ==
    /\ \A x \in Requests : queue[x] < n
    /\ n = 1 \/ \E x \in Requests : queue[x] = n - 1
Enqueue(r) == \E n \in 1 .. Cardinality(Requests) : AtEnd(n) /\ queue' = [queue EXCEPT ![r] = n]

\* What each winner does: dismiss the prompt on claude.ai (whose answer is no
\* longer heard) and leave the channel.  The classifier and the recheck find the
\* request claimed and return, a hook still adds its rules.
Claimed(x) == [x EXCEPT !.claimed = TRUE, !.asking = FALSE, !.bridge = FALSE,
                        !.channel = FALSE, !.classifier = FALSE, !.recheck = FALSE]
Claim(rq, r) == [rq EXCEPT ![r] = Claimed(@)]

\* Mutant: the call is answered and the request stays open.
DecideOpen(rq, r, d) == [Claim(rq, r) EXCEPT ![r].decision = d]

\* (The leader opens a worker's dialog even for a call that is settled.)
Decided(r, x, d) == [Claimed(x) EXCEPT
    !.decision = d, !.stage = IF r \in Workers /\ @ = "opening" THEN @ ELSE "done"]
Decide(rq, r, d) == [rq EXCEPT ![r] = Decided(r, @, d)]
Tell(rq, r, d) == IF Bridge THEN [rq EXCEPT ![r].told = d] ELSE rq

(***************************************************************************)
(* The turn's controller aborts: every dialog of the turn stops to listen  *)
(* to the bridge and the channel, and a checkmark goes.                    *)
(***************************************************************************)
Deaf(rq) == [r \in Requests |->
    IF r \in Mains
    THEN [rq[r] EXCEPT !.bridge = FALSE, !.channel = FALSE, !.checkmark = FALSE]
    ELSE rq[r]]

Become(rq, q, abort) ==
    IF abort /\ turn # "aborted"
    THEN /\ req' = Deaf(rq) /\ turn' = "aborted"
         /\ queue' = [x \in Requests |-> IF rq[x].checkmark THEN 0 ELSE q[x]]
    ELSE req' = rq /\ queue' = q /\ UNCHANGED turn

NewRules == ruled' = TRUE

-----------------------------------------------------------------------------
(***************************************************************************)
(* A tool call asks.  The rules, a hook or the classifier that is awaited  *)
(* may settle it before a dialog is opened: a hook may add rules or        *)
(* interrupt the turn, and allows even if the turn was aborted; an         *)
(* exception aborts the turn.                                              *)
(***************************************************************************)
CheckPermission(r) ==
    /\ req[r].stage = "checking"
    /\ \/ /\ r \in Mains => turn # "aborted"
          /\ Become([req EXCEPT ![r].stage = "opening"], queue, FALSE) /\ UNCHANGED ruled
       \/ /\ Become(Decide(req, r, "allow"), queue, FALSE)
          /\ UNCHANGED ruled \/ (r \in Mains /\ NewRules)
       \/ \E abort \in IF r \in Mains THEN BOOLEAN ELSE {FALSE} :
            Become(Decide(req, r, "reject"), queue, abort) /\ UNCHANGED ruled
    /\ UNCHANGED <<shown, typing, typings, dropped>>

\* handleInteractivePermission.  Listeners added after the abort never fire;
\* hooks and classifier race unless they were awaited before.
OpenDialog(r) ==
    /\ req[r].stage = "opening" /\ r \notin Workers
    /\ Enqueue(r)
    /\ LET open == [req EXCEPT ![r].stage = "open"] IN
       IF r \in Teammates
       THEN req' = open
       ELSE \E races \in BOOLEAN :
              req' = [open EXCEPT ![r].asking = Bridge, ![r].bridge = Bridge,
                                  ![r].channel = Channel,
                                  ![r].hook = races, ![r].classifier = races]
    /\ UNCHANGED <<shown, typing, typings, turn, ruled, dropped>>

\* The leader reads a worker's request.  It skips the tools it does not know,
\* those of MCP servers among them.
OpenForWorker(r) ==
    /\ req[r].stage = "opening" /\ r \in Workers
    /\ req' = [req EXCEPT ![r].stage = IF req[r].claimed THEN "done" ELSE "open"]
    /\ \/ Enqueue(r) /\ UNCHANGED dropped
       \/ UNCHANGED queue /\ dropped' = dropped \cup {r}
    /\ UNCHANGED <<shown, typing, typings, turn, ruled>>

-----------------------------------------------------------------------------
(***************************************************************************)
(* The screen and the user.                                                *)
(***************************************************************************)
Visible == IF typing THEN {} ELSE {r \in Requests : First(r)}

Render ==
    /\ shown \notin Visible /\ (Visible = {} => shown # NoRequest)
    /\ shown' \in IF Visible = {} THEN {NoRequest} ELSE Visible
    /\ UNCHANGED <<req, queue, typing, typings, turn, ruled, dropped>>

Type ==
    /\ shown = NoRequest /\ ~typing /\ typings < MaxTypings
    /\ typing' = TRUE /\ typings' = typings + 1
    /\ UNCHANGED <<req, queue, shown, turn, ruled, dropped>>

StopTyping ==
    /\ typing /\ typing' = FALSE
    /\ UNCHANGED <<req, queue, shown, typings, turn, ruled, dropped>>

(***************************************************************************)
(* A key reaches the dialog on the screen, perhaps after the queue has     *)
(* moved on: all keys of one chunk of input run before the next render.    *)
(* The options of a dialog with a checkmark are disabled.                  *)
(***************************************************************************)
Keyed(r) == shown = r /\ ~req[r].checkmark

\* onDone takes the head of the queue, whatever that is by now.
Rest == [r \in Requests |-> IF First(r) THEN 0 ELSE queue[r]]

Answered(rq, r) == rq[r].claimed \/ rq[r].reply # "none"
Drop(rq, q) == dropped' = dropped \cup {r \in Queued(queue) \ Queued(q) : ~Answered(rq, r)}

\* Mutant: the answer is only claimed once the rules are saved.
OnAllowLate(r) == Tell(req, r, "allow")

\* onAllow claims before it awaits.
OnAllow(r) == Tell(Claim(req, r), r, "allow")

UserAllows(r) ==
    /\ r \in Mains /\ Keyed(r)
    /\ IF req[r].claimed
       THEN req' = req /\ UNCHANGED ruled
       ELSE req' = [OnAllow(r) EXCEPT ![r].allowing = TRUE] /\ (NewRules \/ UNCHANGED ruled)
    /\ queue' = Rest /\ Drop(req', Rest)
    /\ UNCHANGED <<shown, typing, typings, turn>>

AllowEnds(r) ==
    /\ req[r].allowing
    /\ req' = [(IF req[r].decision = "none" THEN Decide(req, r, "allow") ELSE req)
                 EXCEPT ![r].allowing = FALSE]
    /\ UNCHANGED <<queue, shown, typing, typings, turn, ruled, dropped>>

\* onReject; without feedback it aborts the turn.  Ctrl+C works under a checkmark.
UserRejects(r, feedback) ==
    /\ r \in Mains /\ shown = r
    /\ IF req[r].claimed
       THEN Become(req, Rest, FALSE)
       ELSE Become(Tell(Decide(req, r, "reject"), r, "deny"), Rest, ~feedback)
    /\ Drop(req', Rest)
    /\ UNCHANGED <<shown, typing, typings, ruled>>

\* onUserInteraction, after its grace period: the classifier may go on, but it
\* does not approve any more.
UserTouches(r) ==
    /\ r \in Mains /\ Keyed(r) /\ req[r].classifier
    /\ req' = [req EXCEPT ![r].classifier = FALSE]
    /\ UNCHANGED <<queue, shown, typing, typings, turn, ruled, dropped>>

\* The leader's answer is a message to a worker, of which the first counts.
Reply(r, d) == IF req[r].reply = "none" THEN [req EXCEPT ![r].reply = d] ELSE req

\* The user answers a teammate (in this process, rules included) or a worker
\* (by mailbox, rules included).
UserAnswersTeam(r, d) ==
    /\ r \in Teammates \cup Workers /\ Keyed(r)
    /\ \/ /\ req' = IF r \in Workers THEN Reply(r, d)
                    ELSE IF req[r].claimed THEN req ELSE Decide(req, r, d)
          /\ UNCHANGED ruled
       \/ /\ r \in Teammates /\ d = "allow" /\ ~req[r].claimed
          /\ req' = Decide(req, r, d) /\ NewRules
    /\ queue' = Rest /\ Drop(req', Rest)
    /\ UNCHANGED <<shown, typing, typings, turn>>

\* Mutant: the dialog stays in the queue.
CheckmarkStays(r) == req[r].checkmark /\ UNCHANGED vars

\* onDismissCheckmark or the timer (an abort is in Become).
CheckmarkGoes(r) ==
    /\ req[r].checkmark
    /\ req' = [req EXCEPT ![r].checkmark = FALSE]
    /\ queue' = Without(queue, r)
    /\ UNCHANGED <<shown, typing, typings, turn, ruled, dropped>>

(***************************************************************************)
(* handleCancel and onCancel of the REPL: the queue is emptied; the dialog *)
(* on the screen is told, or else the turn is aborted.  The REPL forgets   *)
(* the turn's controller either way.                                       *)
(***************************************************************************)
Cancel ==
    /\ MayCancel /\ turn = "running"
    /\ \/ shown = NoRequest /\ Become(req, Nobody, TRUE)
       \/ /\ shown \in Mains /\ ~req[shown].claimed
          /\ Become(Tell(Decide(req, shown, "reject"), shown, "deny"), Nobody, TRUE)
       \/ /\ shown \in Teammates \cup Workers \/ (shown \in Mains /\ req[shown].claimed)
          /\ req' = IF shown \in Workers THEN Reply(shown, "reject")
                    ELSE IF req[shown].claimed THEN req ELSE Decide(req, shown, "reject")
          /\ queue' = Nobody /\ turn' = "released"
    /\ Drop(req', Nobody)
    /\ UNCHANGED <<shown, typing, typings, ruled>>

-----------------------------------------------------------------------------
(***************************************************************************)
(* What races the dialog of a main request.                                *)
(***************************************************************************)
Settle(r, d, abort) == Become(Decide(req, r, d), Without(queue, r), abort)

\* The rules a hook adds, and its interrupt, take effect before it claims.
HookReturns(r) ==
    /\ req[r].hook
    /\ LET over == [req EXCEPT ![r].hook = FALSE]
           settled(d) == IF req[r].claimed THEN over ELSE Decide(over, r, d)
           rest == IF req[r].claimed THEN queue ELSE Without(queue, r) IN
       \/ Become(over, queue, FALSE) /\ UNCHANGED ruled
       \/ Become(settled("allow"), rest, FALSE) /\ (NewRules \/ UNCHANGED ruled)
       \/ \E interrupt \in BOOLEAN :
            Become(settled("reject"), rest, interrupt) /\ UNCHANGED ruled
    /\ UNCHANGED <<shown, typing, typings, dropped>>

ClassifierReturns(r) ==
    /\ req[r].classifier
    /\ LET over == [req EXCEPT ![r].classifier = FALSE] IN
       \/ req' = over
       \/ /\ ~req[r].claimed
          /\ req' = [Decide(over, r, "allow") EXCEPT ![r].checkmark = TRUE]
    /\ UNCHANGED <<queue, shown, typing, typings, turn, ruled, dropped>>

\* An answer that cannot be parsed uses up the handler too; one that crosses a
\* local answer changes nothing.
BridgeAnswers(r) ==
    /\ req[r].bridge /\ ~req[r].claimed
    /\ LET over == [req EXCEPT ![r].bridge = FALSE, ![r].asking = FALSE] IN
       \/ Become(over, queue, FALSE) /\ UNCHANGED ruled
       \/ /\ Become(Decide(over, r, "allow"), Without(queue, r), FALSE)
          /\ NewRules \/ UNCHANGED ruled
       \/ \E message \in BOOLEAN :
            /\ Become(Decide(over, r, "reject"), Without(queue, r), ~message)
            /\ UNCHANGED ruled
    /\ UNCHANGED <<shown, typing, typings, dropped>>

ChannelAnswers(r) ==
    /\ req[r].channel /\ ~req[r].claimed
    /\ \E d \in {"allow", "reject"} : Settle(r, d, FALSE)
    /\ UNCHANGED <<shown, typing, typings, ruled, dropped>>

\* claude.ai changes the permission mode.
ModeChanges ==
    /\ Bridge /\ ~ruled /\ NewRules
    /\ UNCHANGED <<req, queue, shown, typing, typings, turn, dropped>>

\* A change of the rules rechecks what is in the queue.
RecheckBegins(r) ==
    /\ r \in Mains \cup Teammates /\ ruled /\ Pending(r) /\ queue[r] # 0 /\ ~req[r].recheck
    /\ req' = [req EXCEPT ![r].recheck = TRUE]
    /\ UNCHANGED <<queue, shown, typing, typings, turn, ruled, dropped>>

\* Mutant: claude.ai is not told.
RecheckEndsQuietly(r) ==
    /\ req[r].recheck
    /\ LET over == [req EXCEPT ![r].recheck = FALSE] IN
       \/ req' = over /\ UNCHANGED queue
       \/ /\ ~req[r].claimed
          /\ req' = [Decide(over, r, "allow") EXCEPT ![r].asking = req[r].asking]
          /\ queue' = Without(queue, r)
    /\ UNCHANGED <<shown, typing, typings, turn, ruled, dropped>>

\* Whether the new rules allow this request is a choice.
RecheckEnds(r) ==
    /\ req[r].recheck
    /\ LET over == [req EXCEPT ![r].recheck = FALSE] IN
       \/ req' = over /\ UNCHANGED queue
       \/ /\ ~req[r].claimed
          /\ req' = Decide(over, r, "allow") /\ queue' = Without(queue, r)
    /\ UNCHANGED <<shown, typing, typings, turn, ruled, dropped>>

\* Any other abort of the turn: a sibling's error, an urgent command.
TurnAborts ==
    /\ turn # "aborted" /\ Become(req, queue, TRUE)
    /\ UNCHANGED <<shown, typing, typings, ruled, dropped>>

-----------------------------------------------------------------------------
(***************************************************************************)
(* Teammates and workers.                                                  *)
(***************************************************************************)
\* Mutant: the dialog of a teammate that was killed stays.
KillTeammateOnly(r) ==
    /\ r \in Teammates /\ req[r].stage \in {"checking", "opening", "open"}
    /\ req' = Decide(req, r, "reject")
    /\ UNCHANGED <<queue, shown, typing, typings, turn, ruled, dropped>>

KillTeammate(r) ==
    /\ r \in Teammates /\ req[r].stage \in {"checking", "opening", "open"}
    /\ req' = Decide(req, r, "reject") /\ queue' = Without(queue, r)
    /\ UNCHANGED <<shown, typing, typings, turn, ruled, dropped>>

\* The leader is not told that the worker no longer waits.
WorkerAborts(r) ==
    /\ r \in Workers /\ ~req[r].claimed
    /\ req' = Decide(req, r, "reject")
    /\ UNCHANGED <<queue, shown, typing, typings, turn, ruled, dropped>>

WorkerHears(r) ==
    /\ r \in Workers /\ Pending(r) /\ req[r].reply # "none"
    /\ req' = Decide(req, r, req[r].reply)
    /\ UNCHANGED <<queue, shown, typing, typings, turn, ruled, dropped>>

User(r) ==
    \/ UserAllows(r) \/ \E feedback \in BOOLEAN : UserRejects(r, feedback)
    \/ \E d \in {"allow", "reject"} : UserAnswersTeam(r, d)

\* (Nobody need press Ctrl+C under a checkmark.)
Answers(r) == ~req[r].checkmark /\ User(r)

\* What has begun: each of these happens once for a request.
Proceeds(r) ==
    \/ CheckPermission(r) \/ OpenDialog(r) \/ OpenForWorker(r)
    \/ AllowEnds(r) \/ CheckmarkGoes(r) \/ WorkerHears(r)

Racer(r) ==
    \/ HookReturns(r) \/ ClassifierReturns(r) \/ BridgeAnswers(r) \/ ChannelAnswers(r)
    \/ RecheckBegins(r) \/ RecheckEnds(r) \/ KillTeammate(r) \/ WorkerAborts(r)

Next ==
    \/ \E r \in Requests :
         Proceeds(r) \/ User(r) \/ UserTouches(r) \/ Racer(r)
    \/ Render \/ Type \/ StopTyping \/ Cancel \/ ModeChanges \/ TurnAborts

(***************************************************************************)
(* What has begun ends; React renders; the user stops typing at some point *)
(* and answers a dialog that stays on the screen.  Nothing is assumed of   *)
(* the hooks, the classifier, claude.ai, the channel or the rules.         *)
(***************************************************************************)
Fairness ==
    /\ WF_vars(Render) /\ WF_vars(StopTyping)
    /\ \A r \in Requests : WF_vars(Proceeds(r)) /\ WF_vars(Answers(r))

Spec == Init /\ [][Next]_vars
FairSpec == Spec /\ Fairness

-----------------------------------------------------------------------------
Request ==
    [stage : {"checking", "opening", "open", "done"}, claimed : BOOLEAN,
     decision : {"none", "allow", "reject"}, allowing : BOOLEAN, asking : BOOLEAN,
     bridge : BOOLEAN, channel : BOOLEAN, told : {"none", "allow", "deny"},
     hook : BOOLEAN, classifier : BOOLEAN, recheck : BOOLEAN, checkmark : BOOLEAN,
     reply : {"none", "allow", "reject"}]

(***************************************************************************)
(* Types; and a call is over exactly when it was told a decision (a worker *)
(* may be told before the leader opens its dialog).                        *)
(***************************************************************************)
TypeOK ==
    /\ req \in [Requests -> Request]
    /\ \A r \in Requests :
         /\ req[r].stage = "done" => req[r].decision # "none"
         /\ req[r].decision # "none" =>
              req[r].stage = "done" \/ (r \in Workers /\ req[r].stage = "opening")
    /\ queue \in [Requests -> Nat]
    /\ shown \in Requests \cup {NoRequest}
    /\ typing \in BOOLEAN /\ typings \in 0 .. MaxTypings
    /\ turn \in {"running", "aborted", "released"}
    /\ ruled \in BOOLEAN /\ dropped \subseteq Requests

(***************************************************************************)
(* What claude.ai was told of the user's answer agrees with what the tool  *)
(* call was told: an answer given while another one is being worked on     *)
(* counts for nothing (PermissionContext.ts:68, "Use this in async         *)
(* callbacks BEFORE awaiting").                                            *)
(***************************************************************************)
AnswerAgrees == \A r \in Requests :
    /\ req[r].told = "allow" => req[r].allowing \/ req[r].decision = "allow"
    /\ req[r].told = "deny" => req[r].decision = "reject"

(***************************************************************************)
(* A request of this process that is settled has no dialog left to block   *)
(* the ones behind it, except for the checkmark, whatever settled it.      *)
(***************************************************************************)
NoStaleDialog == \A r \in Queued(queue) \ Workers : req[r].claimed => req[r].checkmark

(***************************************************************************)
(* A request that is settled is no longer open elsewhere: claude.ai does   *)
(* not show a prompt for it and the channel has no entry that would eat a  *)
(* later "yes" (interactiveHandler.ts:79 and 218).                         *)
(***************************************************************************)
NoStalePrompt == \A r \in Mains :
    req[r].claimed => ~req[r].asking /\ ~req[r].channel

(***************************************************************************)
(* As long as nobody has answered a request, the user can: its callbacks   *)
(* "eventually call `resolve()`" (interactiveHandler.ts:53-54), "the local *)
(* dialog is always there as the floor" (315).                             *)
(***************************************************************************)
DialogIsFloor == \A r \in Requests : Pending(r) /\ req[r].reply = "none" => queue[r] # 0

(***************************************************************************)
(* Each tool call gets its answer when the user answers the dialogs he is  *)
(* shown: no checkmark, settled dialog, abort or lost race blocks the      *)
(* queue.  Only requests whose dialog was dropped may wait for ever.       *)
(***************************************************************************)
AllAnswered == \A r \in Requests :
    <>(req[r].decision # "none" \/ r \in dropped)
=============================================================================
