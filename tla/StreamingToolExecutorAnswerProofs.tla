------------------ MODULE StreamingToolExecutorAnswerProofs ------------------
(***************************************************************************)
(* Theorems about the answers of StreamingToolExecutor: that no wake-up is *)
(* lost, that a finished tool has one answer, that what a tool was         *)
(* answered stays as it is, and that a drained executor leaves nothing     *)
(* behind.                                                                 *)
(***************************************************************************)
EXTENDS StreamingToolExecutorProofs, FiniteSetTheorems

-----------------------------------------------------------------------------
(***************************************************************************)
(* What a tool has been told and has told.                                 *)
(***************************************************************************)
Finished == {<<a>> : a \in Answers} \cup {<<"ok", "note">>, <<"err", "note">>}

\* The tool waits and nothing was said.
Waits(t) == t.call = "none" /\ t.updates = <<>> /\ t.results = <<>> /\ ~t.errored

\* The call is under way, or its answer is unread, half read or read.
Calling(t) == t.call = "live" /\ t.updates = <<>> /\ t.results = <<>> /\ ~t.errored
Unread(t) == t.updates \in Outcomes /\ t.results = <<>> /\ ~t.errored
HalfRead(t) == /\ t.updates = <<"note">>
               /\ \/ t.results = <<"ok">> /\ ~t.errored
                  \/ t.results = <<"err">> /\ t.errored
WellRead(t) == t.updates = <<>> /\ t.results \in Outcomes
Answered(t) == t.call = "settled" /\ (Unread(t) \/ HalfRead(t) \/ WellRead(t))

Fits(t) ==
    /\ t.status = "queued" => Waits(t)
    /\ t.status = "executing" => Calling(t) \/ Answered(t)
    /\ t.status \in {"completed", "yielded"} => t.results \in Finished /\ t.updates = <<>>

AllFit == \A i \in Idx : Fits(tools[i])

\* The answer of the call is no error: it is the one a cancellation can race.
Welcome(t) == \/ t.results \in {<<"ok">>, <<"ok", "note">>}
              \/ t.updates \in {<<"ok">>, <<"ok", "note">>}

\* Tools whose answer is being read.
Settling == {i \in Executing : tools[i].call = "settled"}

(***************************************************************************)
(* While an answer that is no error is read, nothing cancels the tool: an  *)
(* answer comes in an event of its own, so no other one is being read; and *)
(* after an interrupt, which makes a tool that starts answer at once, no   *)
(* tool can start.                                                         *)
(***************************************************************************)
Undisturbed ==
    \A i \in Settling : Welcome(tools[i]) =>
        /\ tools[i].results # <<>> => AbortReason = "none"
        /\ AbortReason = "none" => Settling \subseteq {i}
        /\ AbortReason = "none" /\ aborted # "no" => Startable(1) = {}

LEMMA ShortAnswers ==
    /\ Head(<<"ok">>) = "ok" /\ Tail(<<"ok">>) = <<>>
    /\ Head(<<"err">>) = "err" /\ Tail(<<"err">>) = <<>>
    /\ Head(<<"note">>) = "note" /\ Tail(<<"note">>) = <<>>
    /\ Head(<<"ok", "note">>) = "ok" /\ Tail(<<"ok", "note">>) = <<"note">>
    /\ Head(<<"err", "note">>) = "err" /\ Tail(<<"err", "note">>) = <<"note">>
<1>1. \A a : Head(<<a>>) = a /\ Tail(<<a>>) = <<>>
  OBVIOUS
<1>2. \A a, b : Head(<<a, b>>) = a
  OBVIOUS
<1>3. \A a, b : Tail(<<a, b>>) = <<b>>
  OBVIOUS
<1> QED
  BY <1>1, <1>2, <1>3

LEMMA LongerAnswers ==
    /\ \A a : Append(<<>>, a) = <<a>>
    /\ Append(<<"ok">>, "note") = <<"ok", "note">>
    /\ Append(<<"err">>, "note") = <<"err", "note">>
<1>1. \A a : Append(<<>>, a) = <<a>>
  OBVIOUS
<1>2. <<"ok", "note">> = Append(<<"ok">>, "note") /\ <<"err", "note">> = Append(<<"err">>, "note")
  OBVIOUS
<1> QED
  BY <1>1, <1>2

LEMMA DistinctAnswers ==
    /\ <<"ok">> # <<>> /\ <<"err">> # <<>> /\ <<"note">> # <<>>
    /\ <<"ok", "note">> # <<>> /\ <<"err", "note">> # <<>>
    /\ <<"ok">> # <<"err">> /\ <<"ok">> # <<"note">> /\ <<"err">> # <<"note">>
    /\ <<"ok">> # <<"ok", "note">> /\ <<"ok">> # <<"err", "note">>
    /\ <<"err">> # <<"ok", "note">> /\ <<"err">> # <<"err", "note">>
    /\ <<"note">> # <<"ok", "note">> /\ <<"note">> # <<"err", "note">>
    /\ <<"ok", "note">> # <<"err", "note">>
OBVIOUS

\* An answer that is no error has not made the tool fail.
LEMMA WelcomeFacts ==
    ASSUME NEW t, Fits(t), t.status = "executing", t.updates # <<>>, Welcome(t)
    PROVE  ~t.errored /\ Head(t.updates) # "err"
<1>1. Unread(t) \/ HalfRead(t)
  BY DEF Fits, Calling, Answered, WellRead
<1>2. CASE Unread(t)
  <2>1. t.updates = <<"ok">> \/ t.updates = <<"ok", "note">>
    BY <1>2, DistinctAnswers DEF Unread, Welcome
  <2> QED
    BY <1>2, <2>1, ShortAnswers DEF Unread
<1>3. CASE HalfRead(t)
  BY <1>3, ShortAnswers, DistinctAnswers DEF HalfRead, Welcome
<1> QED
  BY <1>1, <1>2, <1>3

\* The tool that starts, by what has cancelled it.
LEMMA StartedFits ==
    ASSUME NEW t \in ToolRecord, Fits(t), t.status = "queued"
    PROVE  /\ Fits(Started(t)) /\ Started(t).kind = t.kind
           /\ AbortReason # "none" => Started(t).status = "completed"
           /\ AbortReason = "none" => Started(t).status = "executing"
           /\ Started(t).call = "settled" => AbortReason = "none" /\ aborted # "no"
           /\ ~Welcome(Started(t))
<1>1. CASE AbortReason # "none"
  <2>1. /\ Started(t).status = "completed" /\ Started(t).results = <<AbortReason>>
        /\ Started(t).call = "none" /\ Started(t).updates = <<>> /\ Started(t).kind = t.kind
    BY <1>1 DEF Started, ToolRecord, Fits, Waits
  <2>2. AbortReason \in Answers /\ AbortReason # "ok"
    BY <1>1, ReasonType DEF Answers, Synthetic
  <2>3. <<AbortReason>> \in Finished
    BY <2>2 DEF Finished
  <2>4. <<AbortReason>> # <<"ok">> /\ <<AbortReason>> # <<"ok", "note">>
    BY <2>2
  <2> QED
    BY <1>1, <2>1, <2>3, <2>4, DistinctAnswers DEF Fits, Welcome
<1>2. CASE AbortReason = "none" /\ SignalAborted
  <2>1. /\ Started(t).status = "executing" /\ Started(t).call = "settled"
        /\ Started(t).updates = <<"err">> /\ Started(t).results = <<>>
        /\ ~Started(t).errored /\ Started(t).kind = t.kind
    BY <1>2 DEF Started, ToolRecord, Fits, Waits
  <2>2. aborted # "no"
    BY <1>2 DEF SignalAborted, AbortReason
  <2> QED
    BY <1>2, <2>1, <2>2, DistinctAnswers DEF Fits, Answered, Unread, Outcomes, Welcome
<1>3. CASE AbortReason = "none" /\ ~SignalAborted
  <2>1. /\ Started(t).status = "executing" /\ Started(t).call = "live"
        /\ Started(t).updates = <<>> /\ Started(t).results = <<>>
        /\ ~Started(t).errored /\ Started(t).kind = t.kind
    BY <1>3 DEF Started, ToolRecord, Fits, Waits
  <2> QED
    BY <1>3, <2>1, DistinctAnswers DEF Fits, Calling, Welcome
<1> QED
  BY <1>1, <1>2, <1>3

\* A tool that was told nothing yet is answered for.
LEMMA CancelledFits ==
    ASSUME NEW t \in ToolRecord, t.results = <<>>, AbortReason # "none"
    PROVE  Fits([t EXCEPT !.status = "completed", !.updates = <<>>,
                          !.results = Append(@, AbortReason)])
<1>1. Append(<<>>, AbortReason) \in Finished
  BY ReasonType, LongerAnswers DEF Finished, Answers
<1> QED
  BY <1>1 DEF Fits, ToolRecord

\* The collector reads one message.
LEMMA ReadFits ==
    ASSUME NEW t \in ToolRecord, Fits(t), t.status = "executing", t.updates # <<>>,
           NEW r, r = [t EXCEPT !.updates = Tail(@), !.errored = @ \/ Head(t.updates) = "err",
                                !.results = Append(@, Head(t.updates))]
    PROVE  /\ Fits(r) /\ r.status = "executing" /\ r.call = "settled" /\ r.kind = t.kind
           /\ Welcome(r) <=> Welcome(t)
<1>1. /\ r.status = "executing" /\ r.call = t.call /\ r.kind = t.kind
      /\ r.updates = Tail(t.updates) /\ r.results = Append(t.results, Head(t.updates))
      /\ r.errored <=> (t.errored \/ Head(t.updates) = "err")
  BY DEF ToolRecord
<1>2. t.call = "settled" /\ (Unread(t) \/ HalfRead(t))
  BY DEF Fits, Calling, Answered, WellRead
<1>3. CASE Unread(t)
  <2>1. \/ r.results = <<"ok">> /\ ~r.errored /\ r.updates = <<>> /\ t.updates = <<"ok">>
        \/ r.results = <<"err">> /\ r.errored /\ r.updates = <<>> /\ t.updates = <<"err">>
        \/ r.results = <<"ok">> /\ ~r.errored /\ r.updates = <<"note">> /\ t.updates = <<"ok", "note">>
        \/ r.results = <<"err">> /\ r.errored /\ r.updates = <<"note">> /\ t.updates = <<"err", "note">>
    BY <1>1, <1>3, ShortAnswers, LongerAnswers DEF Unread, Outcomes
  <2> QED
    BY <1>1, <1>2, <1>3, <2>1, DistinctAnswers
       DEF Fits, Answered, Unread, HalfRead, WellRead, Outcomes, Welcome
<1>4. CASE HalfRead(t)
  <2>1. \/ r.results = <<"ok", "note">> /\ r.updates = <<>> /\ t.results = <<"ok">>
        \/ r.results = <<"err", "note">> /\ r.updates = <<>> /\ t.results = <<"err">>
    BY <1>1, <1>4, ShortAnswers, LongerAnswers DEF HalfRead
  <2> QED
    BY <1>1, <1>2, <1>4, <2>1, DistinctAnswers
       DEF Fits, Answered, HalfRead, WellRead, Outcomes, Welcome
<1> QED
  BY <1>2, <1>3, <1>4

-----------------------------------------------------------------------------
(***************************************************************************)
(* The invariant, and the kinds of step.                                   *)
(***************************************************************************)
AInv == QInv /\ AllFit /\ NoLostWakeup /\ Undisturbed

\* No microtask is pending: no answer is being read, and no tool may start.
LEMMA QuietFacts ==
    ASSUME AInv, Quiet
    PROVE  Settling = {} /\ Startable(1) = {} /\ loops = {} /\ kicks = {}
<1>1. Settling = {}
  BY DEF Quiet, Settling, Executing
<1>2. Startable(1) = {}
  BY DEF AInv, NoLostWakeup, Quiet
<1> QED
  BY <1>1, <1>2 DEF Quiet

\* Nothing is being read after the step.
LEMMA CalmAfter ==
    ASSUME Settling' = {}
    PROVE  Undisturbed'
BY DEF Undisturbed

\* Nothing is read in the step, and nothing cancels a tool.
LEMMA UndisturbedKept ==
    ASSUME Undisturbed, Settling' \subseteq Settling,
           AbortReason' = AbortReason, aborted' = aborted,
           \A i \in Settling' : tools'[i] = tools[i],
           AbortReason # "none" \/ aborted = "no" \/ Startable(1)' \subseteq Startable(1)
    PROVE  Undisturbed'
<1> SUFFICES ASSUME NEW i \in Settling', Welcome(tools'[i])
             PROVE  /\ tools'[i].results # <<>> => AbortReason' = "none"
                    /\ AbortReason' = "none" => Settling' \subseteq {i}
                    /\ AbortReason' = "none" /\ aborted' # "no" => Startable(1)' = {}
  BY DEF Undisturbed, Welcome
<1>1. i \in Settling /\ tools'[i] = tools[i] /\ Welcome(tools[i])
  OBVIOUS
<1>2. /\ tools[i].results # <<>> => AbortReason = "none"
      /\ AbortReason = "none" => Settling \subseteq {i}
      /\ AbortReason = "none" /\ aborted # "no" => Startable(1) = {}
  BY <1>1 DEF Undisturbed
<1> QED
  BY <1>1, <1>2

LEMMA SameReason ==
    ASSUME UNCHANGED control
    PROVE  AbortReason' = AbortReason /\ aborted' = aborted
BY DEF control, AbortReason

\* A tool moves without entering or leaving the queue or execution.
LEMMA SameQueue ==
    ASSUME TypeOK, NEW i \in Idx, NEW t \in ToolRecord, Update(i, t), t.kind = tools[i].kind,
           t.status = "queued" <=> tools[i].status = "queued",
           t.status = "executing" <=> tools[i].status = "executing"
    PROVE  /\ Executing' = Executing /\ Startable(1)' = Startable(1)
           /\ \A j \in Idx : j # i => tools'[j] = tools[j]
           /\ tools'[i] = t /\ Idx' = Idx
<1>1. Idx' = Idx /\ \A j \in Idx : tools'[j] = IF j = i THEN t ELSE tools[j]
  BY UpdateTools DEF TypeOK
<1>2. /\ Queued' = Queued /\ Executing' = Executing
      /\ \A j \in Idx : tools'[j].kind = tools[j].kind
  BY <1>1 DEF Queued, Executing
<1>3. \A j \in Idx : CanExecuteTool(tools[j].kind.safe)' <=> CanExecuteTool(tools[j].kind.safe)
  BY <1>2 DEF CanExecuteTool, Executing
<1>4. Startable(1)' = Startable(1)
  BY <1>2, <1>3 DEF Startable, Queued
<1> QED
  BY <1>1, <1>2, <1>4

\* The tools and whoever is about to process the queue stay as they are.
LEMMA IdleAnswers ==
    ASSUME AInv, QInv', UNCHANGED <<tools, loops, kicks>>,
           pc = "scanning" => pc' = "scanning",
           pc = "added" => pc' = "added" \/ ~tools[Len(tools)].kind.known,
           UNCHANGED control \/ Quiet
    PROVE  AInv'
<1>1. Idx' = Idx /\ Settling' = Settling /\ Executing' = Executing /\ Queued' = Queued
  BY DEF Idx, Settling, Executing, Queued
<1>2. Startable(1)' = Startable(1)
  BY <1>1 DEF Startable, CanExecuteTool
<1>3. AllFit'
  BY <1>1 DEF AInv, AllFit, Fits, Waits, Calling, Answered, Unread, HalfRead, WellRead
<1>4. NoLostWakeup'
  BY <1>2 DEF AInv, NoLostWakeup
<1>5. CASE Quiet
  BY <1>1, <1>3, <1>4, <1>5, QuietFacts, CalmAfter DEF AInv
<1>6. CASE UNCHANGED control
  BY <1>1, <1>2, <1>3, <1>4, <1>6, SameReason, UndisturbedKept DEF AInv
<1> QED
  BY <1>5, <1>6

\* One tool moves, and still fits.
LEMMA AllFitKept ==
    ASSUME AllFit, NEW i \in Idx, NEW t, Fits(t), Idx' = Idx, tools'[i] = t,
           \A j \in Idx : j # i => tools'[j] = tools[j]
    PROVE  AllFit'
BY DEF AllFit, Fits, Waits, Calling, Answered, Unread, HalfRead, WellRead

\* Draining: a progress message is taken, or a finished tool is yielded.
Drains(i, t) ==
    /\ t.kind = tools[i].kind /\ t.call = tools[i].call /\ t.updates = tools[i].updates
    /\ t.results = tools[i].results /\ t.errored = tools[i].errored
    /\ \/ t.status = tools[i].status /\ pc' = "progress"
       \/ tools[i].status = "completed" /\ t.status = "yielded" /\ pc' = "result" /\ k' = i

LEMMA CollectMoves ==
    ASSUME TypeOK, NEW from \in Nat, NEW at \in {"stream", "loop", "final"}, Collect(from, at)
    PROVE  \/ tools' = tools /\ EndCollect(at)
           \/ \E i \in Idx, t \in ToolRecord : Update(i, t) /\ Drains(i, t)
<1>1. CASE \E i \in Stops(from) :
             /\ tools[i].progress > 0
             /\ Update(i, [tools[i] EXCEPT !.progress = @ - 1])
             /\ pc' = "progress" /\ YieldAt(i, at)
  <2>1. PICK i \in Stops(from) :
             /\ tools[i].progress > 0
             /\ Update(i, [tools[i] EXCEPT !.progress = @ - 1])
             /\ pc' = "progress" /\ YieldAt(i, at)
    BY <1>1
  <2> DEFINE t == [tools[i] EXCEPT !.progress = @ - 1]
  <2>2. i \in Idx /\ tools[i] \in ToolRecord
    BY IdxRange DEF Stops, TypeOK
  <2>3. t \in ToolRecord /\ Drains(i, t)
    BY <2>1, <2>2 DEF ToolRecord, Drains
  <2> QED
    BY <2>1, <2>2, <2>3
<1>2. CASE \E i \in Stops(from) :
             /\ tools[i].status = "completed"
             /\ Update(i, [tools[i] EXCEPT !.status = "yielded"])
             /\ pc' = "result" /\ YieldAt(i, at)
  <2>1. PICK i \in Stops(from) :
             /\ tools[i].status = "completed"
             /\ Update(i, [tools[i] EXCEPT !.status = "yielded"])
             /\ pc' = "result" /\ YieldAt(i, at)
    BY <1>2
  <2> DEFINE t == [tools[i] EXCEPT !.status = "yielded"]
  <2>2. i \in Idx /\ tools[i] \in ToolRecord
    BY IdxRange DEF Stops, TypeOK
  <2>3. t \in ToolRecord /\ Drains(i, t)
    BY <2>1, <2>2 DEF ToolRecord, Drains, YieldAt
  <2> QED
    BY <2>1, <2>2, <2>3
<1>3. CASE EndCollect(at)
  BY <1>3 DEF EndCollect
<1> QED
  BY <1>1, <1>2, <1>3 DEF Collect

LEMMA CollectAnswers ==
    ASSUME AInv, QInv', NEW from \in Nat, NEW at \in {"stream", "loop", "final"},
           Collect(from, at), UNCHANGED <<control, loops, kicks>>,
           pc \notin {"scanning", "added"}
    PROVE  AInv'
<1>1. TypeOK /\ TypeOK'
  BY DEF AInv, QInv
<1>2. CASE tools' = tools
  BY <1>2, IdleAnswers
<1>3. CASE \E i \in Idx, t \in ToolRecord : Update(i, t) /\ Drains(i, t)
  <2>1. PICK i \in Idx, t \in ToolRecord : Update(i, t) /\ Drains(i, t)
    BY <1>3
  <2>2. /\ Executing' = Executing /\ Startable(1)' = Startable(1)
        /\ \A j \in Idx : j # i => tools'[j] = tools[j]
        /\ tools'[i] = t /\ Idx' = Idx
    BY <1>1, <2>1, SameQueue DEF Drains
  <2>3. Fits(t)
    BY <2>1 DEF AInv, AllFit, Drains, Fits, Waits, Calling, Answered, Unread, HalfRead, WellRead
  <2>4. AllFit'
    BY <2>2, <2>3, AllFitKept DEF AInv
  <2>5. NoLostWakeup'
    BY <2>2 DEF AInv, NoLostWakeup
  <2>6. Settling' = Settling
    BY <2>1, <2>2 DEF Settling, Executing, Drains
  <2>7. Undisturbed'
    <3> SUFFICES ASSUME NEW j \in Settling', Welcome(tools'[j])
                 PROVE  /\ tools'[j].results # <<>> => AbortReason' = "none"
                        /\ AbortReason' = "none" => Settling' \subseteq {j}
                        /\ AbortReason' = "none" /\ aborted' # "no" => Startable(1)' = {}
      BY DEF Undisturbed, Welcome
    <3>1. /\ j \in Settling /\ tools'[j].results = tools[j].results
          /\ tools'[j].updates = tools[j].updates
      BY <2>1, <2>2, <2>6 DEF Drains, Settling, Executing
    <3>2. Welcome(tools[j])
      BY <3>1 DEF Welcome
    <3> QED
      BY <2>2, <2>6, <3>1, <3>2, SameReason DEF AInv, Undisturbed
  <2> QED
    BY <2>4, <2>5, <2>7 DEF AInv
<1> QED
  BY <1>1, <1>2, <1>3, CollectMoves

\* A tool starts: its answer is never one that a cancellation could race.
LEMMA StartAnswers ==
    ASSUME AInv, NEW p \in Nat, NoneQueued(p - 1), NEW i \in Startable(p), NEW ks,
           ExecuteTool(i, ks), UNCHANGED control
    PROVE  AllFit' /\ Undisturbed' /\ Idx' = Idx
<1>1. /\ i \in Idx /\ tools[i] \in ToolRecord /\ tools[i].status = "queued"
      /\ TypeOK /\ Fits(tools[i])
  BY IdxRange DEF AInv, QInv, TypeOK, Startable, Queued, AllFit
<1>2. /\ Fits(Started(tools[i])) /\ Started(tools[i]) \in ToolRecord
      /\ AbortReason # "none" => Started(tools[i]).status = "completed"
      /\ AbortReason = "none" => Started(tools[i]).status = "executing"
      /\ Started(tools[i]).call = "settled" => AbortReason = "none" /\ aborted # "no"
      /\ ~Welcome(Started(tools[i]))
  BY <1>1, StartedFits, StartedType
<1>3. /\ Idx' = Idx
      /\ \A j \in Idx : tools'[j] = IF j = i THEN Started(tools[i]) ELSE tools[j]
  <2>1. Update(i, Started(tools[i])) /\ tools \in Seq(ToolRecord)
    BY <1>1 DEF ExecuteTool, TypeOK
  <2> QED
    BY <1>1, <1>2, <2>1, UpdateTools
<1>4. AllFit'
  BY <1>2, <1>3 DEF AInv, AllFit, Fits, Waits, Calling, Answered, Unread, HalfRead, WellRead
<1>5. i \in Startable(1)
  <2>1. \A j \in Queued : j >= 1 /\ j >= p
    BY IdxRange DEF AInv, QInv, TypeOK, NoneQueued, Queued
  <2> QED
    BY <2>1, IdxRange DEF Startable, AInv, QInv, TypeOK, Queued
<1>6. i \notin Settling
  BY <1>1 DEF Settling, Executing
<1>7. Undisturbed'
  <2> SUFFICES ASSUME NEW j \in Settling', Welcome(tools'[j])
               PROVE  /\ tools'[j].results # <<>> => AbortReason' = "none"
                      /\ AbortReason' = "none" => Settling' \subseteq {j}
                      /\ AbortReason' = "none" /\ aborted' # "no" => Startable(1)' = {}
    BY DEF Undisturbed, Welcome
  <2>1. j \in Idx /\ tools'[j].status = "executing" /\ tools'[j].call = "settled"
    BY <1>3 DEF Settling, Executing
  <2>2. j # i
    BY <1>2, <1>3, <2>1 DEF Welcome
  <2>3. j \in Settling /\ tools'[j] = tools[j] /\ Welcome(tools[j])
    BY <1>3, <2>1, <2>2 DEF Settling, Executing, Welcome
  <2>4. /\ tools[j].results # <<>> => AbortReason = "none"
        /\ AbortReason = "none" => Settling \subseteq {j}
        /\ AbortReason = "none" => aborted = "no"
    BY <1>5, <2>3 DEF AInv, Undisturbed
  <2>5. AbortReason = "none" => Settling' \subseteq Settling
    BY <1>2, <1>3, <2>4 DEF Settling, Executing
  <2> QED
    BY <2>3, <2>4, <2>5, SameReason
<1> QED
  BY <1>3, <1>4, <1>7

\* Nothing is queued before the position a processQueue has reached.
LEMMA NothingStarts ==
    ASSUME AInv, NEW p \in Nat, NoneQueued(p - 1), Startable(p) = {}
    PROVE  Startable(1) = {}
<1>1. \A j \in Queued : j \in Nat /\ j >= 1 /\ j >= p
  BY IdxRange DEF AInv, QInv, TypeOK, NoneQueued, Queued
<1> QED
  BY <1>1 DEF Startable

\* The tools stay, none may start, and nothing cancels a tool.
LEMMA IdleQueueAnswers ==
    ASSUME AInv, QInv', tools' = tools, Startable(1) = {}, UNCHANGED control
    PROVE  AInv'
<1>1. Idx' = Idx /\ Settling' = Settling /\ Executing' = Executing /\ Queued' = Queued
  BY DEF Idx, Settling, Executing, Queued
<1>2. Startable(1)' = Startable(1)
  BY <1>1 DEF Startable, CanExecuteTool
<1>3. AllFit'
  BY <1>1 DEF AInv, AllFit, Fits, Waits, Calling, Answered, Unread, HalfRead, WellRead
<1>4. NoLostWakeup'
  BY <1>2 DEF NoLostWakeup
<1>5. Undisturbed'
  BY <1>1, <1>2, SameReason, UndisturbedKept DEF AInv
<1> QED
  BY <1>3, <1>4, <1>5 DEF AInv

LEMMA ProcessQueueAnswers ==
    ASSUME AInv, QInv', NEW p \in Nat, NoneQueued(p - 1), NEW ls, NEW ks,
           ProcessQueue(ls, ks, p), UNCHANGED control
    PROVE  AInv'
<1>1. CASE \E i \in Startable(p) : ExecuteTool(i, ks) /\ loops' = ls \cup {i}
  <2>1. PICK i \in Startable(p) : ExecuteTool(i, ks) /\ loops' = ls \cup {i}
    BY <1>1
  <2>2. AllFit' /\ Undisturbed'
    BY <2>1, StartAnswers
  <2>3. NoLostWakeup'
    BY <2>1 DEF NoLostWakeup
  <2> QED
    BY <2>2, <2>3 DEF AInv
<1>2. CASE Startable(p) = {} /\ tools' = tools
  BY <1>2, NothingStarts, IdleQueueAnswers
<1> QED
  BY <1>1, <1>2 DEF ProcessQueue

LEMMA AwaitAnswers ==
    ASSUME AInv, QInv', NEW from \in Nat, NoneQueued(from - 1), AwaitProcessQueue(from)
    PROVE  AInv'
<1>1. CASE \E i \in Startable(from) : ExecuteTool(i, kicks) /\ pc' = "scanning"
  <2>1. PICK i \in Startable(from) : ExecuteTool(i, kicks) /\ pc' = "scanning"
    BY <1>1
  <2>2. AllFit' /\ Undisturbed'
    BY <2>1, StartAnswers DEF AwaitProcessQueue
  <2>3. NoLostWakeup'
    BY <2>1 DEF NoLostWakeup
  <2> QED
    BY <2>2, <2>3 DEF AInv
<1>2. CASE Startable(from) = {} /\ tools' = tools
  BY <1>2, NothingStarts, IdleQueueAnswers DEF AwaitProcessQueue
<1> QED
  BY <1>1, <1>2 DEF AwaitProcessQueue

\* A tool is received; an unknown one comes with its answer.
LEMMA AppendAnswers ==
    ASSUME AInv, QInv', AddTool, aborted = "no"
    PROVE  AInv'
<1> DEFINE kd == blocks[Len(blocks)]
<1>1. kd \in Kinds
  <2>1. Len(blocks) \in 1 .. Len(blocks)
    BY EmptySeq, LenProperties DEF AddTool, AInv, QInv, TypeOK, Offered
  <2> QED
    BY <2>1, ElementOfSeq DEF AInv, QInv, TypeOK
<1>2. tools' = Append(tools, Tracked(kd)) /\ pc' = "added"
  BY DEF AddTool
<1>3. /\ Len(tools) \in Nat /\ Len(tools') = Len(tools) + 1
      /\ Idx = 1 .. Len(tools) /\ Idx' = 1 .. Len(tools) + 1
      /\ \A j \in Idx : tools'[j] = tools[j]
      /\ tools'[Len(tools) + 1] = Tracked(kd)
  BY <1>1, <1>2, TrackedType, AppendTools, IdxRange DEF AInv, QInv, TypeOK
<1>4. UNCHANGED <<control, loops, kicks>> /\ pc = "offered"
  BY DEF AddTool
<1>5. /\ Tracked(kd).kind = kd /\ Tracked(kd).status # "executing" /\ Fits(Tracked(kd))
      /\ kd.known \/ Tracked(kd).status # "queued"
  <2>1. <<"err">> \in Finished
    BY DEF Finished, Answers
  <2> QED
    BY <2>1 DEF Tracked, Fits, Waits
<1> HIDE DEF kd
<1>6. AllFit'
  BY <1>3, <1>5 DEF AInv, AllFit, Fits, Waits, Calling, Answered, Unread, HalfRead, WellRead
<1>7. Executing' = Executing /\ Settling' = Settling
  BY <1>3, <1>5 DEF Settling, Executing
<1>8. NoLostWakeup'
  <2>1. CASE kd.known
    BY <1>2, <1>3, <1>5, <2>1 DEF NoLostWakeup
  <2>2. CASE ~kd.known
    <3>1. Queued' = Queued
      BY <1>3, <1>5, <2>2 DEF Queued
    <3>2. \A j \in Queued : CanExecuteTool(tools[j].kind.safe)' <=> CanExecuteTool(tools[j].kind.safe)
      BY <1>3, <1>7 DEF CanExecuteTool, Executing, Queued
    <3>3. Startable(1)' = Startable(1)
      BY <3>1, <3>2 DEF Startable
    <3> QED
      BY <1>4, <3>3 DEF AInv, NoLostWakeup
  <2> QED
    BY <2>1, <2>2
<1>9. Undisturbed'
  <2>1. \A i \in Settling' : tools'[i] = tools[i]
    BY <1>3, <1>7 DEF Settling, Executing
  <2> QED
    BY <1>4, <1>7, <2>1, SameReason, UndisturbedKept DEF AInv
<1> QED
  BY <1>6, <1>8, <1>9 DEF AInv

-----------------------------------------------------------------------------
(***************************************************************************)
(* The calls and their collectors.                                         *)
(***************************************************************************)
\* A call under way reports progress.
LEMMA ProgressAnswers ==
    ASSUME AInv, QInv', NEW i \in Idx, ToolProgress(i)
    PROVE  AInv'
<1>1. /\ tools[i] \in ToolRecord /\ Fits(tools[i]) /\ TypeOK
      /\ tools[i].status = "executing" /\ tools[i].call = "live"
  BY IdxRange DEF AInv, QInv, TypeOK, AllFit, ToolProgress
<1>2. Settling = {} /\ Startable(1) = {}
  BY QuietFacts DEF ToolProgress
<1>3. tools[i].updates = <<>> /\ tools[i].results = <<>> /\ Calling(tools[i])
  BY <1>1 DEF Fits, Answered, Calling
<1>4. CASE AbortReason = "none"
  <2> DEFINE t == [tools[i] EXCEPT !.progress = @ + 1]
  <2>1. Update(i, t) /\ t \in ToolRecord
    BY <1>1, <1>4 DEF ToolProgress, ToolRecord
  <2>2. /\ t.kind = tools[i].kind /\ t.status = "executing" /\ t.call = "live"
        /\ Fits(t)
    BY <1>1, <1>3 DEF ToolRecord, Fits, Calling
  <2> HIDE DEF t
  <2>3. /\ Executing' = Executing /\ Startable(1)' = Startable(1)
        /\ \A j \in Idx : j # i => tools'[j] = tools[j]
        /\ tools'[i] = t /\ Idx' = Idx
    BY <1>1, <2>1, <2>2, SameQueue
  <2>4. AllFit'
    BY <2>2, <2>3, AllFitKept DEF AInv
  <2>5. Settling' = {}
    BY <1>2, <2>2, <2>3 DEF Settling, Executing
  <2> QED
    BY <1>2, <2>3, <2>4, <2>5, CalmAfter DEF AInv, NoLostWakeup
<1>5. CASE AbortReason # "none"
  <2> DEFINE t == [tools[i] EXCEPT !.status = "completed", !.results = Append(@, AbortReason)]
  <2>1. Update(i, t) /\ i \in kicks'
    BY <1>5 DEF ToolProgress
  <2>2. t.status = "completed" /\ Fits(t) /\ t \in ToolRecord
    <3>1. Append(<<>>, AbortReason) \in Finished
      BY <1>5, ReasonType, LongerAnswers DEF Finished, Answers
    <3>2. Append(tools[i].results, AbortReason) \in Seq(Answers \cup {"note"})
      BY <1>1, <1>5, ReasonType, AppendProperties DEF ToolRecord, Answers
    <3> QED
      BY <1>1, <1>3, <3>1, <3>2 DEF ToolRecord, Fits
  <2> HIDE DEF t
  <2>3. Idx' = Idx /\ \A j \in Idx : tools'[j] = IF j = i THEN t ELSE tools[j]
    BY <1>1, <2>1, <2>2, UpdateTools DEF TypeOK
  <2>4. AllFit'
    BY <2>2, <2>3, AllFitKept DEF AInv
  <2>5. Settling' = {}
    BY <1>2, <2>2, <2>3 DEF Settling, Executing
  <2> QED
    BY <2>1, <2>4, <2>5, CalmAfter DEF AInv, NoLostWakeup
<1> QED
  BY <1>4, <1>5

\* A call under way ends with an answer that the collector, if it still
\* listens, has yet to read.
LEMMA SettleAnswers ==
    ASSUME AInv, QInv', Quiet, NEW i \in Idx, tools[i].call = "live", NEW u \in Outcomes,
           NEW t, t = [tools[i] EXCEPT !.call = "settled",
                         !.updates = IF tools[i].status = "executing" THEN u ELSE <<>>],
           Update(i, t)
    PROVE  AInv'
<1>1. tools[i] \in ToolRecord /\ Fits(tools[i]) /\ TypeOK
  BY IdxRange DEF AInv, QInv, TypeOK, AllFit
<1>2. Settling = {} /\ Startable(1) = {}
  BY QuietFacts
<1>3. /\ t.kind = tools[i].kind /\ t.status = tools[i].status /\ t.call = "settled"
      /\ t.results = tools[i].results /\ (t.errored <=> tools[i].errored)
      /\ t.status = "executing" => t.updates = u
      /\ t \in ToolRecord
  <2>1. u \in Seq({"ok", "err", "note"}) /\ <<>> \in Seq({"ok", "err", "note"})
    BY OutcomesType, EmptySeq
  <2> QED
    BY <1>1, <2>1 DEF ToolRecord
<1>4. /\ Executing' = Executing /\ Startable(1)' = Startable(1)
      /\ \A j \in Idx : j # i => tools'[j] = tools[j]
      /\ tools'[i] = t /\ Idx' = Idx
  BY <1>1, <1>3, SameQueue
<1>5. tools[i].status = "executing" => tools[i].results = <<>> /\ ~tools[i].errored
  BY <1>1 DEF Fits, Calling, Answered
<1>6. Fits(t)
  <2>1. tools[i].status # "queued"
    BY <1>1 DEF Fits, Waits
  <2>2. CASE tools[i].status = "executing"
    <3>1. Unread(t)
      BY <1>3, <1>5, <2>2 DEF Unread
    <3> QED
      BY <1>3, <2>2, <3>1 DEF Fits, Answered
  <2>3. CASE tools[i].status # "executing"
    BY <1>1, <1>3, <2>1, <2>3 DEF Fits
  <2> QED
    BY <2>2, <2>3
<1>7. AllFit'
  BY <1>4, <1>6, AllFitKept DEF AInv
<1>8. NoLostWakeup'
  BY <1>2, <1>4 DEF NoLostWakeup
<1>9. Settling' \subseteq {i}
  BY <1>2, <1>4 DEF Settling, Executing
<1>10. Undisturbed'
  <2>1. \A j \in Settling' : tools'[j].results = <<>>
    BY <1>3, <1>4, <1>5, <1>9 DEF Settling, Executing
  <2> QED
    BY <1>2, <1>4, <1>9, <2>1 DEF Undisturbed
<1> QED
  BY <1>7, <1>8, <1>10 DEF AInv

\* A tool stops executing: its promise.finally will process the queue.
LEMMA StopAnswers ==
    ASSUME AInv, QInv', NEW i \in Executing, NEW t \in ToolRecord, Update(i, t),
           Fits(t), t.status = "completed", i \in kicks', UNCHANGED control,
           tools[i].call = "settled"
    PROVE  AInv'
<1>1. Idx' = Idx /\ \A j \in Idx : tools'[j] = IF j = i THEN t ELSE tools[j]
  BY UpdateTools DEF AInv, QInv, TypeOK, Executing
<1>2. AllFit'
  BY <1>1 DEF AInv, AllFit, Fits, Waits, Calling, Answered, Unread, HalfRead, WellRead
<1>3. i \in Settling /\ i \notin Settling' /\ Settling' \subseteq Settling
      /\ \A j \in Settling' : tools'[j] = tools[j]
  BY <1>1 DEF Settling, Executing
<1>4. Undisturbed'
  <2> SUFFICES ASSUME NEW j \in Settling', Welcome(tools'[j])
               PROVE  /\ tools'[j].results # <<>> => AbortReason' = "none"
                      /\ AbortReason' = "none" => Settling' \subseteq {j}
                      /\ AbortReason' = "none" /\ aborted' # "no" => Startable(1)' = {}
    BY DEF Undisturbed, Welcome
  <2>1. j # i /\ j \in Settling /\ tools'[j] = tools[j] /\ Welcome(tools[j])
    BY <1>3
  <2>2. AbortReason # "none"
    BY <1>3, <2>1 DEF AInv, Undisturbed
  <2>3. tools[j].results = <<>>
    BY <2>1, <2>2 DEF AInv, Undisturbed
  <2> QED
    BY <2>1, <2>2, <2>3, SameReason
<1> QED
  BY <1>2, <1>4 DEF AInv, NoLostWakeup

\* The collector reads on, or answers for the tool that was cancelled.
LEMMA DeliverAnswers ==
    ASSUME AInv, QInv', NEW i \in Idx, Deliver(i)
    PROVE  AInv'
<1> DEFINE u == Head(tools[i].updates)
<1>1. /\ tools[i] \in ToolRecord /\ Fits(tools[i]) /\ TypeOK /\ i \in Executing
      /\ tools[i].status = "executing" /\ tools[i].updates # <<>>
  BY IdxRange DEF AInv, QInv, TypeOK, AllFit, Deliver, Executing
<1>2. tools[i].call = "settled" /\ (Unread(tools[i]) \/ HalfRead(tools[i]))
  BY <1>1 DEF Fits, Calling, Answered, WellRead
<1>3. i \in Settling
  BY <1>1, <1>2 DEF Settling
<1>4. CASE AbortReason # "none" /\ ~tools[i].errored
  <2> DEFINE t == [tools[i] EXCEPT !.status = "completed", !.updates = <<>>,
                                   !.results = Append(@, AbortReason)]
  <2>1. Update(i, t) /\ i \in kicks' /\ UNCHANGED control
    BY <1>4 DEF Deliver, control
  <2>2. tools[i].results = <<>>
    <3>1. CASE Unread(tools[i])
      BY <3>1 DEF Unread
    <3>2. CASE HalfRead(tools[i])
      <4>1. tools[i].results = <<"ok">>
        BY <1>4, <3>2 DEF HalfRead
      <4>2. Welcome(tools[i])
        BY <4>1 DEF Welcome
      <4> QED
        BY <1>3, <1>4, <4>2 DEF AInv, Undisturbed
    <3> QED
      BY <1>2, <3>1, <3>2
  <2>3. <<>> \in Seq({"ok", "err", "note"})
    BY EmptySeq
  <2>4. Fits(t)
    BY <1>1, <1>4, <2>2, <2>3, CancelledFits
  <2>5. t \in ToolRecord /\ t.status = "completed"
    <3>1. Append(tools[i].results, AbortReason) \in Seq(Answers \cup {"note"})
      BY <1>1, <1>4, ReasonType, AppendProperties DEF ToolRecord, Answers
    <3> QED
      BY <1>1, <2>3, <3>1 DEF ToolRecord
  <2> HIDE DEF t
  <2> QED
    BY <1>1, <1>2, <2>1, <2>4, <2>5, StopAnswers
<1>5. CASE ~(AbortReason # "none" /\ ~tools[i].errored)
  <2> DEFINE t == [tools[i] EXCEPT !.updates = Tail(@), !.errored = @ \/ u = "err",
                                   !.results = Append(@, u)]
  <2>1. /\ Update(i, t) /\ kicks' = kicks /\ loops' = loops /\ pc' = pc
        /\ hasErrored' <=> (hasErrored \/ (u = "err" /\ tools[i].kind.bash))
        /\ UNCHANGED <<discarded, aborted>> /\ ~InJob
    BY <1>5 DEF Deliver, Cascades, consumer
  <2>2. /\ Fits(t) /\ t.status = "executing" /\ t.call = "settled" /\ t.kind = tools[i].kind
        /\ Welcome(t) <=> Welcome(tools[i])
    BY <1>1, ReadFits
  <2>3. t \in ToolRecord
    <3>1. /\ Tail(tools[i].updates) \in Seq({"ok", "err", "note"})
          /\ Append(tools[i].results, u) \in Seq(Answers \cup {"note"})
      BY <1>1, UpdatesAreResults
    <3> QED
      BY <1>1, <3>1 DEF ToolRecord
  <2>4. Welcome(tools[i]) => ~tools[i].errored /\ u # "err"
    BY <1>1, WelcomeFacts
  <2> HIDE DEF t, u
  <2>5. /\ Executing' = Executing /\ Startable(1)' = Startable(1)
        /\ \A j \in Idx : j # i => tools'[j] = tools[j]
        /\ tools'[i] = t /\ Idx' = Idx
    BY <1>1, <2>1, <2>2, <2>3, SameQueue
  <2>6. AllFit'
    BY <2>2, <2>5, AllFitKept DEF AInv
  <2>7. NoLostWakeup'
    BY <2>1, <2>5 DEF AInv, NoLostWakeup, InJob
  <2>8. Settling' = Settling
    BY <1>1, <1>2, <2>2, <2>5 DEF Settling, Executing
  <2>9. Undisturbed'
    <3> SUFFICES ASSUME NEW j \in Settling', Welcome(tools'[j])
                 PROVE  /\ tools'[j].results # <<>> => AbortReason' = "none"
                        /\ AbortReason' = "none" => Settling' \subseteq {j}
                        /\ AbortReason' = "none" /\ aborted' # "no" => Startable(1)' = {}
      BY DEF Undisturbed, Welcome
    <3>1. AbortReason' = "none" => AbortReason = "none"
      BY <2>1 DEF AbortReason
    <3>2. CASE j = i
      <4>1. Welcome(tools[i])
        BY <2>2, <2>5, <3>2 DEF Welcome
      <4>2. AbortReason = "none" /\ AbortReason' = AbortReason
        BY <1>5, <2>1, <2>4, <4>1 DEF AbortReason
      <4> QED
        BY <1>3, <2>1, <2>5, <2>8, <3>2, <4>1, <4>2 DEF AInv, Undisturbed
    <3>3. CASE j # i
      <4>1. j \in Settling /\ tools'[j] = tools[j] /\ Welcome(tools[j])
        BY <2>5, <2>8, <3>3 DEF Settling, Executing, Welcome
      <4>2. AbortReason # "none"
        BY <1>3, <3>3, <4>1 DEF AInv, Undisturbed
      <4>3. tools[j].results = <<>>
        BY <4>1, <4>2 DEF AInv, Undisturbed
      <4> QED
        BY <3>1, <4>1, <4>2, <4>3
    <3> QED
      BY <3>2, <3>3
  <2> QED
    BY <2>6, <2>7, <2>9 DEF AInv
<1> QED
  BY <1>4, <1>5

\* The answer was read to its end.
LEMMA CompleteAnswers ==
    ASSUME AInv, QInv', NEW i \in Idx, Complete(i)
    PROVE  AInv'
<1> DEFINE t == [tools[i] EXCEPT !.status = "completed"]
<1>1. /\ tools[i] \in ToolRecord /\ Fits(tools[i]) /\ i \in Executing
      /\ tools[i].call = "settled" /\ tools[i].updates = <<>>
  BY IdxRange DEF AInv, QInv, TypeOK, AllFit, Complete, Executing
<1>2. Update(i, t) /\ i \in kicks' /\ UNCHANGED control
  BY DEF Complete
<1>3. WellRead(tools[i])
  BY <1>1, DistinctAnswers DEF Fits, Executing, Calling, Answered, Unread, HalfRead, Outcomes
<1>4. tools[i].results \in Finished
  BY <1>3 DEF WellRead, Outcomes, Finished, Answers
<1>5. t \in ToolRecord /\ t.status = "completed" /\ Fits(t)
  BY <1>1, <1>4 DEF ToolRecord, Fits
<1> HIDE DEF t
<1> QED
  BY <1>1, <1>2, <1>5, StopAnswers

-----------------------------------------------------------------------------
(***************************************************************************)
(* The invariant is inductive.                                             *)
(***************************************************************************)
LEMMA AnswersStep ==
    ASSUME AInv, Next
    PROVE  AInv'
<1>1. QInv' /\ TypeOK
  BY QueueStep DEF AInv, QInv
<1>2. CASE MessageArrives
  BY <1>1, <1>2, IdleAnswers DEF MessageArrives, control
<1>3. CASE AddTool
  <2>1. CASE aborted = "no"
    BY <1>1, <1>3, <2>1, AppendAnswers
  <2>2. CASE aborted # "no"
    BY <1>1, <1>3, <2>2, IdleAnswers DEF AddTool, control
  <2> QED
    BY <2>1, <2>2
<1>4. CASE AddToolStarts
  <2>1. CASE tools[Len(tools)].kind.known
    <3>1. NoneQueued(1 - 1)
      BY <1>1, IdxRange DEF NoneQueued, TypeOK
    <3> QED
      BY <1>1, <1>4, <2>1, <3>1, ProcessQueueAnswers DEF AddToolStarts
  <2>2. CASE ~tools[Len(tools)].kind.known
    BY <1>1, <1>4, <2>2, IdleAnswers DEF AddToolStarts, control
  <2> QED
    BY <2>1, <2>2
<1>5. CASE DrainStream
  BY <1>1, <1>5, CollectAnswers DEF DrainStream
<1>6. CASE OtherMessage
  BY <1>1, <1>6, CollectAnswers DEF OtherMessage
<1>7. CASE Pull
  <2>1. (IF pc = "result" THEN k + 1 ELSE k) \in Nat /\ site \in {"stream", "loop", "final"}
    BY <1>1 DEF TypeOK
  <2> QED
    BY <1>1, <1>7, <2>1, CollectAnswers DEF Pull
<1>8. CASE StreamEnds
  BY <1>1, <1>8, IdleAnswers DEF StreamEnds, control
<1>9. CASE Discard
  BY <1>1, <1>9, IdleAnswers DEF Discard, control
<1>10. CASE StreamThrows
  BY <1>1, <1>10, IdleAnswers DEF StreamThrows, control
<1>11. CASE LoopTop
  <2>1. CASE HasUnfinished
    <3>1. NoneQueued(1 - 1)
      BY <1>1, IdxRange DEF NoneQueued, TypeOK
    <3> QED
      BY <1>1, <1>11, <2>1, <3>1, AwaitAnswers DEF LoopTop
  <2>2. CASE ~HasUnfinished
    BY <1>1, <1>11, <2>2, CollectAnswers DEF LoopTop
  <2> QED
    BY <2>1, <2>2
<1>12. CASE Scan
  BY <1>1, <1>12, AwaitAnswers DEF Scan, AInv, QInv, TypeOK, PassedOver
<1>13. CASE DrainRemaining
  BY <1>1, <1>13, CollectAnswers DEF DrainRemaining
<1>14. CASE WakeUp
  BY <1>1, <1>14, IdleAnswers DEF WakeUp, control
<1>15. CASE Abort
  BY <1>1, <1>15, IdleAnswers DEF Abort, Quiet, consumer
<1>16. ASSUME NEW i \in Idx, Tool(i) PROVE AInv'
  <2>1. CASE ToolProgress(i)
    BY <1>1, <2>1, ProgressAnswers
  <2>2. CASE ToolReturns(i)
    <3>1. PICK u \in Outcomes :
            Update(i, [tools[i] EXCEPT !.call = "settled",
                         !.updates = IF tools[i].status = "executing" THEN u ELSE <<>>])
      BY <2>2 DEF ToolReturns
    <3>2. Quiet /\ tools[i].call = "live"
      BY <2>2 DEF ToolReturns
    <3> QED
      BY <1>1, <3>1, <3>2, SettleAnswers
  <2>3. CASE RejectPermission(i)
    <3>1. <<"err">> \in Outcomes
      BY DEF Outcomes
    <3> QED
      BY <1>1, <2>3, <3>1, SettleAnswers DEF RejectPermission
  <2>4. CASE Deliver(i)
    BY <1>1, <2>4, DeliverAnswers
  <2>5. CASE Complete(i)
    BY <1>1, <2>5, CompleteAnswers
  <2>6. CASE LoopResumes(i)
    <3>1. NoneQueued((i + 1) - 1) /\ i + 1 \in Nat
      BY <1>1, <2>6, IdxRange DEF LoopResumes, AInv, QInv, PassedOver, NoneQueued, TypeOK
    <3> QED
      BY <1>1, <2>6, <3>1, ProcessQueueAnswers DEF LoopResumes
  <2>7. CASE Kick(i)
    <3>1. NoneQueued(1 - 1)
      BY <1>1, IdxRange DEF NoneQueued, TypeOK
    <3> QED
      BY <1>1, <2>7, <3>1, ProcessQueueAnswers DEF Kick
  <2> QED
    BY <1>16, <2>1, <2>2, <2>3, <2>4, <2>5, <2>6, <2>7 DEF Tool
<1> QED
  BY <1>2, <1>3, <1>4, <1>5, <1>6, <1>7, <1>8, <1>9, <1>10, <1>11, <1>12, <1>13, <1>14,
     <1>15, <1>16 DEF Next, Consumer

LEMMA AnswersInit == Init => AInv
<1> SUFFICES ASSUME Init PROVE AInv
  OBVIOUS
<1>1. Idx = {}
  BY EmptySeq, LenProperties DEF Init, Idx
<1> QED
  BY <1>1, QueueInit
     DEF AInv, AllFit, NoLostWakeup, Startable, Queued, Undisturbed, Settling, Executing

LEMMA AnswersStutter == AInv /\ UNCHANGED vars => AInv'
<1> SUFFICES ASSUME AInv, UNCHANGED vars PROVE AInv'
  OBVIOUS
<1>1. QInv'
  BY QueueStutter DEF AInv
<1> QED
  BY <1>1, IdleAnswers DEF vars, control, AInv, NoLostWakeup

LEMMA AnswersInvariant == Spec => []AInv
<1>1. AInv /\ [Next]_vars => AInv'
  BY AnswersStep, AnswersStutter
<1> QED
  BY <1>1, AnswersInit, PTL DEF Spec

-----------------------------------------------------------------------------
(***************************************************************************)
(* What follows.                                                           *)
(***************************************************************************)
\* No wake-up is lost: whatever the interleaving of the loops of processQueue
\* (each suspended after the tool it started), of promise.finally and of the
\* query loop, a tool that may start has somebody about to start it.
THEOREM WakeupsKept == Spec => []NoLostWakeup
<1>1. AInv => NoLostWakeup
  BY DEF AInv
<1> QED
  BY <1>1, AnswersInvariant, PTL

LEMMA OneAnswerOf ==
    ASSUME NEW s \in Finished
    PROVE  {n \in DOMAIN s : s[n] \in Answers} = {1}
<1>1. CASE \E a \in Answers : s = <<a>>
  BY <1>1
<1>2. CASE s = <<"ok", "note">>
  <2>1. DOMAIN s = 1 .. 2 /\ s[1] = "ok" /\ s[2] = "note"
    BY <1>2
  <2> QED
    BY <2>1 DEF Answers, Synthetic
<1>3. CASE s = <<"err", "note">>
  <2>1. DOMAIN s = 1 .. 2 /\ s[1] = "err" /\ s[2] = "note"
    BY <1>3
  <2> QED
    BY <2>1 DEF Answers, Synthetic
<1> QED
  BY <1>1, <1>2, <1>3 DEF Finished

\* A finished tool has exactly one tool_result, however its own answer raced
\* what cancelled it: the answer of a call is never followed by a cancellation
\* message, nor is a cancelled tool's message followed by the late answer.
THEOREM AnsweredOnce == Spec => []OneAnswer
<1>1. ASSUME AInv PROVE OneAnswer
  <2> SUFFICES ASSUME NEW i \in Idx, tools[i].status \in {"completed", "yielded"}
               PROVE  Cardinality({n \in DOMAIN tools[i].results :
                                      tools[i].results[n] \in Answers}) = 1
    BY DEF OneAnswer
  <2>1. tools[i].results \in Finished
    BY <1>1 DEF AInv, AllFit, Fits
  <2>2. {n \in DOMAIN tools[i].results : tools[i].results[n] \in Answers} = {1}
    BY <2>1, OneAnswerOf
  <2> QED
    BY <2>2, FS_Singleton
<1> QED
  BY <1>1, AnswersInvariant, PTL

-----------------------------------------------------------------------------
(***************************************************************************)
(* What a tool was answered: the messages kept and those still unread.     *)
(***************************************************************************)
Kept(t, s) == t.results # <<>> => s.results \o s.updates = t.results \o t.updates

AnswersKept == \A i \in Idx : Kept(tools[i], tools'[i])

LEMMA ReadOn ==
    /\ <<"ok", "note">> \o <<>> = <<"ok">> \o <<"note">>
    /\ <<"err", "note">> \o <<>> = <<"err">> \o <<"note">>
<1>1. /\ <<"ok">> \in Seq(Answers \cup {"note"}) /\ <<"err">> \in Seq(Answers \cup {"note"})
      /\ <<"ok", "note">> \in Seq(Answers \cup {"note"})
      /\ <<"err", "note">> \in Seq(Answers \cup {"note"})
  BY DEF Answers
<1>2. <<"ok">> \o <<"note">> = <<"ok", "note">> /\ <<"err">> \o <<"note">> = <<"err", "note">>
  BY <1>1, AppendIsConcat, LongerAnswers
<1> QED
  BY <1>1, <1>2, ConcatEmptySeq

LEMMA SameToolsKeep ==
    ASSUME tools' = tools
    PROVE  AnswersKept
BY DEF AnswersKept, Kept

LEMMA MoveKeeps ==
    ASSUME TypeOK, NEW i \in Idx, NEW t, Update(i, t), Kept(tools[i], t)
    PROVE  AnswersKept
<1>1. \A j \in Idx : tools'[j] = IF j = i THEN t ELSE tools[j]
  BY DEF TypeOK, Update, Idx
<1> QED
  BY <1>1 DEF AnswersKept, Kept

\* A tool that starts was told nothing yet.
LEMMA StartKeeps ==
    ASSUME AInv, NEW p, NEW i \in Startable(p), NEW ks, ExecuteTool(i, ks)
    PROVE  AnswersKept
<1>1. i \in Idx /\ tools[i] \in ToolRecord /\ tools[i].results = <<>>
  BY IdxRange DEF AInv, QInv, TypeOK, Startable, Queued, AllFit, Fits, Waits
<1>2. Update(i, Started(tools[i])) /\ Started(tools[i]) \in ToolRecord
  BY <1>1, StartedType DEF ExecuteTool
<1> QED
  BY <1>1, <1>2, MoveKeeps DEF AInv, QInv, Kept

LEMMA CollectKeeps ==
    ASSUME TypeOK, NEW from \in Nat, NEW at \in {"stream", "loop", "final"}, Collect(from, at)
    PROVE  AnswersKept
<1>1. CASE tools' = tools
  BY <1>1, SameToolsKeep
<1>2. CASE \E i \in Idx, t \in ToolRecord : Update(i, t) /\ Drains(i, t)
  BY <1>2, MoveKeeps DEF Drains, Kept
<1> QED
  BY <1>1, <1>2, CollectMoves DEF EndCollect

\* The collector's turn.  A tool that has kept a message is half read: of an
\* answer that is no error nothing has cancelled the tool meanwhile, and an
\* error protects the rest of its own answer.
LEMMA DeliverKeeps ==
    ASSUME AInv, NEW i \in Idx, Deliver(i)
    PROVE  AnswersKept
<1>1. /\ tools[i] \in ToolRecord /\ Fits(tools[i]) /\ TypeOK
      /\ tools[i].status = "executing" /\ tools[i].updates # <<>>
  BY IdxRange DEF AInv, QInv, TypeOK, AllFit, Deliver
<1>2. PICK t : Update(i, t) /\ t = IF AbortReason # "none" /\ ~tools[i].errored
        THEN [tools[i] EXCEPT !.status = "completed", !.updates = <<>>,
                              !.results = Append(@, AbortReason)]
        ELSE [tools[i] EXCEPT !.updates = Tail(@),
                              !.errored = @ \/ Head(tools[i].updates) = "err",
                              !.results = Append(@, Head(tools[i].updates))]
  BY DEF Deliver
<1>3. Kept(tools[i], t)
  <2> SUFFICES ASSUME tools[i].results # <<>>
               PROVE  t.results \o t.updates = tools[i].results \o tools[i].updates
    BY DEF Kept
  <2>1. HalfRead(tools[i]) /\ tools[i].call = "settled"
    BY <1>1 DEF Fits, Calling, Answered, Unread, WellRead
  <2>2. AbortReason = "none" \/ tools[i].errored
    <3>1. i \in Settling
      BY <1>1, <2>1 DEF Settling, Executing
    <3> QED
      BY <2>1, <3>1 DEF HalfRead, Welcome, AInv, Undisturbed
  <2>3. t.updates = Tail(<<"note">>) /\ t.results = Append(tools[i].results, Head(<<"note">>))
    BY <1>1, <1>2, <2>1, <2>2 DEF HalfRead, ToolRecord
  <2>4. t.updates = <<>> /\ t.results = Append(tools[i].results, "note")
    BY <2>3, ShortAnswers
  <2> QED
    BY <2>1, <2>4, ReadOn, LongerAnswers DEF HalfRead
<1> QED
  BY <1>1, <1>2, <1>3, MoveKeeps

LEMMA ToolKeeps ==
    ASSUME AInv, NEW i \in Idx, Tool(i)
    PROVE  AnswersKept
<1>1. tools[i] \in ToolRecord /\ Fits(tools[i]) /\ TypeOK
  BY IdxRange DEF AInv, QInv, TypeOK, AllFit
<1>2. tools[i].call = "live" /\ tools[i].status = "executing" => tools[i].results = <<>>
  BY <1>1, DistinctAnswers DEF Fits, Calling, Answered
<1>3. CASE ToolProgress(i)
  <2>1. PICK t : /\ Update(i, t)
                 /\ \/ t = [tools[i] EXCEPT !.progress = @ + 1]
                    \/ t = [tools[i] EXCEPT !.status = "completed", !.results = Append(@, AbortReason)]
    BY <1>3 DEF ToolProgress
  <2>2. Kept(tools[i], t)
    BY <1>1, <1>2, <1>3, <2>1 DEF ToolProgress, Kept, ToolRecord
  <2> QED
    BY <1>1, <2>1, <2>2, MoveKeeps
<1>4. CASE ToolReturns(i) \/ RejectPermission(i)
  <2>1. PICK u \in Outcomes :
          Update(i, [tools[i] EXCEPT !.call = "settled",
                       !.updates = IF tools[i].status = "executing" THEN u ELSE <<>>])
    BY <1>4 DEF ToolReturns, RejectPermission, Outcomes
  <2> DEFINE t == [tools[i] EXCEPT !.call = "settled",
                     !.updates = IF tools[i].status = "executing" THEN u ELSE <<>>]
  <2>2. tools[i].call = "live"
    BY <1>4 DEF ToolReturns, RejectPermission
  <2>3. tools[i].status # "executing" /\ tools[i].results # <<>> => tools[i].updates = <<>>
    BY <1>1, <2>2 DEF Fits, Waits, ToolRecord
  <2>4. Kept(tools[i], t)
    BY <1>1, <1>2, <2>2, <2>3 DEF Kept, ToolRecord
  <2> HIDE DEF t
  <2> QED
    BY <1>1, <2>1, <2>4, MoveKeeps DEF t
<1>5. CASE Deliver(i)
  BY <1>5, DeliverKeeps
<1>6. CASE Complete(i)
  <2>1. Update(i, [tools[i] EXCEPT !.status = "completed"])
    BY <1>6 DEF Complete
  <2>2. Kept(tools[i], [tools[i] EXCEPT !.status = "completed"])
    BY <1>1 DEF Kept, ToolRecord
  <2> QED
    BY <1>1, <2>1, <2>2, MoveKeeps
<1>7. CASE LoopResumes(i) \/ Kick(i)
  BY <1>7, StartKeeps, SameToolsKeep DEF LoopResumes, Kick, ProcessQueue
<1> QED
  BY <1>3, <1>4, <1>5, <1>6, <1>7 DEF Tool

LEMMA AnswersKeptStep ==
    ASSUME AInv, Next
    PROVE  AnswersKept
<1>1. TypeOK
  BY DEF AInv, QInv
<1>2. CASE MessageArrives \/ StreamEnds \/ Discard \/ StreamThrows \/ WakeUp \/ Abort
  BY <1>2, SameToolsKeep DEF MessageArrives, StreamEnds, Discard, StreamThrows, WakeUp, Abort
<1>3. CASE AddTool
  <2>1. CASE aborted # "no"
    BY <1>3, <2>1, SameToolsKeep DEF AddTool
  <2>2. CASE aborted = "no"
    <3> DEFINE kd == blocks[Len(blocks)]
    <3>1. kd \in Kinds
      <4>1. Len(blocks) \in 1 .. Len(blocks)
        BY <1>3, EmptySeq, LenProperties DEF AddTool, AInv, QInv, TypeOK, Offered
      <4> QED
        BY <1>1, <4>1, ElementOfSeq DEF TypeOK
    <3>2. tools' = Append(tools, Tracked(kd))
      BY <1>3, <2>2 DEF AddTool
    <3>3. \A j \in Idx : tools'[j] = tools[j]
      BY <1>1, <3>1, <3>2, TrackedType, AppendTools DEF TypeOK
    <3> QED
      BY <3>3 DEF AnswersKept, Kept
  <2> QED
    BY <2>1, <2>2
<1>4. CASE AddToolStarts
  BY <1>4, StartKeeps, SameToolsKeep DEF AddToolStarts, ProcessQueue
<1>5. CASE DrainStream \/ OtherMessage \/ DrainRemaining
  BY <1>1, <1>5, CollectKeeps DEF DrainStream, OtherMessage, DrainRemaining
<1>6. CASE Pull
  <2>1. (IF pc = "result" THEN k + 1 ELSE k) \in Nat /\ site \in {"stream", "loop", "final"}
    BY <1>1 DEF TypeOK
  <2> QED
    BY <1>1, <1>6, <2>1, CollectKeeps DEF Pull
<1>7. ASSUME NEW from, AwaitProcessQueue(from) PROVE AnswersKept
  BY <1>7, StartKeeps, SameToolsKeep DEF AwaitProcessQueue
<1>8. CASE LoopTop
  BY <1>1, <1>7, <1>8, CollectKeeps DEF LoopTop
<1>9. CASE Scan
  BY <1>7, <1>9 DEF Scan
<1>10. CASE \E i \in Idx : Tool(i)
  BY <1>10, ToolKeeps
<1> QED
  BY <1>2, <1>3, <1>4, <1>5, <1>6, <1>8, <1>9, <1>10 DEF Next, Consumer

\* What a tool was answered is neither cut short nor added to: the rest of a
\* call's answer is kept although its own error has cancelled every sibling
\* (thisToolErrored), no cancellation comes between the messages of an answer
\* that is no error, and a cancelled tool's late answer is not heard.
THEOREM AnswersKeptWhole == Spec => AnswerWhole
<1>1. ASSUME AInv, [Next]_vars
      PROVE  [\A i \in Idx : tools[i].results # <<>> =>
                tools'[i].results \o tools'[i].updates = tools[i].results \o tools[i].updates]_vars
  <2>1. CASE Next
    BY <1>1, <2>1, AnswersKeptStep DEF AnswersKept, Kept
  <2>2. CASE UNCHANGED vars
    BY <2>2
  <2> QED
    BY <1>1, <2>1, <2>2
<1> QED
  BY <1>1, AnswersInvariant, PTL DEF Spec, AnswerWhole

-----------------------------------------------------------------------------
(***************************************************************************)
(* A drained executor.  The session's set of tools in progress and the     *)
(* place where the query loop is suspended account for every tool.         *)
(***************************************************************************)
InProgressAccounted ==
    \A i \in inProgress :
        tools[i].status \in {"executing", "completed"} \/ (pc = "result" /\ k = i)

AllYielded == \A i \in Idx : tools[i].status = "yielded"

EndInv ==
    /\ QInv
    /\ InProgressAccounted
    /\ site = "final" => pc \in {"progress", "done"} /\ AllYielded
    /\ pc = "done" => site = "final"

\* The tools stay, and the query loop moves on, if it does, before its end.
LEMMA IdleEnds ==
    ASSUME EndInv, QInv', UNCHANGED <<tools, inProgress, site>>,
           \/ pc' = pc /\ k' = k
           \/ pc \notin {"progress", "result", "done"} /\ pc' # "done"
    PROVE  EndInv'
<1>1. InProgressAccounted'
  BY DEF EndInv, InProgressAccounted
<1>2. AllYielded => AllYielded'
  BY DEF AllYielded, Idx
<1> QED
  BY <1>1, <1>2 DEF EndInv

\* A tool moves while the query loop stays where it is.
LEMMA MoveEnds ==
    ASSUME EndInv, QInv', NEW i \in Idx, NEW t \in ToolRecord, Update(i, t),
           \/ t.status = tools[i].status
           \/ tools[i].status = "executing" /\ t.status = "completed",
           UNCHANGED <<consumer, inProgress>>
    PROVE  EndInv'
<1>1. Idx' = Idx /\ \A j \in Idx : tools'[j] = IF j = i THEN t ELSE tools[j]
  BY UpdateTools DEF EndInv, QInv, TypeOK
<1>2. inProgress \subseteq Idx
  BY DEF EndInv, QInv, TypeOK
<1>3. InProgressAccounted'
  BY <1>1, <1>2 DEF EndInv, InProgressAccounted, consumer
<1>4. AllYielded => AllYielded'
  BY <1>1 DEF AllYielded
<1> QED
  BY <1>3, <1>4 DEF EndInv, consumer

\* A tool starts, so the query loop is not at its end.
LEMMA StartEnds ==
    ASSUME EndInv, QInv', NEW p, NEW i \in Startable(p), NEW ks, ExecuteTool(i, ks),
           site' = site,
           \/ pc' = pc /\ k' = k
           \/ pc \notin {"progress", "result", "done"} /\ pc' # "done"
    PROVE  EndInv'
<1>1. i \in Idx /\ tools[i] \in ToolRecord /\ tools[i].status = "queued"
  BY IdxRange DEF EndInv, QInv, TypeOK, Startable, Queued
<1>2. Update(i, Started(tools[i])) /\ Started(tools[i]) \in ToolRecord
  BY <1>1, StartedType DEF ExecuteTool
<1>3. Started(tools[i]).status \in {"executing", "completed"}
  BY <1>1 DEF Started, ToolRecord
<1>4. Idx' = Idx /\ \A j \in Idx : tools'[j] = IF j = i THEN Started(tools[i]) ELSE tools[j]
  BY <1>1, <1>2, UpdateTools DEF EndInv, QInv, TypeOK
<1>5. inProgress' = inProgress \cup {i} /\ inProgress \subseteq Idx
  BY DEF ExecuteTool, EndInv, QInv, TypeOK
<1>6. InProgressAccounted'
  <2> SUFFICES ASSUME NEW j \in inProgress'
               PROVE  \/ tools'[j].status \in {"executing", "completed"}
                      \/ pc' = "result" /\ k' = j
    BY DEF InProgressAccounted
  <2>2. CASE j = i
    BY <1>1, <1>3, <1>4, <2>2
  <2>3. CASE j # i
    BY <1>4, <1>5, <2>3 DEF EndInv, InProgressAccounted
  <2> QED
    BY <2>2, <2>3
<1>7. site # "final"
  BY <1>1 DEF EndInv, AllYielded
<1> QED
  BY <1>6, <1>7 DEF EndInv

LEMMA CollectEnds ==
    ASSUME EndInv, QInv', NEW from \in Nat, NEW at \in {"stream", "loop", "final"},
           Collect(from, at), at = "final" => AllYielded,
           inProgress' = (IF pc = "result" THEN inProgress \ {k} ELSE inProgress)
    PROVE  EndInv'
<1>1. /\ TypeOK /\ site' = at
      /\ \A j \in inProgress' : j \in Idx /\ tools[j].status \in {"executing", "completed"}
  BY CollectFacts DEF EndInv, QInv, TypeOK, InProgressAccounted
<1>2. CASE tools' = tools /\ EndCollect(at)
  <2>1. AllYielded => AllYielded'
    BY <1>2 DEF AllYielded, Idx
  <2>2. pc' = "done" <=> at = "final"
    BY <1>2 DEF EndCollect
  <2>3. InProgressAccounted'
    BY <1>1, <1>2 DEF InProgressAccounted
  <2> QED
    BY <1>1, <2>1, <2>2, <2>3 DEF EndInv
<1>3. CASE \E i \in Idx, t \in ToolRecord : Update(i, t) /\ Drains(i, t)
  <2>1. PICK i \in Idx, t \in ToolRecord : Update(i, t) /\ Drains(i, t)
    BY <1>3
  <2>2. Idx' = Idx /\ \A j \in Idx : tools'[j] = IF j = i THEN t ELSE tools[j]
    BY <1>1, <2>1, UpdateTools DEF TypeOK
  <2>3. CASE t.status = tools[i].status /\ pc' = "progress"
    <3>1. InProgressAccounted'
      BY <1>1, <2>2, <2>3 DEF InProgressAccounted
    <3>2. AllYielded => AllYielded'
      BY <2>2, <2>3 DEF AllYielded
    <3> QED
      BY <1>1, <2>3, <3>1, <3>2 DEF EndInv
  <2>4. CASE tools[i].status = "completed" /\ t.status = "yielded" /\ pc' = "result" /\ k' = i
    <3>1. InProgressAccounted'
      BY <1>1, <2>2, <2>4 DEF InProgressAccounted
    <3>2. at # "final"
      BY <2>4 DEF AllYielded
    <3> QED
      BY <1>1, <2>4, <3>1, <3>2 DEF EndInv
  <2> QED
    BY <2>1, <2>3, <2>4 DEF Drains
<1> QED
  BY <1>1, <1>2, <1>3, CollectMoves

LEMMA ToolEnds ==
    ASSUME EndInv, QInv', NEW i \in Idx, Tool(i)
    PROVE  EndInv'
<1>1. tools[i] \in ToolRecord /\ TypeOK
  BY IdxRange DEF EndInv, QInv, TypeOK
<1>2. ASSUME NEW t, Update(i, t),
             \/ t.status = tools[i].status
             \/ tools[i].status = "executing" /\ t.status = "completed",
             UNCHANGED <<consumer, inProgress>>
      PROVE  EndInv'
  <2>1. tools'[i] = t /\ i \in Idx' /\ tools' \in Seq(ToolRecord)
    BY <1>1, <1>2 DEF Update, EndInv, QInv, TypeOK, Idx
  <2>2. t \in ToolRecord
    BY <2>1, ElementOfSeq, LenProperties DEF Idx
  <2> QED
    BY <1>2, <2>2, MoveEnds
<1>3. CASE ToolProgress(i)
  <2>1. CASE AbortReason = "none"
    BY <1>1, <1>2, <1>3, <2>1 DEF ToolProgress, ToolRecord
  <2>2. CASE AbortReason # "none"
    BY <1>1, <1>2, <1>3, <2>2 DEF ToolProgress, ToolRecord
  <2> QED
    BY <2>1, <2>2
<1>4. CASE ToolReturns(i)
  <2>1. PICK u \in Outcomes :
          Update(i, [tools[i] EXCEPT !.call = "settled",
                       !.updates = IF tools[i].status = "executing" THEN u ELSE <<>>])
    BY <1>4 DEF ToolReturns
  <2> QED
    BY <1>1, <1>2, <1>4, <2>1 DEF ToolReturns, ToolRecord
<1>5. CASE RejectPermission(i)
  BY <1>1, <1>2, <1>5 DEF RejectPermission, ToolRecord
<1>6. CASE Deliver(i)
  <2>1. CASE AbortReason # "none" /\ ~tools[i].errored
    BY <1>1, <1>2, <1>6, <2>1 DEF Deliver, ToolRecord
  <2>2. CASE ~(AbortReason # "none" /\ ~tools[i].errored)
    BY <1>1, <1>2, <1>6, <2>2 DEF Deliver, ToolRecord
  <2> QED
    BY <2>1, <2>2
<1>7. CASE Complete(i)
  BY <1>1, <1>2, <1>7 DEF Complete, ToolRecord
<1>8. CASE LoopResumes(i) \/ Kick(i)
  BY <1>8, StartEnds, IdleEnds DEF LoopResumes, Kick, ProcessQueue, consumer
<1> QED
  BY <1>3, <1>4, <1>5, <1>6, <1>7, <1>8 DEF Tool

LEMMA EndStep ==
    ASSUME EndInv, Next
    PROVE  EndInv'
<1>1. QInv' /\ TypeOK
  BY QueueStep DEF EndInv, QInv
<1>2. CASE MessageArrives \/ StreamEnds \/ Discard \/ StreamThrows \/ WakeUp \/ Abort
  BY <1>1, <1>2, IdleEnds
     DEF MessageArrives, StreamEnds, Discard, StreamThrows, WakeUp, Abort, consumer
<1>3. CASE AddTool
  <2>1. CASE aborted # "no"
    BY <1>1, <1>3, <2>1, IdleEnds DEF AddTool
  <2>2. CASE aborted = "no"
    <3> DEFINE kd == blocks[Len(blocks)]
    <3>1. kd \in Kinds
      <4>1. Len(blocks) \in 1 .. Len(blocks)
        BY <1>3, EmptySeq, LenProperties DEF AddTool, EndInv, QInv, TypeOK, Offered
      <4> QED
        BY <1>1, <4>1, ElementOfSeq DEF TypeOK
    <3>2. /\ tools' = Append(tools, Tracked(kd)) /\ pc = "offered" /\ pc' = "added"
          /\ UNCHANGED <<site, inProgress>>
      BY <1>3, <2>2 DEF AddTool
    <3>3. Idx \subseteq Idx' /\ \A j \in Idx : tools'[j] = tools[j]
      BY <1>1, <3>1, <3>2, TrackedType, AppendTools DEF TypeOK
    <3>4. inProgress \subseteq Idx
      BY <1>1 DEF TypeOK
    <3>5. InProgressAccounted'
      BY <3>2, <3>3, <3>4 DEF EndInv, InProgressAccounted
    <3> QED
      BY <1>1, <3>2, <3>5 DEF EndInv
  <2> QED
    BY <2>1, <2>2
<1>4. CASE AddToolStarts
  BY <1>1, <1>4, StartEnds, IdleEnds DEF AddToolStarts, ProcessQueue
<1>5. CASE DrainStream
  BY <1>1, <1>5, CollectEnds DEF DrainStream
<1>6. CASE OtherMessage
  BY <1>1, <1>6, CollectEnds DEF OtherMessage
<1>7. CASE DrainRemaining
  BY <1>1, <1>7, CollectEnds DEF DrainRemaining
<1>8. CASE Pull
  <2>1. (IF pc = "result" THEN k + 1 ELSE k) \in Nat /\ site \in {"stream", "loop", "final"}
    BY <1>1 DEF TypeOK
  <2>2. site = "final" => AllYielded
    BY DEF EndInv
  <2> QED
    BY <1>1, <1>8, <2>1, <2>2, CollectEnds DEF Pull
<1>9. ASSUME NEW from, AwaitProcessQueue(from), pc \in {"top", "scanning"} PROVE EndInv'
  <2>1. CASE \E i \in Startable(from) : ExecuteTool(i, kicks) /\ pc' = "scanning"
    BY <1>1, <1>9, <2>1, StartEnds DEF AwaitProcessQueue
  <2>2. CASE pc' = "scanned" /\ UNCHANGED <<tools, inProgress>>
    BY <1>1, <1>9, <2>2, IdleEnds DEF AwaitProcessQueue
  <2> QED
    BY <1>9, <2>1, <2>2 DEF AwaitProcessQueue
<1>10. CASE LoopTop
  <2>1. CASE HasUnfinished
    BY <1>9, <1>10, <2>1 DEF LoopTop
  <2>2. CASE ~HasUnfinished
    BY <1>1, <1>10, <2>2, CollectEnds DEF LoopTop, HasUnfinished, AllYielded
  <2> QED
    BY <2>1, <2>2
<1>11. CASE Scan
  BY <1>9, <1>11 DEF Scan
<1>12. CASE \E i \in Idx : Tool(i)
  BY <1>1, <1>12, ToolEnds
<1> QED
  BY <1>2, <1>3, <1>4, <1>5, <1>6, <1>7, <1>8, <1>10, <1>11, <1>12 DEF Next, Consumer

\* A turn that drained its executor leaves nothing behind, in whatever order
\* its calls answered: each tool was yielded, none is in progress for the user.
THEOREM EndsClean == Spec => []CleanEnd
<1>1. Init => EndInv
  <2>1. Init => Idx = {}
    BY EmptySeq, LenProperties DEF Init, Idx
  <2> QED
    BY <2>1, QueueInit DEF Init, EndInv, InProgressAccounted
<1>2. EndInv /\ UNCHANGED vars => EndInv'
  BY QueueStutter, IdleEnds DEF vars, EndInv
<1>3. EndInv /\ [Next]_vars => EndInv'
  BY <1>2, EndStep
<1>4. EndInv => CleanEnd
  BY DEF EndInv, InProgressAccounted, AllYielded, CleanEnd, QInv, TypeOK
<1> QED
  BY <1>1, <1>3, <1>4, PTL DEF Spec
=============================================================================
