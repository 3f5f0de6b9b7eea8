--------------------- MODULE StreamingToolExecutorProofs ---------------------
(***************************************************************************)
(* Theorems about StreamingToolExecutor, for every set of kinds of block   *)
(* and every bound.                                                        *)
(***************************************************************************)
EXTENDS StreamingToolExecutor, SequenceTheorems, TLAPS

-----------------------------------------------------------------------------
(***************************************************************************)
(* The type invariant.  A block is on offer only if one was yielded.       *)
(***************************************************************************)
Offered == pc = "offered" => blocks # <<>>
TInv == TypeOK /\ Offered

LEMMA IdxRange ==
    ASSUME tools \in Seq(ToolRecord)
    PROVE  /\ Idx = 1 .. Len(tools) /\ Len(tools) \in Nat
           /\ \A i \in Idx : tools[i] \in ToolRecord
BY LenProperties, ElementOfSeq DEF Idx

LEMMA UpdateTools ==
    ASSUME tools \in Seq(ToolRecord), NEW i \in Idx, NEW t \in ToolRecord, Update(i, t)
    PROVE  /\ tools' \in Seq(ToolRecord) /\ Idx' = Idx
           /\ \A j \in Idx : tools'[j] = IF j = i THEN t ELSE tools[j]
<1>1. i \in 1 .. Len(tools)
  BY IdxRange
<1>2. /\ tools' \in Seq(ToolRecord) /\ Len(tools') = Len(tools)
      /\ \A j \in 1 .. Len(tools) : tools'[j] = IF j = i THEN t ELSE tools[j]
  BY <1>1, ExceptSeq DEF Update
<1>3. Idx' = 1 .. Len(tools')
  BY <1>2, LenProperties DEF Idx
<1> QED
  BY <1>2, <1>3, IdxRange

LEMMA AppendTools ==
    ASSUME tools \in Seq(ToolRecord), NEW t \in ToolRecord, tools' = Append(tools, t)
    PROVE  /\ tools' \in Seq(ToolRecord)
           /\ Len(tools') = Len(tools) + 1 /\ Idx' = 1 .. Len(tools) + 1
           /\ Idx \subseteq Idx'
           /\ \A j \in Idx : tools'[j] = tools[j]
           /\ tools'[Len(tools) + 1] = t
<1>1. /\ tools' \in Seq(ToolRecord) /\ Len(tools') = Len(tools) + 1
      /\ \A j \in 1 .. Len(tools) : tools'[j] = tools[j]
      /\ tools'[Len(tools) + 1] = t
  BY AppendProperties
<1>2. Idx' = 1 .. Len(tools')
  BY <1>1, LenProperties DEF Idx
<1> QED
  BY <1>1, <1>2, IdxRange

LEMMA ShortSeqs ==
    ASSUME NEW S, NEW x \in S
    PROVE  <<>> \in Seq(S) /\ <<x>> \in Seq(S)
BY EmptySeq

LEMMA TrackedType ==
    ASSUME NEW kd \in Kinds
    PROVE  Tracked(kd) \in ToolRecord
<1>1. kd \in Kind
  BY KindsAssumption
<1>2. <<>> \in Seq(Answers \cup {"note"}) /\ <<"err">> \in Seq(Answers \cup {"note"})
  BY ShortSeqs DEF Answers
<1>3. <<>> \in Seq({"ok", "err", "note"})
  BY ShortSeqs
<1> QED
  BY <1>1, <1>2, <1>3 DEF Tracked, ToolRecord

LEMMA ReasonType ==
    AbortReason \in Synthetic \cup {"none"}
BY DEF AbortReason, Synthetic

LEMMA StartedType ==
    ASSUME NEW t \in ToolRecord
    PROVE  Started(t) \in ToolRecord
<1>1. CASE AbortReason # "none"
  <2>1. <<AbortReason>> \in Seq(Answers \cup {"note"})
    BY <1>1, ReasonType, ShortSeqs DEF Answers
  <2> QED
    BY <1>1, <2>1 DEF Started, ToolRecord
<1>2. CASE AbortReason = "none" /\ SignalAborted
  <2>1. <<"err">> \in Seq({"ok", "err", "note"})
    BY ShortSeqs
  <2> QED
    BY <1>2, <2>1 DEF Started, ToolRecord
<1>3. CASE AbortReason = "none" /\ ~SignalAborted
  BY <1>3 DEF Started, ToolRecord
<1> QED
  BY <1>1, <1>2, <1>3

LEMMA OutcomesType ==
    Outcomes \subseteq Seq({"ok", "err", "note"})
<1> DEFINE M == {"ok", "err", "note"}
<1>1. <<"ok">> \in Seq(M) /\ <<"err">> \in Seq(M)
  BY ShortSeqs
<1>2. \A s \in Seq(M) : Append(s, "note") \in Seq(M)
  BY AppendProperties
<1>3. <<"ok", "note">> = Append(<<"ok">>, "note") /\ <<"err", "note">> = Append(<<"err">>, "note")
  OBVIOUS
<1> HIDE DEF M
<1>4. <<"ok", "note">> \in Seq(M) /\ <<"err", "note">> \in Seq(M)
  BY <1>1, <1>2, <1>3
<1> QED
  BY <1>1, <1>4 DEF Outcomes, M

\* The messages of an answer are results of a tool.
LEMMA UpdatesAreResults ==
    ASSUME NEW t \in ToolRecord, t.updates # <<>>
    PROVE  /\ Head(t.updates) \in {"ok", "err", "note"}
           /\ Tail(t.updates) \in Seq({"ok", "err", "note"})
           /\ Append(t.results, Head(t.updates)) \in Seq(Answers \cup {"note"})
<1>1. t.updates \in Seq({"ok", "err", "note"}) /\ t.results \in Seq(Answers \cup {"note"})
  BY DEF ToolRecord
<1>2. Head(t.updates) \in {"ok", "err", "note"} /\ Tail(t.updates) \in Seq({"ok", "err", "note"})
  BY <1>1, HeadTailProperties
<1>3. Head(t.updates) \in Answers \cup {"note"}
  BY <1>2 DEF Answers
<1> QED
  BY <1>1, <1>2, <1>3, AppendProperties

-----------------------------------------------------------------------------
(***************************************************************************)
(* What a step does to one tool.                                           *)
(***************************************************************************)
\* Tool i leaves the queue, being its first: its call begins only when
\* nothing has cancelled it and the calls under way allow it.
Starts(i, t) ==
    /\ i \in Queued /\ \A j \in Queued : i <= j
    /\ tools[i].call # "live" /\ t.status # "queued"
    /\ t.call = "live" =>
          t.status = "executing" /\ AbortReason = "none" /\ CanExecuteTool(tools[i].kind.safe)

\* Tool i stays in the queue or out of it, and no call of it begins; if its
\* call goes on after it stopped executing, something has cancelled it.
GoesOn(i, t) ==
    /\ t.status = "queued" <=> tools[i].status = "queued"
    /\ t.call = "live" => tools[i].call = "live"
    /\ t.call = "live" /\ t.status # "executing" =>
           tools[i].status # "executing" \/ AbortReason # "none"

Moves(i) == \E t \in ToolRecord :
    Update(i, t) /\ t.kind = tools[i].kind /\ (Starts(i, t) \/ GoesOn(i, t))

Appends == \E kd \in Kinds : tools' = Append(tools, Tracked(kd))

Stays == tools' = tools \/ \E i \in Idx : Moves(i)

\* No tool is queued at or before position p.
NoneQueued(p) == \A j \in Idx : j <= p => tools[j].status # "queued"

\* Suspended loops of processQueue leave nothing queued behind them.
PassedOver ==
    /\ \A l \in loops : NoneQueued(l)
    /\ pc = "scanning" => NoneQueued(k - 1)

\* A tool waiting in the queue has no call.
QueuedIsIdle == \A i \in Idx : tools[i].status = "queued" => tools[i].call # "live"

LEMMA StaysFacts ==
    ASSUME TypeOK, Stays
    PROVE  /\ tools' \in Seq(ToolRecord) /\ Idx' = Idx
           /\ Queued' \subseteq Queued
           /\ \A p : NoneQueued(p) => NoneQueued(p)'
<1>1. CASE tools' = tools
  BY <1>1 DEF TypeOK, Idx, Queued, NoneQueued
<1>2. CASE \E i \in Idx : Moves(i)
  <2>1. PICK i \in Idx, t \in ToolRecord :
          Update(i, t) /\ t.kind = tools[i].kind /\ (Starts(i, t) \/ GoesOn(i, t))
    BY <1>2 DEF Moves
  <2>2. /\ tools' \in Seq(ToolRecord) /\ Idx' = Idx
        /\ \A j \in Idx : tools'[j] = IF j = i THEN t ELSE tools[j]
    BY <2>1, UpdateTools DEF TypeOK
  <2>3. \A j \in Idx : tools'[j].status = "queued" => tools[j].status = "queued"
    BY <2>1, <2>2 DEF Starts, GoesOn
  <2> QED
    BY <2>2, <2>3 DEF Queued, NoneQueued
<1> QED
  BY <1>1, <1>2 DEF Stays

LEMMA ExecuteToolFacts ==
    ASSUME TypeOK, QueuedIsIdle, NEW p \in Nat, NoneQueued(p - 1), NEW i \in Startable(p),
           NEW ks, ExecuteTool(i, ks)
    PROVE  /\ i \in Idx /\ Moves(i)
           /\ NoneQueued(i)' /\ inProgress' = inProgress \cup {i}
           /\ kicks' \subseteq ks \cup {i}
<1>1. /\ i \in Idx /\ i \in Nat /\ tools[i] \in ToolRecord /\ i \in Queued
      /\ tools[i].status = "queued" /\ tools[i].call # "live"
      /\ \A j \in Queued : j >= p => i <= j
      /\ CanExecuteTool(tools[i].kind.safe)
  BY IdxRange DEF Startable, Queued, TypeOK, QueuedIsIdle
<1>2. \A j \in Queued : j \in Nat /\ j >= p
  BY IdxRange DEF Queued, NoneQueued, TypeOK
<1>3. Started(tools[i]) \in ToolRecord
  BY <1>1, StartedType
<1>4. /\ Started(tools[i]).kind = tools[i].kind
      /\ Starts(i, Started(tools[i]))
  BY <1>1, <1>2 DEF Started, Starts, ToolRecord
<1>5. Update(i, Started(tools[i]))
  BY DEF ExecuteTool
<1>6. Moves(i)
  BY <1>3, <1>4, <1>5 DEF Moves
<1>7. NoneQueued(i)'
  <2>1. /\ Idx' = Idx
        /\ \A j \in Idx : tools'[j] = IF j = i THEN Started(tools[i]) ELSE tools[j]
    BY <1>1, <1>3, <1>5, UpdateTools DEF TypeOK
  <2>2. \A j \in Idx : j <= i /\ j # i => j \notin Queued
    BY <1>1, <1>2, IdxRange DEF TypeOK
  <2> QED
    BY <2>1, <2>2, <1>4 DEF NoneQueued, Starts, Queued
<1> QED
  BY <1>1, <1>6, <1>7 DEF ExecuteTool

LEMMA ProcessQueueFacts ==
    ASSUME TypeOK, QueuedIsIdle, NEW p \in Nat, NoneQueued(p - 1),
           NEW ls \in SUBSET Idx, NEW ks \in SUBSET Idx,
           \A l \in ls : NoneQueued(l), ProcessQueue(ls, ks, p)
    PROVE  /\ Stays
           /\ loops' \in SUBSET Idx /\ kicks' \in SUBSET Idx /\ inProgress' \in SUBSET Idx
           /\ \A l \in loops' : NoneQueued(l)'
<1>1. CASE \E i \in Startable(p) : ExecuteTool(i, ks) /\ loops' = ls \cup {i}
  <2>1. PICK i \in Startable(p) : ExecuteTool(i, ks) /\ loops' = ls \cup {i}
    BY <1>1
  <2>2. /\ i \in Idx /\ Moves(i) /\ NoneQueued(i)'
        /\ inProgress' = inProgress \cup {i} /\ kicks' \subseteq ks \cup {i}
    BY <2>1, ExecuteToolFacts
  <2>3. Stays
    BY <2>2 DEF Stays
  <2>4. \A l \in ls : NoneQueued(l)'
    BY <2>3, StaysFacts
  <2> QED
    BY <2>1, <2>2, <2>3, <2>4 DEF TypeOK
<1>2. CASE loops' = ls /\ kicks' = ks /\ UNCHANGED <<tools, inProgress>>
  <2>1. Stays
    BY <1>2 DEF Stays
  <2>2. \A l \in ls : NoneQueued(l)'
    BY <2>1, StaysFacts
  <2> QED
    BY <1>2, <2>1, <2>2 DEF TypeOK
<1> QED
  BY <1>1, <1>2 DEF ProcessQueue

LEMMA CollectFacts ==
    ASSUME TypeOK, NEW from \in Nat, NEW at \in {"stream", "loop", "final"}, Collect(from, at)
    PROVE  /\ Stays
           /\ pc' \in {"streaming", "waiting", "top", "done", "progress", "result"}
           /\ site' = at /\ k' \in Nat /\ waitSet' \in SUBSET Idx
<1>1. CASE EndCollect(at)
  <2>1. Executing \in SUBSET Idx
    BY DEF Executing
  <2> QED
    BY <1>1, <2>1 DEF EndCollect, Stays
<1>2. CASE \E i \in Stops(from) :
             /\ tools[i].progress > 0
             /\ Update(i, [tools[i] EXCEPT !.progress = @ - 1])
             /\ pc' = "progress" /\ YieldAt(i, at)
  <2>1. PICK i \in Stops(from) :
             /\ tools[i].progress > 0
             /\ Update(i, [tools[i] EXCEPT !.progress = @ - 1])
             /\ pc' = "progress" /\ YieldAt(i, at)
    BY <1>2
  <2> DEFINE t == [tools[i] EXCEPT !.progress = @ - 1]
  <2>2. i \in Idx /\ i \in Nat /\ tools[i] \in ToolRecord
    BY IdxRange DEF Stops, TypeOK
  <2>3. t \in ToolRecord /\ t.kind = tools[i].kind /\ GoesOn(i, t)
    BY <2>1, <2>2 DEF ToolRecord, GoesOn
  <2>4. Moves(i)
    BY <2>1, <2>3 DEF Moves
  <2> QED
    BY <2>1, <2>2, <2>4 DEF Stays, YieldAt
<1>3. CASE \E i \in Stops(from) :
             /\ tools[i].status = "completed"
             /\ Update(i, [tools[i] EXCEPT !.status = "yielded"])
             /\ pc' = "result" /\ YieldAt(i, at)
  <2>1. PICK i \in Stops(from) :
             /\ tools[i].status = "completed"
             /\ Update(i, [tools[i] EXCEPT !.status = "yielded"])
             /\ pc' = "result" /\ YieldAt(i, at)
    BY <1>3
  <2> DEFINE t == [tools[i] EXCEPT !.status = "yielded"]
  <2>2. i \in Idx /\ i \in Nat /\ tools[i] \in ToolRecord
    BY IdxRange DEF Stops, TypeOK
  <2>3. t \in ToolRecord /\ t.kind = tools[i].kind /\ GoesOn(i, t)
    BY <2>1, <2>2 DEF ToolRecord, GoesOn
  <2>4. Moves(i)
    BY <2>1, <2>3 DEF Moves
  <2> QED
    BY <2>1, <2>2, <2>4 DEF Stays, YieldAt
<1> QED
  BY <1>1, <1>2, <1>3 DEF Collect

-----------------------------------------------------------------------------
(***************************************************************************)
(* The queue invariant is inductive.                                       *)
(***************************************************************************)
QInv == TypeOK /\ Offered /\ QueuedIsIdle /\ PassedOver

\* What is left to show of a step that appends no tool.
LEMMA StaysKeepsQueue ==
    ASSUME TypeOK, QueuedIsIdle, Stays
    PROVE  QueuedIsIdle'
<1>1. CASE tools' = tools
  BY <1>1 DEF QueuedIsIdle, Idx
<1>2. CASE \E i \in Idx : Moves(i)
  <2>1. PICK i \in Idx, t \in ToolRecord :
          Update(i, t) /\ t.kind = tools[i].kind /\ (Starts(i, t) \/ GoesOn(i, t))
    BY <1>2 DEF Moves
  <2>2. /\ Idx' = Idx
        /\ \A j \in Idx : tools'[j] = IF j = i THEN t ELSE tools[j]
    BY <2>1, UpdateTools DEF TypeOK
  <2> QED
    BY <2>1, <2>2 DEF QueuedIsIdle, Starts, GoesOn
<1> QED
  BY <1>1, <1>2 DEF Stays

\* A step of the query loop that drains results.
LEMMA CollectKeepsQueue ==
    ASSUME QInv, NEW from \in Nat, NEW at \in {"stream", "loop", "final"}, Collect(from, at),
           UNCHANGED <<control, blocks, loops, kicks>>, inProgress' \in SUBSET Idx
    PROVE  QInv' /\ Stays
<1>1. /\ Stays
      /\ pc' \in {"streaming", "waiting", "top", "done", "progress", "result"}
      /\ site' = at /\ k' \in Nat /\ waitSet' \in SUBSET Idx
  BY CollectFacts DEF QInv
<1>2. /\ tools' \in Seq(ToolRecord) /\ Idx' = Idx
      /\ \A p : NoneQueued(p) => NoneQueued(p)'
  BY <1>1, StaysFacts DEF QInv
<1>3. QueuedIsIdle'
  BY <1>1, StaysKeepsQueue DEF QInv
<1>4. TypeOK'
  BY <1>1, <1>2 DEF QInv, TypeOK, control
<1> QED
  BY <1>1, <1>2, <1>3, <1>4 DEF QInv, Offered, PassedOver

\* A step of a processQueue that nobody awaits.
LEMMA ProcessQueueKeepsQueue ==
    ASSUME QInv, NEW p \in Nat, NoneQueued(p - 1), NEW ls \in SUBSET loops,
           NEW ks \in SUBSET kicks, ProcessQueue(ls, ks, p),
           UNCHANGED <<control, blocks, k, waitSet, site>>,
           pc' = pc \/ pc' = "drain"
    PROVE  QInv' /\ Stays
<1>1. /\ Stays
      /\ loops' \in SUBSET Idx /\ kicks' \in SUBSET Idx /\ inProgress' \in SUBSET Idx
      /\ \A l \in loops' : NoneQueued(l)'
  BY ProcessQueueFacts DEF QInv, PassedOver, TypeOK
<1>2. /\ tools' \in Seq(ToolRecord) /\ Idx' = Idx
      /\ NoneQueued(k - 1) => NoneQueued(k - 1)'
  BY <1>1, StaysFacts DEF QInv
<1>3. QueuedIsIdle'
  BY <1>1, StaysKeepsQueue DEF QInv
<1>4. TypeOK'
  BY <1>1, <1>2 DEF QInv, TypeOK, control
<1>5. PassedOver'
  BY <1>1, <1>2 DEF QInv, PassedOver, NoneQueued
<1> QED
  BY <1>1, <1>3, <1>4, <1>5 DEF QInv, Offered

\* A step of a call or of its collector.
LEMMA MoveKeepsQueue ==
    ASSUME QInv, NEW i \in Idx, NEW t \in ToolRecord, Update(i, t),
           t.kind = tools[i].kind, GoesOn(i, t),
           UNCHANGED <<discarded, blocks, consumer, loops, inProgress>>,
           kicks' \in SUBSET Idx, hasErrored' \in BOOLEAN,
           aborted' \in {"no", "user", "interrupt"}
    PROVE  QInv' /\ Stays
<1>1. Stays
  BY DEF Stays, Moves
<1>2. /\ tools' \in Seq(ToolRecord) /\ Idx' = Idx
      /\ \A p : NoneQueued(p) => NoneQueued(p)'
  BY <1>1, StaysFacts DEF QInv
<1>3. QueuedIsIdle'
  BY <1>1, StaysKeepsQueue DEF QInv
<1>4. TypeOK'
  BY <1>1, <1>2 DEF QInv, TypeOK, consumer
<1> QED
  BY <1>1, <1>2, <1>3, <1>4 DEF QInv, Offered, PassedOver, consumer

\* A step that leaves the tools alone.
LEMMA IdleKeepsQueue ==
    ASSUME QInv, UNCHANGED <<tools, loops, kicks, inProgress, site, k>>,
           waitSet' \in SUBSET Idx, blocks' \in Seq(Kinds), Offered',
           pc' = "scanning" => pc = "scanning",
           hasErrored' \in BOOLEAN, discarded' \in BOOLEAN,
           aborted' \in {"no", "user", "interrupt"},
           pc' \in {"streaming", "offered", "added", "drain", "progress", "result", "top",
                    "scanning", "scanned", "waiting", "done", "gone"}
    PROVE  QInv' /\ Stays
<1>1. Stays
  BY DEF Stays
<1>2. Idx' = Idx /\ (\A p : NoneQueued(p) => NoneQueued(p)')
  BY <1>1, StaysFacts DEF QInv
<1>3. QueuedIsIdle'
  BY <1>1, StaysKeepsQueue DEF QInv
<1>4. TypeOK'
  BY <1>2 DEF QInv, TypeOK
<1> QED
  BY <1>1, <1>2, <1>3, <1>4 DEF QInv, PassedOver

LEMMA QueueStep ==
    ASSUME QInv, Next
    PROVE  QInv' /\ (Stays \/ Appends)
<1> USE DEF control, consumer
<1>1. CASE MessageArrives
  <2>1. blocks' \in Seq(Kinds) /\ blocks' # <<>>
    BY <1>1, AppendProperties DEF MessageArrives, QInv, TypeOK
  <2> QED
    BY <1>1, <2>1, IdleKeepsQueue DEF MessageArrives, QInv, TypeOK, Offered, Idx
<1>2. CASE AddTool
  <2>1. CASE aborted # "no"
    BY <1>2, <2>1, IdleKeepsQueue DEF AddTool, QInv, TypeOK, Offered, Idx
  <2>2. CASE aborted = "no"
    <3> DEFINE kd == blocks[Len(blocks)]
    <3>1. kd \in Kinds
      <4>1. Len(blocks) \in 1 .. Len(blocks)
        BY <1>2, EmptySeq, LenProperties DEF AddTool, QInv, TypeOK, Offered
      <4> QED
        BY <4>1, ElementOfSeq DEF QInv, TypeOK
    <3>2. tools' = Append(tools, Tracked(kd)) /\ pc' = "added"
      BY <1>2, <2>2 DEF AddTool
    <3>3. /\ tools' \in Seq(ToolRecord)
          /\ Idx' = 1 .. Len(tools) + 1 /\ Idx \subseteq Idx'
          /\ \A j \in Idx : tools'[j] = tools[j]
          /\ tools'[Len(tools) + 1] = Tracked(kd)
      BY <3>1, <3>2, TrackedType, AppendTools DEF QInv, TypeOK
    <3>4. Idx = 1 .. Len(tools) /\ Len(tools) \in Nat
      BY IdxRange DEF QInv, TypeOK
    <3>5. Tracked(kd).call = "none"
      BY DEF Tracked
    <3>6. QueuedIsIdle'
      BY <3>3, <3>4, <3>5 DEF QInv, QueuedIsIdle
    <3>7. PassedOver'
      <4>1. \A l \in loops : l \in Idx
        BY DEF QInv, TypeOK
      <4>2. \A l \in loops : NoneQueued(l)'
        BY <3>3, <3>4, <4>1 DEF QInv, PassedOver, NoneQueued
      <4> QED
        BY <1>2, <3>2, <4>2 DEF AddTool, PassedOver
    <3>8. TypeOK'
      BY <1>2, <3>2, <3>3 DEF AddTool, QInv, TypeOK
    <3> QED
      BY <3>1, <3>2, <3>6, <3>7, <3>8 DEF QInv, Offered, Appends
  <2> QED
    BY <2>1, <2>2
<1>3. CASE AddToolStarts
  <2>1. CASE tools[Len(tools)].kind.known
    <3>1. NoneQueued(1 - 1)
      BY IdxRange DEF NoneQueued, QInv, TypeOK
    <3> QED
      BY <1>3, <2>1, <3>1, ProcessQueueKeepsQueue DEF AddToolStarts
  <2>2. CASE ~tools[Len(tools)].kind.known
    BY <1>3, <2>2, IdleKeepsQueue DEF AddToolStarts, QInv, TypeOK, Offered, Idx
  <2> QED
    BY <2>1, <2>2
<1>4. CASE DrainStream
  BY <1>4, CollectKeepsQueue DEF DrainStream, QInv, TypeOK
<1>5. CASE OtherMessage
  BY <1>5, CollectKeepsQueue DEF OtherMessage, QInv, TypeOK
<1>6. CASE Pull
  <2>1. (IF pc = "result" THEN k + 1 ELSE k) \in Nat
    BY DEF QInv, TypeOK
  <2>2. site \in {"stream", "loop", "final"} /\ inProgress' \in SUBSET Idx
    BY <1>6 DEF Pull, QInv, TypeOK
  <2> QED
    BY <1>6, <2>1, <2>2, CollectKeepsQueue DEF Pull
<1>7. CASE StreamEnds
  BY <1>7, IdleKeepsQueue DEF StreamEnds, QInv, TypeOK, Offered, Idx
<1>8. CASE Discard
  BY <1>8, IdleKeepsQueue DEF Discard, QInv, TypeOK, Offered, Idx
<1>9. CASE StreamThrows
  BY <1>9, IdleKeepsQueue DEF StreamThrows, QInv, TypeOK, Offered, Idx
<1>10. ASSUME NEW from \in Nat, NoneQueued(from - 1), AwaitProcessQueue(from)
       PROVE  QInv' /\ Stays
  <2>1. CASE \E i \in Startable(from) :
               ExecuteTool(i, kicks) /\ k' = i + 1 /\ pc' = "scanning"
    <3>1. PICK i \in Startable(from) :
               ExecuteTool(i, kicks) /\ k' = i + 1 /\ pc' = "scanning"
      BY <2>1
    <3>2. /\ i \in Idx /\ Moves(i) /\ NoneQueued(i)'
          /\ inProgress' = inProgress \cup {i} /\ kicks' \subseteq kicks \cup {i}
      BY <1>10, <3>1, ExecuteToolFacts DEF QInv
    <3>3. Stays /\ i \in Nat
      BY <3>2, IdxRange DEF Stays, QInv, TypeOK
    <3>4. /\ tools' \in Seq(ToolRecord) /\ Idx' = Idx
          /\ \A p : NoneQueued(p) => NoneQueued(p)'
      BY <3>3, StaysFacts DEF QInv
    <3>5. QueuedIsIdle'
      BY <3>3, StaysKeepsQueue DEF QInv
    <3>6. TypeOK'
      BY <1>10, <3>1, <3>2, <3>3, <3>4 DEF AwaitProcessQueue, QInv, TypeOK
    <3>7. k' - 1 = i
      BY <3>1, <3>3
    <3>8. PassedOver'
      BY <1>10, <3>2, <3>4, <3>7 DEF AwaitProcessQueue, QInv, PassedOver, NoneQueued
    <3> QED
      BY <3>1, <3>3, <3>5, <3>6, <3>8 DEF QInv, Offered
  <2>2. CASE k' = 0 /\ pc' = "scanned" /\ UNCHANGED <<tools, inProgress, kicks>>
    <3>1. Stays /\ Idx' = Idx
      BY <2>2 DEF Stays, Idx
    <3>2. TypeOK'
      BY <1>10, <2>2, <3>1 DEF AwaitProcessQueue, QInv, TypeOK
    <3>3. QueuedIsIdle'
      BY <3>1, StaysKeepsQueue DEF QInv
    <3>4. PassedOver'
      BY <1>10, <2>2, <3>1 DEF AwaitProcessQueue, QInv, PassedOver, NoneQueued
    <3> QED
      BY <2>2, <3>1, <3>2, <3>3, <3>4 DEF QInv, Offered
  <2> QED
    BY <1>10, <2>1, <2>2 DEF AwaitProcessQueue
<1>11. CASE LoopTop
  <2>1. CASE HasUnfinished
    <3>1. NoneQueued(1 - 1)
      BY IdxRange DEF NoneQueued, QInv, TypeOK
    <3> QED
      BY <1>10, <1>11, <2>1, <3>1 DEF LoopTop
  <2>2. CASE ~HasUnfinished
    BY <1>11, <2>2, CollectKeepsQueue DEF LoopTop, QInv, TypeOK
  <2> QED
    BY <2>1, <2>2
<1>12. CASE Scan
  BY <1>10, <1>12 DEF Scan, QInv, TypeOK, PassedOver
<1>13. CASE DrainRemaining
  BY <1>13, CollectKeepsQueue DEF DrainRemaining, QInv, TypeOK
<1>14. CASE WakeUp
  BY <1>14, IdleKeepsQueue DEF WakeUp, QInv, TypeOK, Offered, Idx
<1>15. CASE Abort
  BY <1>15, IdleKeepsQueue DEF Abort, QInv, TypeOK, Offered, Idx
<1>16. ASSUME NEW i \in Idx, Tool(i) PROVE QInv' /\ Stays
  <2>0. /\ tools[i] \in ToolRecord /\ i \in Nat
        /\ kicks \in SUBSET Idx /\ loops \in SUBSET Idx
        /\ hasErrored \in BOOLEAN /\ aborted \in {"no", "user", "interrupt"}
    BY IdxRange DEF QInv, TypeOK
  <2>1. CASE ToolProgress(i)
    <3>1. CASE AbortReason = "none"
      <4> DEFINE t == [tools[i] EXCEPT !.progress = @ + 1]
      <4>1. t \in ToolRecord /\ t.kind = tools[i].kind /\ GoesOn(i, t)
        BY <2>0 DEF ToolRecord, GoesOn
      <4> QED
        BY <2>0, <2>1, <3>1, <4>1, MoveKeepsQueue DEF ToolProgress
    <3>2. CASE AbortReason # "none"
      <4> DEFINE t == [tools[i] EXCEPT !.status = "completed", !.results = Append(@, AbortReason)]
      <4>1. Append(tools[i].results, AbortReason) \in Seq(Answers \cup {"note"})
        BY <2>0, <3>2, ReasonType, AppendProperties DEF ToolRecord, Answers
      <4>2. t \in ToolRecord /\ t.kind = tools[i].kind /\ GoesOn(i, t)
        BY <2>0, <2>1, <3>2, <4>1 DEF ToolRecord, GoesOn, ToolProgress
      <4> QED
        BY <2>0, <2>1, <3>2, <4>2, MoveKeepsQueue DEF ToolProgress
    <3> QED
      BY <3>1, <3>2
  <2>2. CASE ToolReturns(i)
    <3>1. PICK out \in Outcomes :
            Update(i, [tools[i] EXCEPT !.call = "settled",
                         !.updates = IF tools[i].status = "executing" THEN out ELSE <<>>])
      BY <2>2 DEF ToolReturns
    <3> DEFINE t == [tools[i] EXCEPT !.call = "settled",
                       !.updates = IF tools[i].status = "executing" THEN out ELSE <<>>]
    <3>2. out \in Seq({"ok", "err", "note"}) /\ <<>> \in Seq({"ok", "err", "note"})
      BY OutcomesType, EmptySeq
    <3>3. t \in ToolRecord /\ t.kind = tools[i].kind /\ GoesOn(i, t)
      BY <2>0, <3>2 DEF ToolRecord, GoesOn
    <3> QED
      BY <2>0, <2>2, <3>1, <3>3, MoveKeepsQueue DEF ToolReturns
  <2>3. CASE RejectPermission(i)
    <3> DEFINE t == [tools[i] EXCEPT !.call = "settled",
                       !.updates = IF tools[i].status = "executing" THEN <<"err">> ELSE <<>>]
    <3>1. <<"err">> \in Seq({"ok", "err", "note"}) /\ <<>> \in Seq({"ok", "err", "note"})
      BY ShortSeqs
    <3>2. t \in ToolRecord /\ t.kind = tools[i].kind /\ GoesOn(i, t)
      BY <2>0, <3>1 DEF ToolRecord, GoesOn
    <3>3. aborted' \in {"no", "user", "interrupt"}
      BY <2>0, <2>3 DEF RejectPermission
    <3> QED
      BY <2>0, <2>3, <3>2, <3>3, MoveKeepsQueue DEF RejectPermission
  <2>4. CASE Deliver(i)
    <3> DEFINE u == Head(tools[i].updates)
    <3>1. /\ Tail(tools[i].updates) \in Seq({"ok", "err", "note"})
          /\ Append(tools[i].results, u) \in Seq(Answers \cup {"note"})
      BY <2>0, <2>4, UpdatesAreResults DEF Deliver
    <3>2. CASE AbortReason # "none" /\ ~tools[i].errored
      <4> DEFINE t == [tools[i] EXCEPT !.status = "completed", !.updates = <<>>,
                                       !.results = Append(@, AbortReason)]
      <4>1. /\ Append(tools[i].results, AbortReason) \in Seq(Answers \cup {"note"})
            /\ <<>> \in Seq({"ok", "err", "note"})
        BY <2>0, <3>2, ReasonType, AppendProperties, EmptySeq DEF ToolRecord, Answers
      <4>2. t \in ToolRecord /\ t.kind = tools[i].kind /\ GoesOn(i, t)
        BY <2>0, <2>4, <3>2, <4>1 DEF ToolRecord, GoesOn, Deliver
      <4> QED
        BY <2>0, <2>4, <3>2, <4>2, MoveKeepsQueue DEF Deliver
    <3>3. CASE ~(AbortReason # "none" /\ ~tools[i].errored)
      <4> DEFINE t == [tools[i] EXCEPT !.updates = Tail(@), !.errored = @ \/ u = "err",
                                       !.results = Append(@, u)]
      <4>1. t \in ToolRecord /\ t.kind = tools[i].kind /\ GoesOn(i, t)
        BY <2>0, <3>1 DEF ToolRecord, GoesOn
      <4>2. /\ Update(i, t) /\ kicks' = kicks
            /\ hasErrored' = (hasErrored \/ (u = "err" /\ tools[i].kind.bash))
        BY <2>4, <3>3 DEF Deliver, Cascades
      <4>3. hasErrored' \in BOOLEAN
        BY <4>2
      <4> QED
        BY <2>0, <2>4, <4>1, <4>2, <4>3, MoveKeepsQueue DEF Deliver
    <3> QED
      BY <3>2, <3>3
  <2>5. CASE Complete(i)
    <3> DEFINE t == [tools[i] EXCEPT !.status = "completed"]
    <3>1. t \in ToolRecord /\ t.kind = tools[i].kind /\ GoesOn(i, t)
      BY <2>0, <2>5 DEF ToolRecord, GoesOn, Complete
    <3> QED
      BY <2>0, <2>5, <3>1, MoveKeepsQueue DEF Complete
  <2>6. CASE LoopResumes(i)
    <3>1. NoneQueued((i + 1) - 1)
      BY <2>0, <2>6 DEF LoopResumes, QInv, PassedOver, NoneQueued
    <3> QED
      BY <2>0, <2>6, <3>1, ProcessQueueKeepsQueue DEF LoopResumes
  <2>7. CASE Kick(i)
    <3>1. NoneQueued(1 - 1)
      BY IdxRange DEF NoneQueued, QInv, TypeOK
    <3> QED
      BY <2>7, <3>1, ProcessQueueKeepsQueue DEF Kick
  <2> QED
    BY <1>16, <2>1, <2>2, <2>3, <2>4, <2>5, <2>6, <2>7 DEF Tool
<1> QED
  BY <1>1, <1>2, <1>3, <1>4, <1>5, <1>6, <1>7, <1>8, <1>9, <1>11, <1>12, <1>13, <1>14,
     <1>15, <1>16 DEF Next, Consumer

LEMMA QueueInit == Init => QInv
<1> SUFFICES ASSUME Init PROVE QInv
  OBVIOUS
<1>1. Idx = {}
  BY EmptySeq, LenProperties DEF Init, Idx
<1>2. tools \in Seq(ToolRecord) /\ blocks \in Seq(Kinds)
  BY EmptySeq DEF Init
<1> QED
  BY <1>1, <1>2 DEF Init, QInv, TypeOK, Offered, QueuedIsIdle, PassedOver

LEMMA QueueStutter == QInv /\ UNCHANGED vars => QInv'
<1> SUFFICES ASSUME QInv, UNCHANGED vars PROVE QInv'
  OBVIOUS
<1>1. Stays
  BY DEF Stays, vars
<1> QED
  BY IdleKeepsQueue DEF vars, QInv, TypeOK, Offered, Idx

\* The executor's state stays within its types: in particular every tool that
\* a suspended loop, a pending callback, the session or the race of the query
\* loop refers to is one that was received.
THEOREM TypeCorrect == Spec => []TypeOK
<1>1. Init => QInv
  BY QueueInit
<1>2. QInv /\ [Next]_vars => QInv'
  BY QueueStep, QueueStutter
<1>3. QInv => TypeOK
  BY DEF QInv
<1> QED
  BY <1>1, <1>2, <1>3, PTL DEF Spec

LEMMA QueueInvariant == Spec => []QInv
<1>1. QInv /\ [Next]_vars => QInv'
  BY QueueStep, QueueStutter
<1> QED
  BY <1>1, QueueInit, PTL DEF Spec

-----------------------------------------------------------------------------
(***************************************************************************)
(* Exclusive access.  A call can outlive its tool: the collector answers   *)
(* for a cancelled tool and stops listening.  That is harmless because     *)
(* what cancelled it cancels every later start of this executor too.       *)
(***************************************************************************)
Abandoned == (\E i \in Idx : tools[i].call = "live" /\ tools[i].status # "executing")
                 => AbortReason # "none"
XInv == QInv /\ Abandoned /\ Exclusive

\* Cancellation is for good.
LEMMA ReasonStays ==
    ASSUME Next, AbortReason # "none"
    PROVE  AbortReason' # "none"
<1> DEFINE Kept == /\ discarded => discarded'
                   /\ hasErrored => hasErrored'
                   /\ aborted # "no" => aborted' = aborted
<1> SUFFICES Kept
  BY DEF AbortReason
<1>1. CASE Consumer
  <2>1. UNCHANGED control \/ (UNCHANGED <<hasErrored, aborted>> /\ discarded')
    BY <1>1 DEF Consumer, MessageArrives, AddTool, AddToolStarts, DrainStream, OtherMessage,
                Pull, StreamEnds, Discard, StreamThrows, LoopTop, AwaitProcessQueue, Scan,
                DrainRemaining, WakeUp
  <2> QED
    BY <2>1 DEF control
<1>2. CASE Abort
  BY <1>2 DEF Abort
<1>3. CASE \E i \in Idx : Tool(i)
  <2>1. PICK i \in Idx : Tool(i)
    BY <1>3
  <2>2. CASE ToolProgress(i)
    BY <2>2 DEF ToolProgress, control
  <2>3. CASE ToolReturns(i)
    BY <2>3 DEF ToolReturns, control
  <2>4. CASE RejectPermission(i)
    BY <2>4 DEF RejectPermission, SignalAborted
  <2>5. CASE Deliver(i)
    BY <2>5 DEF Deliver
  <2>6. CASE Complete(i)
    BY <2>6 DEF Complete, control
  <2>7. CASE LoopResumes(i)
    BY <2>7 DEF LoopResumes, control
  <2>8. CASE Kick(i)
    BY <2>8 DEF Kick, control
  <2> QED
    BY <2>1, <2>2, <2>3, <2>4, <2>5, <2>6, <2>7, <2>8 DEF Tool
<1> QED
  BY <1>1, <1>2, <1>3 DEF Next

\* What a step does to the tools, seen from one tool.
LEMMA StepOfTools ==
    ASSUME QInv, Stays
    PROVE  /\ Idx' = Idx
           /\ \A j \in Idx : tools'[j].kind = tools[j].kind
           /\ \A j \in Idx : tools'[j].call = "live" /\ tools[j].call # "live" =>
                 /\ tools'[j].status = "executing" /\ AbortReason = "none"
                 /\ CanExecuteTool(tools[j].kind.safe)
                 /\ \A m \in Idx : m # j => tools'[m] = tools[m]
           /\ \A j \in Idx : tools'[j].call = "live" /\ tools'[j].status # "executing" =>
                 AbortReason # "none" \/ (tools[j].call = "live" /\ tools[j].status # "executing")
<1>1. CASE tools' = tools
  BY <1>1 DEF Idx
<1>2. CASE \E i \in Idx : Moves(i)
  <2>1. PICK i \in Idx, t \in ToolRecord :
          Update(i, t) /\ t.kind = tools[i].kind /\ (Starts(i, t) \/ GoesOn(i, t))
    BY <1>2 DEF Moves
  <2>2. /\ Idx' = Idx
        /\ \A j \in Idx : tools'[j] = IF j = i THEN t ELSE tools[j]
    BY <2>1, UpdateTools DEF QInv, TypeOK
  <2>3. CASE Starts(i, t)
    BY <2>1, <2>2, <2>3 DEF Starts
  <2>4. CASE GoesOn(i, t)
    BY <2>1, <2>2, <2>4 DEF GoesOn
  <2> QED
    BY <2>1, <2>3, <2>4
<1> QED
  BY <1>1, <1>2 DEF Stays

LEMMA ExclusiveStep ==
    ASSUME XInv, Next
    PROVE  XInv'
<1>1. QInv' /\ (Stays \/ Appends)
  BY QueueStep DEF XInv
<1>2. CASE Stays
  <2>1. /\ Idx' = Idx
        /\ \A j \in Idx : tools'[j].kind = tools[j].kind
        /\ \A j \in Idx : tools'[j].call = "live" /\ tools[j].call # "live" =>
              /\ tools'[j].status = "executing" /\ AbortReason = "none"
              /\ CanExecuteTool(tools[j].kind.safe)
              /\ \A m \in Idx : m # j => tools'[m] = tools[m]
        /\ \A j \in Idx : tools'[j].call = "live" /\ tools'[j].status # "executing" =>
              AbortReason # "none" \/ (tools[j].call = "live" /\ tools[j].status # "executing")
    BY <1>2, StepOfTools DEF XInv
  <2>2. Abandoned'
    BY <2>1, ReasonStays DEF XInv, Abandoned
  <2>3. Exclusive'
    <3> SUFFICES ASSUME NEW i \in Live', NEW j \in Live', i # j
                 PROVE  tools'[i].kind.safe /\ tools'[j].kind.safe
      BY DEF Exclusive
    <3>1. /\ i \in Idx /\ j \in Idx
          /\ tools'[i].call = "live" /\ tools'[j].call = "live"
      BY <2>1 DEF Live
    <3>2. CASE tools[i].call = "live" /\ tools[j].call = "live"
      BY <2>1, <3>1, <3>2 DEF XInv, Exclusive, Live
    <3>3. ASSUME NEW a \in Idx, NEW b \in Idx, a # b,
                 tools'[a].call = "live", tools[a].call # "live", tools'[b].call = "live"
          PROVE  tools'[a].kind.safe /\ tools'[b].kind.safe
      <4>1. /\ AbortReason = "none" /\ CanExecuteTool(tools[a].kind.safe)
            /\ tools'[b] = tools[b]
        BY <2>1, <3>3
      <4>2. b \in Executing
        BY <3>3, <4>1 DEF XInv, Abandoned, Executing
      <4> QED
        BY <2>1, <4>1, <4>2 DEF CanExecuteTool
    <3> QED
      BY <3>1, <3>2, <3>3
  <2> QED
    BY <1>1, <2>2, <2>3 DEF XInv
<1>3. CASE Appends
  <2>1. PICK kd \in Kinds : tools' = Append(tools, Tracked(kd))
    BY <1>3 DEF Appends
  <2>2. /\ Len(tools) \in Nat /\ Idx = 1 .. Len(tools)
        /\ Idx' = 1 .. Len(tools) + 1
        /\ \A j \in Idx : tools'[j] = tools[j]
        /\ tools'[Len(tools) + 1] = Tracked(kd)
    BY <2>1, TrackedType, AppendTools, IdxRange DEF XInv, QInv, TypeOK
  <2>3. Tracked(kd).call # "live"
    BY DEF Tracked
  <2>4. Live' = Live /\ \A j \in Idx' : tools'[j].call = "live" => j \in Idx
    BY <2>2, <2>3 DEF Live
  <2>5. Abandoned'
    BY <2>2, <2>4, ReasonStays DEF XInv, Abandoned
  <2>6. Exclusive'
    BY <2>2, <2>4 DEF XInv, Exclusive, Live
  <2> QED
    BY <1>1, <2>5, <2>6 DEF XInv
<1> QED
  BY <1>1, <1>2, <1>3

LEMMA ExclusiveInvariant == Spec => []XInv
<1>1. Init => XInv
  <2>1. Init => Idx = {}
    BY EmptySeq, LenProperties DEF Init, Idx
  <2> QED
    BY <2>1, QueueInit DEF XInv, Abandoned, Exclusive, Live
<1>2. XInv /\ UNCHANGED vars => XInv'
  BY QueueStutter DEF vars, XInv, Abandoned, AbortReason, Exclusive, Live, Idx
<1>3. XInv /\ [Next]_vars => XInv'
  BY <1>2, ExclusiveStep
<1> QED
  BY <1>1, <1>3, PTL DEF Spec

\* "Non-concurrent tools must execute alone (exclusive access)": of the calls
\* under way at any time, an unsafe one is the only one, in every turn, for
\* every mix of tools, whatever errors, aborts and fallbacks happen.
THEOREM ExclusiveAccess == Spec => []Exclusive
<1>1. XInv => Exclusive
  BY DEF XInv
<1> QED
  BY <1>1, ExclusiveInvariant, PTL

-----------------------------------------------------------------------------
(***************************************************************************)
(* Starting in order.                                                      *)
(***************************************************************************)
LEMMA StepInOrder ==
    ASSUME QInv, Stays
    PROVE  \A j \in Idx : tools'[j].status # "queued" =>
              \/ tools[j].status # "queued"
              \/ \A m \in Idx : m < j => tools[m].status # "queued" /\ tools'[m].status # "queued"
<1>1. CASE tools' = tools
  BY <1>1
<1>2. CASE \E i \in Idx : Moves(i)
  <2>1. PICK i \in Idx, t \in ToolRecord :
          Update(i, t) /\ t.kind = tools[i].kind /\ (Starts(i, t) \/ GoesOn(i, t))
    BY <1>2 DEF Moves
  <2>2. \A j \in Idx : tools'[j] = IF j = i THEN t ELSE tools[j]
    BY <2>1, UpdateTools DEF QInv, TypeOK
  <2>3. CASE Starts(i, t)
    <3>1. \A m \in Idx : m < i => m \notin Queued /\ m # i
      BY <2>3, IdxRange DEF Starts, QInv, TypeOK
    <3> QED
      BY <2>2, <3>1 DEF Queued
  <2>4. CASE GoesOn(i, t)
    BY <2>2, <2>4 DEF GoesOn
  <2> QED
    BY <2>1, <2>3, <2>4
<1> QED
  BY <1>1, <1>2 DEF Stays

\* A tool that waits is never overtaken: of two tools of the registry, the one
\* the model sent first is started first, however the suspended loops of
\* processQueue and the callbacks of finished calls interleave.
THEOREM StartsInOrder == Spec => []StartOrder
<1>1. Init => StartOrder
  BY EmptySeq, LenProperties DEF Init, StartOrder, Idx
<1>2. ASSUME QInv, StartOrder, Next PROVE StartOrder'
  <2>1. Stays \/ Appends
    BY <1>2, QueueStep
  <2>2. CASE Stays
    <3>1. /\ Idx' = Idx /\ \A j \in Idx : tools'[j].kind = tools[j].kind
          /\ \A j \in Idx : tools[j].status # "queued" => tools'[j].status # "queued"
      BY <1>2, <2>2, StepOfTools, StaysFacts DEF QInv, Queued
    <3>2. \A j \in Idx : tools'[j].status # "queued" =>
             \/ tools[j].status # "queued"
             \/ \A m \in Idx : m < j =>
                   tools[m].status # "queued" /\ tools'[m].status # "queued"
      BY <1>2, <2>2, StepInOrder
    <3> QED
      BY <1>2, <3>1, <3>2 DEF StartOrder, Begun
  <2>3. CASE Appends
    <3>1. PICK kd \in Kinds : tools' = Append(tools, Tracked(kd))
      BY <2>3 DEF Appends
    <3>2. /\ Len(tools) \in Nat /\ Idx = 1 .. Len(tools)
          /\ Idx' = 1 .. Len(tools) + 1
          /\ \A j \in Idx : tools'[j] = tools[j]
          /\ tools'[Len(tools) + 1] = Tracked(kd)
      BY <1>2, <3>1, TrackedType, AppendTools, IdxRange DEF QInv, TypeOK
    <3>3. /\ Tracked(kd).kind = kd
          /\ kd.known => Tracked(kd).status = "queued"
      BY DEF Tracked
    <3> QED
      BY <1>2, <3>2, <3>3 DEF StartOrder, Begun
  <2> QED
    BY <2>1, <2>2, <2>3
<1>3. StartOrder /\ UNCHANGED vars => StartOrder'
  BY DEF vars, StartOrder, Begun, Idx
<1>4. QInv /\ StartOrder /\ [Next]_vars => StartOrder'
  BY <1>2, <1>3
<1> QED
  BY <1>1, <1>4, QueueInvariant, PTL DEF Spec

-----------------------------------------------------------------------------
(***************************************************************************)
(* The executor implements ToolScheduler.                                  *)
(***************************************************************************)
CallRecord == [safe : BOOLEAN, phase : {"waiting", "running", "finished"}]

LEMMA CallsType ==
    ASSUME tools \in Seq(ToolRecord)
    PROVE  Calls \in Seq(CallRecord) /\ Len(Calls) = Len(tools) /\ DOMAIN Calls = Idx
<1>1. Idx = 1 .. Len(tools) /\ Len(tools) \in Nat
  BY IdxRange
<1>2. \A i \in Idx : [safe |-> tools[i].kind.safe, phase |-> Phase(tools[i])] \in CallRecord
  BY IdxRange DEF ToolRecord, Kind, CallRecord, Phase
<1>3. Calls \in [1 .. Len(tools) -> CallRecord]
  BY <1>1, <1>2 DEF Calls
<1>4. Calls \in Seq(CallRecord)
  BY <1>1, <1>3, SeqDef
<1> QED
  BY <1>1, <1>3, <1>4, LenProperties

\* One tool moves: the lock starts, skips or ends that call, or does nothing.
LEMMA MoveImplements ==
    ASSUME XInv, NEW i \in Idx, NEW t \in ToolRecord, Update(i, t),
           t.kind = tools[i].kind, Starts(i, t) \/ GoesOn(i, t)
    PROVE  \/ Calls' = Calls
           \/ Scheduler!Start(i) \/ Scheduler!Skip(i) \/ Scheduler!Finish(i)
<1>1. /\ tools \in Seq(ToolRecord) /\ tools' \in Seq(ToolRecord)
      /\ Idx' = Idx /\ \A j \in Idx : tools'[j] = IF j = i THEN t ELSE tools[j]
  BY UpdateTools DEF XInv, QInv, TypeOK
<1>2. /\ DOMAIN Calls = Idx
      /\ \A j \in Idx : Calls[j] = [safe |-> tools[j].kind.safe, phase |-> Phase(tools[j])]
  BY DEF Calls
<1>3. Calls' = [Calls EXCEPT ![i].phase = Phase(t)]
  <2>1. Calls' = [j \in Idx |-> IF j = i
                                THEN [safe |-> tools[i].kind.safe, phase |-> Phase(t)]
                                ELSE [safe |-> tools[j].kind.safe, phase |-> Phase(tools[j])]]
    BY <1>1 DEF Calls
  <2> QED
    BY <1>2, <2>1 DEF Calls
<1>4. \A j \in Idx : Calls[j].phase = Phase(tools[j]) /\ Calls[j].safe = tools[j].kind.safe
  BY <1>2
<1>5. CASE Starts(i, t)
  <2>1. Scheduler!NextInLine(i)
    <3>1. Phase(tools[i]) = "waiting"
      BY <1>5 DEF Starts, Queued, Phase
    <3>2. \A j \in Idx : j < i => Phase(tools[j]) # "waiting"
      <4> SUFFICES ASSUME NEW j \in Idx, j < i PROVE Phase(tools[j]) # "waiting"
        OBVIOUS
      <4>1. j \notin Queued
        BY <1>5, IdxRange, <1>1 DEF Starts
      <4> QED
        BY <4>1 DEF Queued, Phase
    <3> QED
      BY <1>2, <1>4, <3>1, <3>2 DEF Scheduler!NextInLine, Scheduler!Waiting
  <2>2. CASE t.call = "live"
    <3>1. Phase(t) = "running"
      BY <2>2 DEF Phase
    <3>2. AbortReason = "none" /\ CanExecuteTool(tools[i].kind.safe)
      BY <1>5, <2>2 DEF Starts
    <3>3. \A j \in Idx : Phase(tools[j]) = "running" => j \in Executing
      BY <3>2 DEF XInv, Abandoned, Phase, Executing
    <3>4. Scheduler!Compatible(i)
      BY <1>2, <1>4, <3>2, <3>3
         DEF Scheduler!Compatible, Scheduler!Running, CanExecuteTool
    <3> QED
      BY <1>3, <2>1, <3>1, <3>4 DEF Scheduler!Start
  <2>3. CASE t.call # "live"
    <3>1. Phase(t) = "finished"
      BY <1>5, <2>3 DEF Starts, Phase
    <3> QED
      BY <1>3, <2>1, <3>1 DEF Scheduler!Skip
  <2> QED
    BY <2>2, <2>3
<1>6. CASE GoesOn(i, t)
  <2>1. CASE tools[i].call = "live" /\ t.call # "live"
    <3>1. Phase(tools[i]) = "running" /\ Phase(t) = "finished"
      BY <1>6, <2>1 DEF XInv, QInv, QueuedIsIdle, GoesOn, Phase
    <3> QED
      BY <1>3, <1>4, <3>1 DEF Scheduler!Finish, Scheduler!Running
  <2>2. CASE tools[i].call = "live" <=> t.call = "live"
    <3>1. Phase(t) = Phase(tools[i])
      BY <1>6, <2>2 DEF GoesOn, Phase
    <3>2. Calls' = [j \in Idx |-> [safe |-> tools[j].kind.safe, phase |-> Phase(tools[j])]]
      BY <1>1, <3>1 DEF Calls
    <3> QED
      BY <3>2 DEF Calls
  <2> QED
    BY <1>6, <2>1, <2>2 DEF GoesOn
<1> QED
  BY <1>5, <1>6

LEMMA AppendImplements ==
    ASSUME QInv, NEW kd \in Kinds, tools' = Append(tools, Tracked(kd))
    PROVE  Scheduler!Admit \/ Scheduler!Reject
<1> DEFINE c == [safe |-> kd.safe, phase |-> IF kd.known THEN "waiting" ELSE "finished"]
<1>1. /\ tools \in Seq(ToolRecord) /\ tools' \in Seq(ToolRecord)
      /\ Len(tools) \in Nat /\ Len(tools') = Len(tools) + 1
      /\ Idx = 1 .. Len(tools) /\ Idx' = 1 .. Len(tools) + 1
      /\ \A j \in Idx : tools'[j] = tools[j]
      /\ tools'[Len(tools) + 1] = Tracked(kd)
  BY TrackedType, AppendTools, IdxRange DEF QInv, TypeOK
<1>2. Phase(Tracked(kd)) = c.phase /\ Tracked(kd).kind = kd
  BY DEF Phase, Tracked
<1>3. kd \in Kind /\ (~kd.known => kd.safe)
  BY KindsAssumption
<1>4. c \in CallRecord
  BY <1>3 DEF Kind, CallRecord
<1>5. /\ Calls \in Seq(CallRecord) /\ Len(Calls) = Len(tools)
      /\ Calls' \in Seq(CallRecord) /\ Len(Calls') = Len(tools) + 1
  <2>1. Calls \in Seq(CallRecord) /\ Len(Calls) = Len(tools)
    BY <1>1, CallsType
  <2>2. \A i \in Idx' : [safe |-> tools'[i].kind.safe, phase |-> Phase(tools'[i])] \in CallRecord
    BY <1>1, IdxRange, <1>2, <1>3 DEF ToolRecord, Kind, CallRecord, Phase
  <2>3. Calls' \in [1 .. Len(tools) + 1 -> CallRecord]
    BY <1>1, <2>2 DEF Calls
  <2>4. Calls' \in Seq(CallRecord)
    BY <1>1, <2>3, SeqDef
  <2> QED
    BY <1>1, <2>1, <2>3, <2>4, LenProperties
<1>6. \A j \in 1 .. Len(tools) + 1 :
         Calls'[j] = IF j <= Len(tools) THEN Calls[j] ELSE c
  <2> SUFFICES ASSUME NEW j \in 1 .. Len(tools) + 1
               PROVE  Calls'[j] = IF j <= Len(tools) THEN Calls[j] ELSE c
    OBVIOUS
  <2>1. Calls'[j] = [safe |-> tools'[j].kind.safe, phase |-> Phase(tools'[j])]
    BY <1>1 DEF Calls
  <2>2. CASE j <= Len(tools)
    BY <1>1, <2>1, <2>2 DEF Calls
  <2>3. CASE j = Len(tools) + 1
    BY <1>1, <1>2, <2>1, <2>3
  <2> QED
    BY <1>1, <2>2, <2>3
<1>7. /\ Append(Calls, c) \in Seq(CallRecord)
      /\ Len(Append(Calls, c)) = Len(tools) + 1
      /\ \A j \in 1 .. Len(tools) + 1 :
            Append(Calls, c)[j] = IF j <= Len(tools) THEN Calls[j] ELSE c
  BY <1>1, <1>4, <1>5, AppendProperties
<1>8. Calls' = Append(Calls, c)
  BY <1>5, <1>6, <1>7, SeqEqual
<1>9. CASE kd.known
  BY <1>3, <1>8, <1>9 DEF Scheduler!Admit, Kind
<1>10. CASE ~kd.known
  <2>1. c = [safe |-> TRUE, phase |-> "finished"]
    BY <1>3, <1>10 DEF Kind
  <2> QED
    BY <1>8, <2>1 DEF Scheduler!Reject
<1> QED
  BY <1>9, <1>10

\* The calls the executor makes behave as a first-in first-out readers-writer
\* lock lets them: it starts, skips and ends them as ToolScheduler does.
THEOREM ImplementsScheduler == Spec => SchedulerSpec
<1>1. Init => Scheduler!Init
  <2> SUFFICES ASSUME Init PROVE Calls = <<>>
    BY DEF Scheduler!Init
  <2>1. tools \in Seq(ToolRecord) /\ Len(tools) = 0
    BY EmptySeq DEF Init
  <2> QED
    BY <2>1, CallsType, EmptySeq, SeqEqual
<1>2. ASSUME XInv, Next PROVE Scheduler!Next \/ Calls' = Calls
  <2>1. Stays \/ Appends
    BY <1>2, QueueStep DEF XInv
  <2>2. CASE tools' = tools
    BY <2>2 DEF Calls, Idx
  <2>3. CASE \E i \in Idx : Moves(i)
    <3>1. PICK i \in Idx, t \in ToolRecord :
            Update(i, t) /\ t.kind = tools[i].kind /\ (Starts(i, t) \/ GoesOn(i, t))
      BY <2>3 DEF Moves
    <3>2. \/ Calls' = Calls
          \/ Scheduler!Start(i) \/ Scheduler!Skip(i) \/ Scheduler!Finish(i)
      BY <1>2, <3>1, MoveImplements
    <3>3. i \in DOMAIN Calls
      BY DEF Calls
    <3> QED
      BY <3>2, <3>3 DEF Scheduler!Next
  <2>4. CASE Appends
    BY <1>2, <2>4, AppendImplements DEF Appends, Scheduler!Next, XInv
  <2> QED
    BY <2>1, <2>2, <2>3, <2>4 DEF Stays
<1>3. XInv /\ UNCHANGED vars => Calls' = Calls
  BY DEF vars, Calls, Idx
<1>4. XInv /\ [Next]_vars => [Scheduler!Next]_Calls
  BY <1>2, <1>3
<1> QED
  BY <1>1, <1>4, ExclusiveInvariant, PTL DEF Spec, SchedulerSpec, Scheduler!Spec
=============================================================================
