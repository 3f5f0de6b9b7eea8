-------------------------- MODULE TaskListClaimProofs --------------------------
(***************************************************************************)
(* Claims and updates of TaskList: no update is lost and a claim stands,   *)
(* for any agents, operations and bounds.                                  *)
(***************************************************************************)
EXTENDS TaskListProofs

\* createTask has given this id to a task.
Known(i) == \E n \in DOMAIN given : given[n] = i

\* An update that makes p the owner; a plan without one.
Own(p, item) == "owner" \in DOMAIN item.set /\ item.set.owner = p
Leaves(p, plan) == \A n \in DOMAIN plan : ~Own(p, plan[n])

(***************************************************************************)
(* Only the first update of a claim makes p the owner of a task.           *)
(***************************************************************************)
PlanOK(p, x) ==
    /\ x.op = "claim" /\ x.pc \in {"check", "tasklock"} => Leaves(p, x.plan)
    /\ x.op = "claim" /\ x.pc \in {"read", "truncate", "fill"} => Leaves(p, Tail(x.plan))

FileKnown(x) == x.pc \in {"truncate", "fill"} => Known(Head(x.plan).id)

Unowned(p, i) == files[i].status \in Status => files[i].owner \in {NoAgent, p}

(***************************************************************************)
(* What p knows of the file it works on, its lock held: what it read is    *)
(* still there; what it writes has the owner the claims speak of; nobody   *)
(* else has become the owner of a task p is about to claim.                *)
(***************************************************************************)
Writes(p, x) ==
    /\ x.pc = "truncate" => files[Head(x.plan).id] \in {x.base, NoTask}
    /\ x.pc = "fill" /\ files[Head(x.plan).id] = Torn(p) =>
         \A a \in claims[Head(x.plan).id] : x.base.owner = a
    /\ x.pc = "claimdir" \/ (x.pc = "files" /\ x.op = "claim" /\ x.id # 0) => Unowned(p, x.id)
    /\ x.pc = "read" /\ x.op = "claim" /\ Own(p, Head(x.plan)) => Unowned(p, Head(x.plan).id)
    /\ x.pc \in {"truncate", "fill"} /\ x.op = "claim" /\ Own(p, Head(x.plan)) =>
         x.base.owner \in {NoAgent, p}

AllKnown == \A i \in Ids : Exists(i) => Known(i)
Planned == \A p \in Agents : PlanOK(p, procs[p]) /\ FileKnown(procs[p])
Bare == \A i \in Ids : files[i] = NoTask => claims[i] = {}
Made == \A p \in Agents, i \in Ids :
    procs[p].pc = "created" /\ i = procs[p].high + 1 /\ files[i] = Torn(p) => claims[i] = {}
Stands == \A i \in Ids : \A a \in claims[i] : files[i].status \in Status => files[i].owner = a
Written == Stands /\ \A p \in Agents : Writes(p, procs[p])

ClaimInv ==
    /\ LockInv
    /\ AllKnown /\ Planned /\ Bare /\ Made
    /\ Fresh => Written

-----------------------------------------------------------------------------
(***************************************************************************)
(* Steps that change neither the files nor the ids nor the claims.         *)
(***************************************************************************)
LEMMA StillClaims ==
    ASSUME ClaimInv, LockInv', NEW p \in Agents, Only(p), UNCHANGED <<files, given, claims>>,
           procs'[p].pc # "created", PlanOK(p, procs'[p]), FileKnown(procs'[p]),
           Fresh => Writes(p, procs'[p])
    PROVE  ClaimInv'
<1>1. AllKnown' /\ Bare' /\ (Fresh' <=> Fresh)
  BY DEF ClaimInv, AllKnown, Exists, Known, Bare, Fresh
<1>2. Planned'
  <2>1. ASSUME NEW q \in Agents PROVE PlanOK(q, procs'[q]) /\ FileKnown(procs'[q])
    BY <2>1 DEF ClaimInv, Planned, Only
  <2>2. ASSUME NEW q \in Agents PROVE FileKnown(procs[q])'
    BY <2>1 DEF FileKnown, Known
  <2>3. ASSUME NEW q \in Agents PROVE PlanOK(q, procs[q])'
    BY <2>1 DEF PlanOK
  <2> QED BY <2>2, <2>3 DEF Planned
<1>3. Made' BY DEF ClaimInv, Made, Only
<1>4. ASSUME Fresh PROVE Written'
  <2>1. Stands' BY <1>4 DEF ClaimInv, Written, Stands
  <2>2. ASSUME NEW q \in Agents PROVE Writes(q, procs'[q])
    BY <1>4, <2>2 DEF ClaimInv, Written, Only
  <2> QED BY <2>1, <2>2 DEF Written, Writes, Unowned, Own
<1> QED BY <1>1, <1>2, <1>3, <1>4 DEF ClaimInv

\* p goes where nothing is said of it.
Quiet(x) ==
    \/ x.pc \notin {"check", "tasklock", "read", "truncate", "fill", "claimdir", "created", "files"}
    \/ x.pc \in {"check", "tasklock", "read"} /\ x.op # "claim"
    \/ x.pc = "files" /\ (x.op # "claim" \/ x.id = 0)

LEMMA QuietClaims ==
    ASSUME ClaimInv, LockInv', NEW p \in Agents, Only(p), UNCHANGED <<files, given, claims>>,
           Quiet(procs'[p])
    PROVE  ClaimInv'
<1>1. procs'[p].pc # "created" /\ PlanOK(p, procs'[p]) /\ FileKnown(procs'[p]) /\ Writes(p, procs'[p])
  BY DEF Quiet, PlanOK, FileKnown, Writes
<1> QED BY <1>1, StillClaims

LEMMA DoneQuiet ==
    ASSUME Typed, NEW p \in Agents, Done(p)
    PROVE  Only(p) /\ Quiet(procs'[p])
<1>1. Quiet(Idle) BY DEF Quiet, Idle
<1> QED BY <1>1, NextOnly DEF Done

LEMMA RunQuiet ==
    ASSUME Typed, NEW p \in Agents, NEW plan, Run(p, plan), procs[p].op # "claim"
    PROVE  Only(p) /\ Quiet(procs'[p])
<1>1. procs[p] \in Proc BY ProcType
<1>2. CASE Done(p) BY <1>2, DoneQuiet
<1>3. CASE procs' = [procs EXCEPT ![p].pc = "check", ![p].plan = plan,
                                  ![p].seen = [i \in Ids |-> NoTask], ![p].high = 0]
  <2>1. Only(p) BY <1>3 DEF Only, Typed
  <2>2. procs'[p].pc = "check" /\ procs'[p].op = procs[p].op BY <1>1, <1>3 DEF Typed, Proc
  <2> QED BY <2>1, <2>2 DEF Quiet
<1> QED BY <1>2, <1>3 DEF Run

LEMMA BeginsClaims ==
    ASSUME ClaimInv, LockInv', NEW p \in Agents, Begins(p)
    PROVE  ClaimInv'
<1>0. Typed BY DEF ClaimInv, LockInv
<1>1. ASSUME NEW x, procs' = [procs EXCEPT ![p] = x], Quiet(x), UNCHANGED <<files, given, claims>>
      PROVE  ClaimInv'
  <2>1. Only(p) /\ procs'[p] = x BY <1>0, <1>1, NextOnly
  <2> QED BY <1>1, <2>1, QuietClaims
<1>2. ASSUME NEW op, NEW pc, NEW id, Begin(p, op, pc, id), pc \in {"listlock", "dir", "edit", "mark"}
      PROVE  ClaimInv'
  <2> DEFINE x == [Idle EXCEPT !.op = op, !.pc = pc, !.id = id]
  <2>1. x.pc = pc BY DEF Idle
  <2>2. Quiet(x) BY <1>2, <2>1 DEF Quiet
  <2> HIDE DEF x
  <2>3. procs' = [procs EXCEPT ![p] = x] /\ UNCHANGED <<files, given, claims>>
    BY <1>2 DEF Begin, x
  <2> QED BY <1>1, <2>2, <2>3
<1>3. ASSUME NEW i, NEW j, BeginBlock(p, i, j) PROVE ClaimInv'
  <2> DEFINE x == [Idle EXCEPT !.op = "block", !.pc = "files", !.id = i, !.high = j, !.todo = {i, j}]
  <2>1. Quiet(x) BY DEF Idle, Quiet
  <2> HIDE DEF x
  <2>2. procs' = [procs EXCEPT ![p] = x] /\ UNCHANGED <<files, given, claims>>
    BY <1>3 DEF BeginBlock, ghosts, x
  <2> QED BY <1>1, <2>1, <2>2
<1> QED BY <1>2, <1>3 DEF Begins, BeginCreate, BeginReset, BeginClear, BeginClaim, BeginUnassign,
                          BeginEdit, BeginDelete

LEMMA PlansClaims ==
    ASSUME ClaimInv, LockInv', NEW p \in Agents,
           PlanDelete(p) \/ PlanBlock(p) \/ PlanUnassign(p) \/ PlanClear(p) \/ PlanEdit(p)
    PROVE  ClaimInv'
<1>0. Typed /\ Fit(procs[p]) BY ProcType DEF ClaimInv, LockInv
<1>1. UNCHANGED <<files, given, claims>>
  BY DEF PlanDelete, PlanBlock, PlanUnassign, PlanClear, PlanEdit, ghosts
<1>2. procs[p].op # "claim"
  BY <1>0 DEF PlanDelete, PlanBlock, PlanUnassign, PlanClear, PlanEdit, At, Fit
<1>3. Only(p) /\ Quiet(procs'[p])
  <2>1. CASE procs' = [procs EXCEPT ![p] = [Idle EXCEPT !.op = "clear", !.pc = "listlock"]]
    <3> DEFINE x == [Idle EXCEPT !.op = "clear", !.pc = "listlock"]
    <3>1. Quiet(x) BY DEF Idle, Quiet
    <3>2. Only(p) /\ procs'[p] = x BY <1>0, <2>1, NextOnly
    <3> HIDE DEF x
    <3> QED BY <3>1, <3>2
  <2>2. ASSUME PlanClear(p) PROVE Done(p) \/ procs' = [procs EXCEPT ![p] =
                                    [Idle EXCEPT !.op = "clear", !.pc = "listlock"]]
    BY <2>2 DEF PlanClear
  <2>3. (\E plan : Run(p, plan)) \/ Done(p) \/ PlanClear(p)
    BY DEF PlanDelete, PlanBlock, PlanUnassign, PlanEdit, RunEach
  <2> QED BY <1>0, <1>2, <2>1, <2>2, <2>3, RunQuiet, DoneQuiet
<1> QED BY <1>1, <1>3, QuietClaims

LEMMA ReadsClaims ==
    ASSUME ClaimInv, LockInv', NEW p \in Agents,
           ReadDir(p) \/ (\E i \in Ids : ReadFile(p, i)) \/ ClaimDir(p) \/ ChooseTask(p)
    PROVE  ClaimInv'
<1>0. Typed /\ procs[p] \in Proc /\ Fit(procs[p]) BY ProcType DEF ClaimInv, LockInv
<1>1. UNCHANGED <<files, given, claims>> BY DEF ReadDir, ReadFile, ClaimDir, ChooseTask, ghosts
<1>2. CASE ReadDir(p)
  <2> DEFINE x == [procs[p] EXCEPT !.pc = "files", !.todo = Existing, !.seen = [i \in Ids |-> NoTask]]
  <2>1. procs' = [procs EXCEPT ![p] = x] BY <1>0, <1>2 DEF ReadDir, Proc
  <2>2. Only(p) /\ procs'[p] = x BY <1>0, <2>1, NextOnly
  <2>3. x.pc = "files" /\ x.op = procs[p].op /\ x.id = procs[p].id BY <1>0 DEF Proc
  <2>4. procs[p].pc = "dir" BY <1>2 DEF ReadDir, At
  <2>5. Quiet(x) BY <1>0, <2>3, <2>4 DEF Fit, Quiet
  <2> HIDE DEF x
  <2> QED BY <1>1, <2>2, <2>5, QuietClaims
<1>3. ASSUME NEW x, procs' = [procs EXCEPT ![p] = x], x.pc = "files", x.op = procs[p].op,
             x.id = procs[p].id,
             (procs[p].pc = "claimdir" /\ procs[p].op = "claim") \/ procs[p].pc = "files"
      PROVE  ClaimInv'
  <2>1. Only(p) /\ procs'[p] = x BY <1>0, <1>3, NextOnly
  <2>2. PlanOK(p, x) /\ FileKnown(x) BY <1>3 DEF PlanOK, FileKnown
  <2>3. Fresh => Writes(p, x) BY <1>3 DEF ClaimInv, Written, Writes
  <2> QED BY <1>1, <1>3, <2>1, <2>2, <2>3, StillClaims
<1>4. ASSUME NEW i \in Ids, ReadFile(p, i) PROVE ClaimInv'
  <2> DEFINE x == [procs[p] EXCEPT !.todo = @ \ {i}, !.seen[i] = Read(i)]
  <2>1. procs' = [procs EXCEPT ![p] = x] BY <1>0, <1>4 DEF ReadFile, Proc
  <2>2. procs[p].pc = "files" BY <1>4 DEF ReadFile, At
  <2>3. x.pc = "files" /\ x.op = procs[p].op /\ x.id = procs[p].id BY <1>0, <2>2 DEF Proc
  <2> HIDE DEF x
  <2> QED BY <1>3, <2>1, <2>2, <2>3
<1>5. CASE ClaimDir(p)
  <2> DEFINE x == [procs[p] EXCEPT !.pc = "files", !.todo = Existing]
  <2>1. procs' = [procs EXCEPT ![p] = x] BY <1>0, <1>5 DEF ClaimDir, Proc
  <2>2. x.pc = "files" /\ x.op = procs[p].op /\ x.id = procs[p].id BY <1>0 DEF Proc
  <2>3. procs[p].pc = "claimdir" /\ procs[p].op = "claim" BY <1>0, <1>5 DEF ClaimDir, At, Fit
  <2> HIDE DEF x
  <2> QED BY <1>3, <2>1, <2>2, <2>3
<1>6. CASE ChooseTask(p)
  <2>1. CASE Done(p) BY <1>0, <1>1, <2>1, DoneQuiet, QuietClaims
  <2>2. ASSUME NEW i, procs' = [procs EXCEPT ![p] = [Idle EXCEPT !.op = "claim", !.id = i,
                                                                 !.pc = "claimcheck"]]
        PROVE  ClaimInv'
    <3> DEFINE x == [Idle EXCEPT !.op = "claim", !.id = i, !.pc = "claimcheck"]
    <3>1. Quiet(x) BY DEF Idle, Quiet
    <3>2. Only(p) /\ procs'[p] = x BY <1>0, <2>2, NextOnly
    <3> HIDE DEF x
    <3> QED BY <1>1, <3>1, <3>2, QuietClaims
  <2> QED BY <1>6, <2>1, <2>2 DEF ChooseTask
<1> QED BY <1>2, <1>4, <1>5, <1>6

LEMMA PairFacts ==
    ASSUME NEW a, NEW b, NEW p, ~Own(p, b)
    PROVE  Head(<<a>> \o <<b>>) = a /\ Leaves(p, Tail(<<a>> \o <<b>>))
<1> DEFINE S == {a, b}
           plan == <<a>> \o <<b>>
<1>1. <<a>> \in Seq(S) /\ <<b>> \in Seq(S) /\ Len(<<a>>) = 1 /\ Len(<<b>>) = 1
      /\ <<a>>[1] = a /\ <<b>>[1] = b
  OBVIOUS
<1> HIDE DEF S
<1>2. plan \in Seq(S) /\ Len(plan) = 2 /\ plan[1] = a /\ plan[2] = b
  BY <1>1, ConcatProperties
<1> HIDE DEF plan
<1>3. Head(plan) = a /\ Tail(plan) \in Seq(S) /\ Len(Tail(plan)) = 1 /\ Tail(plan)[1] = b
  BY <1>2, HeadTailProperties
<1>4. DOMAIN Tail(plan) = 1 .. 1 BY <1>3, LenProperties
<1>5. Leaves(p, Tail(plan)) BY <1>3, <1>4 DEF Leaves
<1> QED BY <1>3, <1>5 DEF plan

\* claimTask makes p the owner under the lock, and only then may p give it back.
LEMMA ClaimsClaims ==
    ASSUME ClaimInv, LockInv', NEW p \in Agents,
           ClaimCheck(p) \/ ClaimLock(p) \/ ClaimRead(p) \/ ClaimDecide(p)
    PROVE  ClaimInv'
<1>0. Typed /\ procs[p] \in Proc /\ Fit(procs[p]) BY ProcType DEF ClaimInv, LockInv
<1>1. UNCHANGED <<files, given, claims>>
  BY DEF ClaimCheck, ClaimLock, ClaimRead, ClaimDecide, ghosts
<1>2. CASE Done(p) BY <1>0, <1>1, <1>2, DoneQuiet, QuietClaims
<1>3. ASSUME NEW pc \in {"claimlock", "claimread"}, Goto(p, pc) PROVE ClaimInv'
  <2>1. Only(p) /\ procs'[p].pc = pc BY <1>0, <1>3, GotoMoves
  <2>2. Quiet(procs'[p]) BY <2>1 DEF Quiet
  <2> QED BY <1>1, <2>1, <2>2, QuietClaims
<1> DEFINE i == procs[p].id
<1>4. ASSUME ClaimRead(p), Claimable(p, Read(i)) PROVE ClaimInv'
  <2> DEFINE x == [procs[p] EXCEPT !.pc = "claimdir", !.base = Read(i)]
  <2>1. procs' = [procs EXCEPT ![p] = x] BY <1>0, <1>4 DEF ClaimRead, Proc
  <2>2. Only(p) /\ procs'[p] = x BY <1>0, <2>1, NextOnly
  <2>3. x.pc = "claimdir" /\ x.id = i BY <1>0 DEF Proc
  <2>4. Unowned(p, i) BY <1>4, BlankFacts DEF Claimable, Read, Unowned
  <2>5. PlanOK(p, x) /\ FileKnown(x) /\ Writes(p, x)
    BY <2>3, <2>4 DEF PlanOK, FileKnown, Writes
  <2> HIDE DEF x
  <2> QED BY <1>1, <2>2, <2>3, <2>5, StillClaims
<1>5. ASSUME NEW after \in {<<>>, <<[id |-> i, set |-> [status |-> "in_progress"]]>>,
                            <<[id |-> i, set |-> [owner |-> NoAgent]]>>},
             procs' = [procs EXCEPT ![p] =
                         [Idle EXCEPT !.op = "claim", !.pc = ClaimWrites, !.id = i,
                                      !.plan = <<[id |-> i, set |-> [owner |-> p]]>> \o after]],
             ClaimDecide(p)
      PROVE  ClaimInv'
  <2> DEFINE item == [id |-> i, set |-> [owner |-> p]]
             plan == <<item>> \o after
             x == [Idle EXCEPT !.op = "claim", !.pc = ClaimWrites, !.id = i, !.plan = plan]
  <2>1. Only(p) /\ procs'[p] = x BY <1>0, <1>5, NextOnly
  <2>2. x.pc = "read" /\ x.op = "claim" /\ x.plan = plan BY DEF ClaimWrites, Idle
  <2>3. Head(plan) = item /\ Leaves(p, Tail(plan))
    <3>1. CASE after = <<>>
      <4>1. plan = <<item>> BY <3>1
      <4> QED BY <4>1 DEF Leaves
    <3>2. ASSUME NEW b, ~Own(p, b), after = <<b>> PROVE Head(plan) = item /\ Leaves(p, Tail(plan))
      BY <3>2, PairFacts
    <3>3. ~Own(p, [id |-> i, set |-> [status |-> "in_progress"]])
          /\ ~Own(p, [id |-> i, set |-> [owner |-> NoAgent]])
      BY AgentsAssumption DEF Own
    <3> HIDE DEF plan
    <3> QED BY <1>5, <3>1, <3>2, <3>3
  <2>4. Fresh => Unowned(p, i)
    BY <1>5 DEF ClaimDecide, Listed, At, ClaimInv, Written, Writes
  <2>5. item.id = i OBVIOUS
  <2> HIDE DEF x, plan, item
  <2>6. PlanOK(p, x) /\ FileKnown(x) BY <2>2, <2>3 DEF PlanOK, FileKnown
  <2>7. Fresh => Writes(p, x) BY <2>2, <2>3, <2>4, <2>5 DEF Writes
  <2> QED BY <1>1, <2>1, <2>2, <2>6, <2>7, StillClaims
<1> QED BY <1>2, <1>3, <1>4, <1>5 DEF ClaimCheck, ClaimLock, ClaimRead, ClaimDecide

-----------------------------------------------------------------------------
(***************************************************************************)
(* Steps that write or remove a file: c is its new content, s the claims   *)
(* that stand.  Whoever else holds the file's lock must not have read it   *)
(* for an update.                                                          *)
(***************************************************************************)
LEMMA TornFacts == \A p, q : Torn(p) = Torn(q) => p = q
<1> SUFFICES ASSUME NEW p, NEW q, Torn(p) = Torn(q) PROVE p = q OBVIOUS
<1>1. Torn(p).owner = p /\ Torn(q).owner = q BY DEF Torn, Blank
<1> QED BY <1>1

LEMMA OneHolder ==
    ASSUME LockInv, NEW p \in Agents, NEW q \in Agents, NEW i \in Ids,
           HoldsTask(procs[p], i), HoldsTask(procs[q], i)
    PROVE  p = q
BY DEF LockInv, Locked, HoldsTask

Aside(q, i, c) == HoldsTask(procs[q], i) =>
    \/ c = NoTask
    \/ procs[q].pc # "truncate" /\ (c.status \in Status => c.owner = NoAgent)

LEMMA WriteClaims ==
    ASSUME ClaimInv, LockInv', NEW p \in Agents, Only(p), NEW i \in Ids, NEW c, NEW s,
           files' = [files EXCEPT ![i] = c], claims' = [claims EXCEPT ![i] = s],
           \A j \in Ids : Known(j) => Known(j)', Fresh' => Fresh,
           c # NoTask => Known(i)', c = NoTask => s = {},
           \A q \in Agents : c = Torn(q) => q = p,
           Fresh' => \A a \in s : c.status \in Status => c.owner = a,
           procs'[p].pc = "created" => procs'[p].high + 1 = i /\ s = {},
           PlanOK(p, procs'[p]), FileKnown(procs[p])', Fresh' => Writes(p, procs[p])',
           Fresh' => \A q \in Agents \ {p} : Aside(q, i, c)
    PROVE  ClaimInv'
<1>0. Typed /\ files'[i] = c /\ claims'[i] = s
      /\ \A j \in Ids : j # i => files'[j] = files[j] /\ claims'[j] = claims[j]
  BY DEF ClaimInv, LockInv, Typed, TypeOK
<1>1. AllKnown'
  <2>1. ASSUME NEW j \in Ids, j # i, Exists(j)' PROVE Known(j)'
    BY <1>0, <2>1 DEF Exists, ClaimInv, AllKnown
  <2>2. Exists(i)' => c # NoTask BY <1>0, BlankFacts DEF Exists
  <2> QED BY <2>1, <2>2 DEF AllKnown
<1>2. Bare' BY <1>0 DEF ClaimInv, Bare
<1>3. Planned'
  <2>1. ASSUME NEW q \in Agents PROVE PlanOK(q, procs'[q])
    BY <2>1 DEF ClaimInv, Planned, Only
  <2>2. ASSUME NEW q \in Agents PROVE PlanOK(q, procs[q])'
    BY <2>1 DEF PlanOK
  <2>3. ASSUME NEW q \in Agents, q # p PROVE FileKnown(procs[q])'
    <3>1. procs'[q] = procs[q] /\ FileKnown(procs[q]) BY <2>3 DEF Only, ClaimInv, Planned
    <3>2. procs[q].pc \in {"truncate", "fill"} => Head(procs[q].plan).id \in Ids
      BY <1>0, ProcType DEF At, Item
    <3> QED BY <3>1, <3>2 DEF FileKnown
  <2> QED BY <2>2, <2>3 DEF Planned
<1>4. Made'
  <2> SUFFICES ASSUME NEW q \in Agents, NEW j \in Ids, procs'[q].pc = "created",
                      j = procs'[q].high + 1, files'[j] = Torn(q)
               PROVE  claims'[j] = {}
    BY DEF Made, Torn
  <2>1. CASE q = p BY <1>0, <2>1
  <2>2. CASE q # p
    <3>1. procs'[q] = procs[q] /\ j # i BY <1>0, <2>2 DEF Only
    <3> QED BY <1>0, <3>1 DEF ClaimInv, Made
  <2> QED BY <2>1, <2>2
<1>5. ASSUME Fresh' PROVE Written'
  <2>0. Stands /\ \A q \in Agents : Writes(q, procs[q]) BY <1>5 DEF ClaimInv, Written
  <2>1. Stands' BY <1>0, <1>5, <2>0 DEF Stands
  <2>2. ASSUME NEW q \in Agents, q # p PROVE Writes(q, procs[q])'
    <3>1. procs'[q] = procs[q] /\ Writes(q, procs[q]) /\ Aside(q, i, c) BY <1>5, <2>0, <2>2 DEF Only
    <3> DEFINE j == Head(procs[q].plan).id
    <3>2. /\ procs[q].pc \in {"read", "truncate", "fill"} => j \in Ids
          /\ procs[q].pc = "claimdir" => procs[q].id \in Ids
          /\ procs[q].pc = "files" /\ procs[q].id # 0 => procs[q].id \in Ids
      BY <1>0, ProcType, BoundsAssumption DEF At, Item, Fit, Proc, Ids
    <3>3. (procs[q].pc = "truncate" => files[j] \in {procs[q].base, NoTask})' 
      <4>1. ASSUME procs[q].pc = "truncate", j = i PROVE c = NoTask
        BY <3>1, <4>1 DEF Aside, HoldsTask
      <4> QED BY <1>0, <3>1, <3>2, <4>1 DEF Writes
    <3>4. (procs[q].pc = "fill" /\ files[j] = Torn(q) => \A a \in claims[j] : procs[q].base.owner = a)'
      <4>1. ASSUME procs[q].pc = "fill", files'[j] = Torn(q) PROVE j # i
        BY <1>0, <2>2, <4>1
      <4> QED BY <1>0, <3>1, <3>2, <4>1 DEF Writes, Torn
    <3>5. ASSUME NEW k \in Ids, HoldsTask(procs[q], k), Unowned(q, k) PROVE Unowned(q, k)'
      BY <1>0, <3>1, <3>5, BlankFacts DEF Unowned, Aside
    <3>6. (procs[q].pc = "claimdir" \/ (procs[q].pc = "files" /\ procs[q].op = "claim" /\ procs[q].id # 0)
             => Unowned(q, procs[q].id))'
      BY <3>1, <3>2, <3>5 DEF Writes, HoldsTask
    <3>7. (procs[q].pc = "read" /\ procs[q].op = "claim" /\ Own(q, Head(procs[q].plan)) => Unowned(q, j))'
      BY <3>1, <3>2, <3>5 DEF Writes, HoldsTask, Own
    <3>8. (procs[q].pc \in {"truncate", "fill"} /\ procs[q].op = "claim" /\ Own(q, Head(procs[q].plan)) =>
             procs[q].base.owner \in {NoAgent, q})'
      BY <3>1 DEF Writes, Own
    <3> QED BY <3>3, <3>4, <3>6, <3>7, <3>8 DEF Writes
  <2> QED BY <1>5, <2>1, <2>2 DEF Written
<1> QED BY <1>1, <1>2, <1>3, <1>4, <1>5 DEF ClaimInv

-----------------------------------------------------------------------------
LEMMA GotoQuiet ==
    ASSUME Typed, NEW p \in Agents, NEW pc, Goto(p, pc),
           pc \notin {"check", "tasklock", "read", "truncate", "fill", "claimdir", "created", "files"}
    PROVE  Only(p) /\ Quiet(procs'[p])
BY GotoMoves DEF Quiet

LEMMA UnlinkClaims ==
    ASSUME ClaimInv, LockInv', NEW p \in Agents, Only(p), Quiet(procs'[p]), NEW i \in Ids,
           Unlink(i), given' = given
    PROVE  ClaimInv'
<1>1. procs'[p].pc # "created" /\ PlanOK(p, procs'[p]) BY DEF Quiet, PlanOK
<1>2. FileKnown(procs[p])' /\ Writes(p, procs[p])' BY DEF Quiet, FileKnown, Writes
<1>3. (\A j \in Ids : Known(j) => Known(j)') /\ (Fresh' => Fresh) BY DEF Known, Fresh
<1> DEFINE c == NoTask
           s == {}
<1>4. (\A q \in Agents : c = Torn(q) => q = p) /\ (\A q \in Agents \ {p} : Aside(q, i, c))
  BY BlankFacts DEF Aside
<1>5. files' = [files EXCEPT ![i] = c] /\ claims' = [claims EXCEPT ![i] = s] BY DEF Unlink
<1>6. /\ c # NoTask => Known(i)'
      /\ c = NoTask => s = {}
      /\ \A a \in s : c.status \in Status => c.owner = a
  OBVIOUS
<1> HIDE DEF c, s
<1> QED BY <1>1, <1>2, <1>3, <1>4, <1>5, <1>6, WriteClaims

\* A new task: its id is in no file and in no update.
LEMMA CreateClaims ==
    ASSUME ClaimInv, LockInv', NEW p \in Agents, CreateFile(p)
    PROVE  ClaimInv'
<1>0. Typed /\ procs[p] \in Proc /\ Fit(procs[p]) BY ProcType DEF ClaimInv, LockInv
<1>1. procs[p].high + 1 \in Ids BY <1>0, BoundsAssumption DEF CreateFile, Proc, Ids
<1> SUFFICES ASSUME NEW i \in Ids, i = procs[p].high + 1 PROVE ClaimInv'
  BY <1>1
<1> DEFINE c == Torn(p)
           s == {}
<1>2. given \in Seq(Ids) /\ given' = Append(given, i)
  BY <1>0 DEF CreateFile, Typed, TypeOK
<1>3. /\ DOMAIN given = 1 .. Len(given) /\ DOMAIN given' = 1 .. Len(given) + 1
      /\ Len(given) \in Nat /\ given'[Len(given) + 1] = i
      /\ \A n \in DOMAIN given : given'[n] = given[n]
  BY <1>1, <1>2, AppendProperties, LenProperties
<1>4. (\A j \in Ids : Known(j) => Known(j)') /\ Known(i)' /\ (Fresh' => Fresh)
  BY <1>3 DEF Known, Fresh
<1>5. ASSUME Fresh' PROVE ~Known(i)
  BY <1>3, <1>5 DEF Known, Fresh
<1>6. Only(p) /\ procs'[p].pc = "created" /\ procs'[p].high + 1 = i
  BY <1>0, GotoMoves DEF CreateFile
<1>7. PlanOK(p, procs'[p]) BY <1>6 DEF PlanOK
<1>8. FileKnown(procs[p])' /\ Writes(p, procs[p])' BY <1>6 DEF FileKnown, Writes
<1>9. ASSUME Fresh', NEW q \in Agents \ {p} PROVE Aside(q, i, c)
  <2>1. FileKnown(procs[q]) BY DEF ClaimInv, Planned
  <2>2. HoldsTask(procs[q], i) => procs[q].pc # "truncate"
    BY <1>5, <1>9, <2>1 DEF HoldsTask, FileKnown
  <2> QED BY <2>2, BlankFacts DEF Aside
<1>10. c # NoTask /\ c.status \notin Status /\ s = {} BY BlankFacts
<1>11. files' = [files EXCEPT ![i] = c] /\ claims' = [claims EXCEPT ![i] = s]
  BY DEF CreateFile
<1>12. \A q \in Agents : c = Torn(q) => q = p BY TornFacts
<1> HIDE DEF c, s
<1> QED BY <1>12, <1>4, <1>6, <1>7, <1>8, <1>9, <1>10, <1>11, WriteClaims

LEMMA FilledClaims ==
    ASSUME ClaimInv, LockInv', NEW p \in Agents, CreateFill(p)
    PROVE  ClaimInv'
<1>0. Typed /\ procs[p] \in Proc /\ Fit(procs[p]) BY ProcType DEF ClaimInv, LockInv
<1>1. Only(p) /\ Quiet(procs'[p]) BY <1>0, DoneQuiet DEF CreateFill
<1>2. given' = given /\ claims' = claims BY DEF CreateFill, ghosts
<1>3. ASSUME NEW i \in Ids, i = procs[p].high + 1, files[i] = Torn(p) PROVE ClaimInv'
  <2>1. files' = [files EXCEPT ![i] = Blank] BY <1>3 DEF CreateFill
  <2>2. claims[i] = {} BY <1>3 DEF ClaimInv, Made, CreateFill, At
  <2> DEFINE s == {}
  <2>3. claims' = [claims EXCEPT ![i] = s] BY <1>0, <1>2, <1>3, <2>2 DEF Typed, TypeOK
  <2>4. procs'[p].pc # "created" /\ PlanOK(p, procs'[p]) BY <1>1 DEF Quiet, PlanOK
  <2>5. FileKnown(procs[p])' /\ Writes(p, procs[p])' BY <1>1 DEF Quiet, FileKnown, Writes
  <2>6. (\A j \in Ids : Known(j) => Known(j)') /\ (Fresh' <=> Fresh) BY <1>2 DEF Known, Fresh
  <2>7. Known(i)' BY <1>3, <2>6, BlankFacts DEF ClaimInv, AllKnown, Exists
  <2> DEFINE c == Blank
  <2>8. c # NoTask /\ \A q \in Agents : c = Torn(q) => q = p BY BlankFacts
  <2>9. ASSUME Fresh', NEW q \in Agents \ {p} PROVE Aside(q, i, c)
    <3>1. Writes(q, procs[q]) /\ Fit(procs[q])
      BY <1>0, <2>6, <2>9, ProcType DEF ClaimInv, Written
    <3>2. HoldsTask(procs[q], i) => procs[q].pc # "truncate"
      BY <1>3, <3>1, BlankFacts DEF HoldsTask, Writes, Fit
    <3> QED BY <3>2, BlankFacts DEF Aside
  <2>10. /\ s = {} /\ files' = [files EXCEPT ![i] = c]
         /\ \A a \in s : c.status \in Status => c.owner = a
    BY <2>1
  <2> HIDE DEF c, s
  <2> QED BY <1>1, <2>3, <2>4, <2>5, <2>6, <2>7, <2>8, <2>9, <2>10, WriteClaims
<1> DEFINE i == procs[p].high + 1
<1>4. CASE ~(i \in Ids /\ files[i] = Torn(p))
  <2>1. files' = files
    BY <1>0, <1>4 DEF CreateFill, Typed, TypeOK
  <2> QED BY <1>1, <1>2, <2>1, QuietClaims
<1> QED BY <1>3, <1>4

LEMMA CreatesClaims ==
    ASSUME ClaimInv, LockInv', NEW p \in Agents, Creates(p)
    PROVE  ClaimInv'
<1>0. Typed /\ procs[p] \in Proc /\ Fit(procs[p]) BY ProcType DEF ClaimInv, LockInv
<1>1. ASSUME NEW pc, Goto(p, pc), UNCHANGED <<files, given, claims>>,
             pc \in {"scan", "scanfiles", "scanmark", "create", "high", "mark", "marktruncate",
                     "markfill", "removals", "unlink", "dir"}
      PROVE  ClaimInv'
  BY <1>0, <1>1, GotoQuiet, QuietClaims
<1>2. ASSUME NEW x, procs' = [procs EXCEPT ![p] = x], UNCHANGED <<files, given, claims>>,
             x.pc \in {"scanfiles", "scanmark", "create", "mark", "removals", "removing"}
      PROVE  ClaimInv'
  <2>1. Only(p) /\ procs'[p] = x BY <1>0, <1>2, NextOnly
  <2>2. Quiet(x) BY <1>2 DEF Quiet
  <2> QED BY <1>2, <2>1, <2>2, QuietClaims
<1>3. ASSUME NEW pc \in {"scanfiles", "scanmark", "create", "mark", "removals"}, NEW h,
             procs' = [procs EXCEPT ![p].high = h, ![p].pc = pc], UNCHANGED <<files, given, claims>>
      PROVE  ClaimInv'
  <2> DEFINE x == [procs[p] EXCEPT !.high = h, !.pc = pc]
  <2>1. x.pc = pc BY <1>0 DEF Proc
  <2>2. procs' = [procs EXCEPT ![p] = x] BY <1>0, <1>3 DEF Proc
  <2> HIDE DEF x
  <2> QED BY <1>2, <1>3, <2>1, <2>2
<1>4. CASE LockList(p)
  <2> DEFINE pc == IF procs[p].op = "create" THEN "scan" ELSE "high"
  <2>1. Goto(p, pc) /\ UNCHANGED <<files, given, claims>> BY <1>4 DEF LockList, ghosts
  <2>2. pc \in {"scan", "high"} OBVIOUS
  <2> HIDE DEF pc
  <2>3. \E c : c = pc /\ Goto(p, c) BY <2>1
  <2> QED BY <1>1, <2>1, <2>2, <2>3
<1>5. CASE ScanFiles(p)
  <2>1. PICK h \in 0 .. MaxTasks :
          procs' = [procs EXCEPT ![p].high = AtLeast(@, h),
                                 ![p].pc = IF @ = "scan" THEN "scanmark" ELSE "create"]
    BY <1>5 DEF ScanFiles
  <2>2. UNCHANGED <<files, given, claims>> BY <1>5 DEF ScanFiles, ghosts
  <2>3. procs' = [procs EXCEPT ![p].high = AtLeast(procs[p].high, h),
                               ![p].pc = IF procs[p].pc = "scan" THEN "scanmark" ELSE "create"]
    BY <1>0, <2>1 DEF Proc
  <2>4. PICK k : \E pc \in {"scanmark", "create"} :
          procs' = [procs EXCEPT ![p].high = k, ![p].pc = pc]
    BY <2>3
  <2> QED BY <1>3, <2>2, <2>4
<1>6. CASE ScanMark(p)
  <2>1. procs' = [procs EXCEPT ![p].high = AtLeast(procs[p].high, ReadMark),
                               ![p].pc = IF procs[p].pc = "scan" THEN "scanfiles" ELSE "create"]
    BY <1>0, <1>6 DEF ScanMark, Proc
  <2>2. UNCHANGED <<files, given, claims>> BY <1>6 DEF ScanMark, ghosts
  <2>3. PICK k : \E pc \in {"scanfiles", "create"} :
          procs' = [procs EXCEPT ![p].high = k, ![p].pc = pc]
    BY <2>1
  <2> QED BY <1>3, <2>2, <2>3
<1>7. CASE ResetHigh(p)
  <2>1. PICK h \in 0 .. MaxTasks :
          procs' = [procs EXCEPT ![p].high = h, ![p].pc = IF h > 0 THEN "mark" ELSE "removals"]
    BY <1>7 DEF ResetHigh
  <2>2. UNCHANGED <<files, given, claims>> BY <1>7 DEF ResetHigh, ghosts
  <2>3. PICK pc \in {"mark", "removals"} : procs' = [procs EXCEPT ![p].high = h, ![p].pc = pc]
    BY <2>1
  <2> QED BY <1>3, <2>2, <2>3
<1>8. CASE CheckMark(p) \/ TruncateMark(p) \/ FillMark(p)
  <2>1. UNCHANGED <<files, given, claims>> BY <1>8 DEF CheckMark, TruncateMark, FillMark, ghosts
  <2>2. \E pc \in {"marktruncate", "markfill", "removals", "unlink"} : Goto(p, pc)
    BY <1>8 DEF CheckMark, TruncateMark, FillMark, AfterMark
  <2> QED BY <1>1, <2>1, <2>2
<1>9. CASE ListRemovals(p)
  <2> DEFINE x == [procs[p] EXCEPT !.todo = Existing, !.pc = "removing"]
  <2>1. procs' = [procs EXCEPT ![p] = x] BY <1>0, <1>9 DEF ListRemovals, Proc
  <2>2. x.pc = "removing" BY <1>0 DEF Proc
  <2>3. UNCHANGED <<files, given, claims>> BY <1>9 DEF ListRemovals, ghosts
  <2> HIDE DEF x
  <2>4. PICK y : y = x OBVIOUS
  <2> QED BY <1>2, <2>1, <2>2, <2>3, <2>4
<1>10. CASE RemoveNext(p)
  <2>1. CASE procs[p].todo = {}
    <3>1. Done(p) /\ UNCHANGED <<files, given, claims>> BY <1>10, <2>1 DEF RemoveNext
    <3> QED BY <1>0, <3>1, DoneQuiet, QuietClaims
  <2>2. CASE procs[p].todo # {}
    <3>1. PICK i \in procs[p].todo :
            Unlink(i) /\ procs' = [procs EXCEPT ![p].todo = @ \ {i}]
      BY <1>10, <2>2 DEF RemoveNext
    <3> DEFINE x == [procs[p] EXCEPT !.todo = @ \ {i}]
    <3>2. procs' = [procs EXCEPT ![p] = x] BY <1>0, <3>1 DEF Proc
    <3>3. x.pc = "removing" /\ i \in Ids BY <1>0, <1>10 DEF RemoveNext, At, Proc
    <3>4. Only(p) /\ procs'[p] = x BY <1>0, <3>2, NextOnly
    <3>5. Quiet(x) BY <3>3 DEF Quiet
    <3>6. given' = given BY <1>10 DEF RemoveNext
    <3> HIDE DEF x
    <3> QED BY <3>1, <3>3, <3>4, <3>5, <3>6, UnlinkClaims
  <2> QED BY <2>1, <2>2
<1>11. CASE DeleteFile(p)
  <2>1. procs[p].id \in Ids /\ given' = given BY <1>0, <1>11 DEF DeleteFile, At, Fit
  <2>2. CASE Unlink(procs[p].id) /\ Goto(p, "dir")
    <3>1. PICK i \in Ids : Unlink(i) BY <2>1, <2>2 DEF Unlink
    <3>2. Only(p) /\ Quiet(procs'[p]) BY <1>0, <2>2, GotoQuiet
    <3> QED BY <2>1, <3>1, <3>2, UnlinkClaims
  <2>3. CASE Done(p) /\ UNCHANGED <<files, claims>>
    BY <1>0, <2>1, <2>3, DoneQuiet, QuietClaims
  <2> QED BY <1>11, <2>2, <2>3 DEF DeleteFile
<1> QED BY <1>4, <1>5, <1>6, <1>7, <1>8, <1>9, <1>10, <1>11, CreateClaims, FilledClaims DEF Creates

-----------------------------------------------------------------------------
(***************************************************************************)
(* updateTask.                                                             *)
(***************************************************************************)
LEMMA LeavesRest ==
    ASSUME NEW p, NEW plan \in Plans, plan # <<>>, Leaves(p, plan)
    PROVE  ~Own(p, Head(plan)) /\ Leaves(p, Tail(plan))
<1>1. /\ Head(plan) = plan[1] /\ Len(plan) \in Nat /\ Len(plan) > 0
      /\ DOMAIN plan = 1 .. Len(plan)
  BY PlanFacts, LenProperties DEF Plans
<1>2. /\ Tail(plan) \in Plans /\ Len(Tail(plan)) = Len(plan) - 1
      /\ \A n \in 1 .. Len(Tail(plan)) : Tail(plan)[n] = plan[n + 1]
  BY HeadTailProperties DEF Plans
<1>3. DOMAIN Tail(plan) = 1 .. Len(Tail(plan)) BY <1>2, LenProperties DEF Plans
<1>4. \A n \in DOMAIN Tail(plan) : ~Own(p, Tail(plan)[n])
  BY <1>1, <1>2, <1>3 DEF Leaves
<1> QED BY <1>1, <1>4 DEF Leaves

\* The next item of the plan: the claim, if it was one, is made.
LEMMA NextItemPlans ==
    ASSUME Typed, NEW p \in Agents, NextItem(p),
           procs[p].op = "claim" => Leaves(p, Tail(procs[p].plan))
    PROVE  /\ Only(p) /\ procs'[p].pc \in {"idle", "check"}
           /\ PlanOK(p, procs'[p])
<1>0. procs[p] \in Proc BY ProcType
<1>1. CASE Done(p)
  <2>1. Only(p) /\ procs'[p] = Idle BY <1>1, NextOnly DEF Done
  <2>2. Idle.pc = "idle" BY DEF Idle
  <2> HIDE DEF Idle
  <2> QED BY <2>1, <2>2 DEF PlanOK
<1>2. CASE procs' = [procs EXCEPT ![p].plan = Tail(@), ![p].pc = "check", ![p].base = NoTask]
  <2> DEFINE x == [procs[p] EXCEPT !.plan = Tail(@), !.pc = "check", !.base = NoTask]
  <2>1. procs' = [procs EXCEPT ![p] = x] BY <1>0, <1>2 DEF Proc
  <2>2. x.pc = "check" /\ x.op = procs[p].op /\ x.plan = Tail(procs[p].plan) BY <1>0 DEF Proc
  <2>3. Only(p) /\ procs'[p] = x BY <2>1, NextOnly
  <2> HIDE DEF x
  <2> QED BY <2>2, <2>3 DEF PlanOK
<1> QED BY <1>1, <1>2 DEF NextItem

LEMMA NextItemClaims ==
    ASSUME ClaimInv, LockInv', NEW p \in Agents, NextItem(p), UNCHANGED <<files, given, claims>>,
           procs[p].op = "claim" => Leaves(p, Tail(procs[p].plan))
    PROVE  ClaimInv'
<1>1. Typed BY DEF ClaimInv, LockInv
<1>2. Only(p) /\ procs'[p].pc \in {"idle", "check"} /\ PlanOK(p, procs'[p])
  BY <1>1, NextItemPlans
<1>3. FileKnown(procs'[p]) /\ Writes(p, procs'[p]) BY <1>2 DEF FileKnown, Writes
<1> QED BY <1>2, <1>3, StillClaims

LEMMA ReadyClaims ==
    ASSUME ClaimInv, LockInv', NEW p \in Agents, CheckTask(p) \/ LockTask(p) \/ ReadTask(p)
    PROVE  ClaimInv'
<1>0. Typed /\ procs[p] \in Proc /\ Fit(procs[p]) /\ procs[p].plan \in Plans /\ PlanOK(p, procs[p])
  BY ProcType DEF ClaimInv, LockInv, Planned
<1>1. UNCHANGED <<files, given, claims>> BY DEF CheckTask, LockTask, ReadTask, ghosts
<1>2. procs[p].plan # <<>> BY <1>0 DEF CheckTask, LockTask, ReadTask, At, Fit
<1>3. CASE CheckTask(p)
  <2>1. procs[p].op = "claim" => Leaves(p, procs[p].plan) /\ Leaves(p, Tail(procs[p].plan))
    BY <1>0, <1>2, <1>3, LeavesRest DEF CheckTask, At, PlanOK
  <2>2. CASE Goto(p, "tasklock")
    <3>1. Only(p) /\ procs'[p].pc = "tasklock" /\ procs'[p].op = procs[p].op
          /\ procs'[p].plan = procs[p].plan
      BY <1>0, <2>2, GotoMoves
    <3>2. PlanOK(p, procs'[p]) /\ FileKnown(procs'[p]) /\ Writes(p, procs'[p])
      BY <2>1, <3>1 DEF PlanOK, FileKnown, Writes
    <3> QED BY <1>1, <3>1, <3>2, StillClaims
  <2> QED BY <1>1, <1>3, <2>1, <2>2, NextItemClaims DEF CheckTask
<1>4. CASE LockTask(p)
  <2>1. procs[p].op = "claim" => ~Own(p, Head(procs[p].plan)) /\ Leaves(p, Tail(procs[p].plan))
    BY <1>0, <1>2, <1>4, LeavesRest DEF LockTask, At, PlanOK
  <2>2. CASE Goto(p, "read")
    <3>1. Only(p) /\ procs'[p].pc = "read" /\ procs'[p].op = procs[p].op
          /\ procs'[p].plan = procs[p].plan
      BY <1>0, <2>2, GotoMoves
    <3>2. PlanOK(p, procs'[p]) /\ FileKnown(procs'[p]) /\ Writes(p, procs'[p])
      BY <2>1, <3>1 DEF PlanOK, FileKnown, Writes
    <3> QED BY <1>1, <3>1, <3>2, StillClaims
  <2> QED BY <1>0, <1>1, <1>4, <2>2, DoneQuiet, QuietClaims DEF LockTask
<1>5. CASE ReadTask(p)
  <2> DEFINE i == Item(p).id
  <2>1. procs[p].pc = "read" /\ i \in Ids BY <1>5, <1>0, ProcType DEF ReadTask, At
  <2>2. procs[p].op = "claim" => Leaves(p, Tail(procs[p].plan)) BY <1>0, <2>1 DEF PlanOK
  <2>3. CASE Read(i) = NoTask
    <3>1. NextItem(p) BY <1>5, <2>3 DEF ReadTask
    <3> QED BY <1>1, <2>2, <3>1, NextItemClaims
  <2>4. CASE Read(i) # NoTask
    <3> DEFINE x == [procs[p] EXCEPT !.pc = "truncate", !.base = Read(i)]
    <3>1. procs' = [procs EXCEPT ![p] = x] BY <1>0, <1>5, <2>4 DEF ReadTask, Proc
    <3>2. x.pc = "truncate" /\ x.base = Read(i) /\ x.op = procs[p].op /\ x.plan = procs[p].plan
      BY <1>0 DEF Proc
    <3>3. Only(p) /\ procs'[p] = x BY <1>0, <3>1, NextOnly
    <3>4. files[i] = Read(i) /\ Read(i).status \in Status /\ Known(i)
      BY <2>1, <2>4, BlankFacts DEF Read, Exists, ClaimInv, AllKnown
    <3> HIDE DEF x
    <3>5. PlanOK(p, x) /\ FileKnown(x) BY <2>2, <3>2, <3>4 DEF PlanOK, FileKnown, Item
    <3>6. ASSUME Fresh PROVE Writes(p, x)
      <4>1. procs[p].op = "claim" /\ Own(p, Head(procs[p].plan)) => Unowned(p, i)
        BY <2>1, <3>6 DEF ClaimInv, Written, Writes, Item
      <4> QED BY <3>2, <3>4, <4>1 DEF Writes, Unowned, Item
    <3> QED BY <1>1, <3>2, <3>3, <3>5, <3>6, StillClaims
  <2> QED BY <2>3, <2>4
<1> QED BY <1>3, <1>4, <1>5

\* Whoever else is about the file does not hold its lock.
LEMMA AllAside ==
    ASSUME LockInv, NEW p \in Agents, NEW i \in Ids, HoldsTask(procs[p], i), NEW c
    PROVE  \A q \in Agents \ {p} : Aside(q, i, c)
BY OneHolder DEF Aside

LEMMA TruncateClaims ==
    ASSUME ClaimInv, LockInv', NEW p \in Agents, TruncateTask(p)
    PROVE  ClaimInv'
<1>0. Typed /\ Fit(procs[p]) /\ PlanOK(p, procs[p]) /\ FileKnown(procs[p])
  BY ProcType DEF ClaimInv, LockInv, Planned
<1>1. procs[p].pc = "truncate" /\ Item(p).id \in Ids /\ procs[p].base \in Task
  BY <1>0, ProcType DEF TruncateTask, At, Fit
<1> SUFFICES ASSUME NEW i \in Ids, i = Item(p).id, NEW s, s = claims[i] PROVE ClaimInv'
  BY <1>1
<1> DEFINE c == Torn(p)
<1>2. files' = [files EXCEPT ![i] = c] BY DEF TruncateTask
<1>3. given' = given /\ claims' = [claims EXCEPT ![i] = s]
  BY <1>0 DEF TruncateTask, ghosts, Typed, TypeOK
<1>4. /\ Only(p) /\ procs'[p].pc = "fill" /\ procs'[p].op = procs[p].op
      /\ procs'[p].plan = procs[p].plan /\ procs'[p].base = procs[p].base
  BY <1>0, GotoMoves DEF TruncateTask
<1>5. (\A j \in Ids : Known(j) => Known(j)') /\ (Fresh' => Fresh) BY <1>3 DEF Known, Fresh
<1>6. Known(i)' BY <1>0, <1>1, <1>3 DEF FileKnown, Known, Item
<1>7. c.status \notin Status /\ c # NoTask /\ \A q \in Agents : c = Torn(q) => q = p
  BY BlankFacts, TornFacts
<1>8. PlanOK(p, procs'[p]) BY <1>0, <1>1, <1>4 DEF PlanOK
<1>9. FileKnown(procs[p])' BY <1>4, <1>6 DEF FileKnown, Item
<1>10. ASSUME Fresh' PROVE Writes(p, procs[p])'
  <2>1. Stands /\ Writes(p, procs[p]) /\ Bare BY <1>5, <1>10 DEF ClaimInv, Written
  <2>2. files[i] \in {procs[p].base, NoTask} BY <1>1, <2>1 DEF Writes, Item
  <2>3. \A a \in s : procs[p].base.owner = a
    BY <1>1, <2>1, <2>2, BlankFacts DEF Stands, Bare
  <2>4. claims'[i] = s BY <1>0, <1>3 DEF Typed, TypeOK
  <2>5. procs[p].op = "claim" /\ Own(p, Head(procs[p].plan)) => procs[p].base.owner \in {NoAgent, p}
    BY <1>1, <2>1 DEF Writes
  <2>6. Head(procs'[p].plan).id = i BY <1>4 DEF Item
  <2> QED BY <1>4, <2>3, <2>4, <2>5, <2>6 DEF Writes, Own
<1>11. \A q \in Agents \ {p} : Aside(q, i, c)
  BY <1>1, AllAside DEF ClaimInv, HoldsTask, Item
<1>12. /\ \A a \in s : c.status \in Status => c.owner = a
       /\ c = NoTask => s = {}
  BY <1>7
<1> HIDE DEF c
<1> QED BY <1>2, <1>3, <1>4, <1>5, <1>6, <1>7, <1>8, <1>9, <1>10, <1>11, <1>12, WriteClaims

\* What is written has the owner the standing claims speak of.
LEMMA FillClaims ==
    ASSUME ClaimInv, LockInv', NEW p \in Agents, FillTask(p)
    PROVE  ClaimInv'
<1>0. Typed /\ Fit(procs[p]) /\ PlanOK(p, procs[p]) /\ FileKnown(procs[p])
  BY ProcType DEF ClaimInv, LockInv, Planned
<1>1. procs[p].pc = "fill" /\ Item(p) \in [id : Ids, set : Patch] /\ procs[p].base \in Task
  BY <1>0, ProcType DEF FillTask, At, Fit
<1>2. procs[p].op = "claim" => Leaves(p, Tail(procs[p].plan)) BY <1>0, <1>1 DEF PlanOK
<1>3. NextItem(p) /\ given' = given BY DEF FillTask
<1>4. CASE files[Item(p).id] # Torn(p)
  BY <1>2, <1>3, <1>4, NextItemClaims DEF FillTask
<1>5. ASSUME NEW i \in Ids, i = Item(p).id, files[i] = Torn(p), NEW s, s = Standing(p, i),
             NEW c, c = Apply(procs[p].base, Item(p).set)
      PROVE  ClaimInv'
  <2>1. files' = [files EXCEPT ![i] = c] /\ claims' = [claims EXCEPT ![i] = s]
    BY <1>5 DEF FillTask
  <2>2. Only(p) /\ procs'[p].pc \in {"idle", "check"} /\ PlanOK(p, procs'[p])
    BY <1>0, <1>2, <1>3, NextItemPlans
  <2>3. FileKnown(procs[p])' /\ Writes(p, procs[p])' BY <2>2 DEF FileKnown, Writes
  <2>4. (\A j \in Ids : Known(j) => Known(j)') /\ (Fresh' => Fresh) BY <1>3 DEF Known, Fresh
  <2>5. Known(i)' BY <1>0, <1>1, <1>3, <1>5 DEF FileKnown, Known, Item
  <2>6. c \in Task BY <1>1, <1>5, ApplyType
  <2>7. c # NoTask /\ \A q \in Agents : c # Torn(q) BY <2>6, BlankFacts
  <2>8. c.owner = IF "owner" \in DOMAIN Item(p).set THEN Item(p).set.owner ELSE procs[p].base.owner
    <3>1. "owner" \in DOMAIN procs[p].base BY <1>1 DEF Task
    <3> QED BY <1>5, <3>1 DEF Apply
  <2>9. ASSUME Fresh PROVE \A a \in s : c.owner = a
    <3>1. Writes(p, procs[p]) BY <2>9 DEF ClaimInv, Written
    <3>2. \A a \in claims[i] : procs[p].base.owner = a BY <1>1, <1>5, <3>1 DEF Writes, Item
    <3>3. CASE "owner" \notin DOMAIN Item(p).set BY <1>5, <2>8, <3>2, <3>3 DEF Standing
    <3>4. CASE "owner" \in DOMAIN Item(p).set /\ Item(p).set.owner = p /\ procs[p].op = "claim"
      <4>1. procs[p].base.owner \in {NoAgent, p} BY <1>1, <3>1, <3>4 DEF Writes, Own, Item
      <4>2. claims[i] \subseteq Agents BY <1>0 DEF Typed, TypeOK
      <4>3. \A a \in claims[i] : a = p BY <3>2, <4>1, <4>2, AgentsAssumption
      <4> QED BY <1>5, <2>8, <3>4, <4>3 DEF Standing
    <3>5. CASE "owner" \in DOMAIN Item(p).set /\ ~(Item(p).set.owner = p /\ procs[p].op = "claim")
      BY <1>5, <3>5 DEF Standing
    <3> QED BY <3>3, <3>4, <3>5
  <2>10. \A q \in Agents \ {p} : Aside(q, i, c)
    BY <1>1, <1>5, AllAside DEF ClaimInv, HoldsTask, Item
  <2> QED BY <2>1, <2>2, <2>3, <2>4, <2>5, <2>7, <2>9, <2>10, WriteClaims
<1> QED BY <1>1, <1>4, <1>5

LEMMA EndsClaims ==
    ASSUME ClaimInv, LockInv', NEW p \in Agents, GiveUp(p) \/ Crash(p)
    PROVE  ClaimInv'
<1>0. Typed BY DEF ClaimInv, LockInv
<1>1. UNCHANGED <<files, given, claims>> BY DEF GiveUp, Crash, ghosts
<1>2. Only(p) /\ Quiet(procs'[p]) BY <1>0, DoneQuiet, GotoQuiet DEF GiveUp, Crash
<1> QED BY <1>1, <1>2, QuietClaims

-----------------------------------------------------------------------------
LEMMA InitClaims == Init => ClaimInv
<1> SUFFICES ASSUME Init PROVE ClaimInv OBVIOUS
<1>0. LockInv BY InitLocked
<1>1. \A p \in Agents : procs[p] = Idle BY DEF Init
<1>2. Idle.pc = "idle" BY DEF Idle
<1> HIDE DEF Idle
<1>3. Planned /\ Made BY <1>1, <1>2 DEF Planned, PlanOK, FileKnown, Made
<1>4. \A p \in Agents : Writes(p, procs[p]) BY <1>1, <1>2 DEF Writes
<1>5. \A i \in Ids : claims[i] = {} BY DEF Init
<1>6. AllKnown
  <2>1. PICK n \in 0 .. MaxTasks :
          given = [i \in 1 .. n |-> i] /\ \A i \in Ids : i > n => files[i] = NoTask
    BY DEF Init
  <2>2. ASSUME NEW i \in Ids, Exists(i) PROVE Known(i)
    <3>1. ~(i > n) BY <2>1, <2>2, BlankFacts DEF Exists
    <3>2. i \in 1 .. n BY <2>1, <3>1, BoundsAssumption DEF Ids
    <3>3. i \in DOMAIN given /\ given[i] = i BY <2>1, <3>2
    <3> QED BY <3>3 DEF Known
  <2> QED BY <2>2 DEF AllKnown
<1> QED BY <1>0, <1>3, <1>4, <1>5, <1>6 DEF ClaimInv, Bare, Stands, Written

LEMMA NextClaims == ClaimInv /\ [Next]_vars => ClaimInv'
<1> SUFFICES ASSUME ClaimInv, [Next]_vars PROVE ClaimInv' OBVIOUS
<1>0. LockInv' BY NextLocked DEF ClaimInv
<1>1. CASE UNCHANGED vars
  <2>1. UNCHANGED <<files, given, claims, procs>> BY <1>1 DEF vars, ghosts
  <2>2. (Fresh' <=> Fresh) /\ AllKnown' /\ Planned' /\ Bare' /\ Made'
    BY <2>1 DEF Fresh, ClaimInv, AllKnown, Exists, Known, Planned, PlanOK, FileKnown, Bare, Made
  <2>3. Written => Written' BY <2>1 DEF Written, Stands, Writes, Unowned, Own
  <2> QED BY <1>0, <2>2, <2>3 DEF ClaimInv
<1>2. ASSUME NEW p \in Agents, Updates(p) PROVE ClaimInv'
  BY <1>0, <1>2, ReadyClaims, TruncateClaims, FillClaims DEF Updates
<1>3. ASSUME NEW p \in Agents, Lists(p) PROVE ClaimInv'
  BY <1>0, <1>3, ReadsClaims, PlansClaims, ClaimsClaims DEF Lists
<1> QED BY <1>0, <1>1, <1>2, <1>3, BeginsClaims, CreatesClaims, EndsClaims DEF Next

LEMMA AlwaysClaims == Spec => []ClaimInv
BY InitClaims, NextClaims, PTL DEF Spec

(***************************************************************************)
(* updateTaskUnsafe, which writes back all that it has read, loses no      *)
(* other update while ids are given once.                                  *)
(***************************************************************************)
THEOREM UpdatesKept == Spec => []NoLostUpdate
<1>1. ClaimInv => NoLostUpdate
  BY DEF ClaimInv, Written, Writes, NoLostUpdate, At, Item
<1> QED BY <1>1, AlwaysClaims, PTL

(***************************************************************************)
(* While ids are given once, a task claimTask gave to an agent stays its   *)
(* own until the task is removed or somebody changes the owner.            *)
(***************************************************************************)
THEOREM ClaimsStand == Spec => []ClaimHeld
<1>1. ClaimInv => ClaimHeld
  BY DEF ClaimInv, Written, Stands, ClaimHeld
<1> QED BY <1>1, AlwaysClaims, PTL
=============================================================================
