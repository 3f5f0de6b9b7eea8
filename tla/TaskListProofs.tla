---------------------------- MODULE TaskListProofs ----------------------------
(***************************************************************************)
(* Theorems about TaskList, for any agents, operations and bounds.         *)
(***************************************************************************)
EXTENDS TaskList, FiniteSetTheorems, SequenceTheorems, TLAPS

Plans == Seq([id : Ids, set : Patch])

-----------------------------------------------------------------------------
(***************************************************************************)
(* Types of the values the actions are built from.                         *)
(***************************************************************************)
LEMMA BlankFacts ==
    /\ Blank \in Task /\ NoTask \notin Task
    /\ NoTask.status = "absent" /\ Blank.status \in Status /\ Blank.owner = NoAgent
    /\ \A p : Torn(p).status = "torn"
    /\ \A t \in Task : t.status \in Status
    /\ "absent" \notin Status /\ "torn" \notin Status
BY DEF Blank, NoTask, Task, Torn, Status

LEMMA ReadType ==
    ASSUME TypeOK, NEW i \in Ids
    PROVE  Read(i) \in Task \cup {NoTask}
BY BlankFacts DEF Read, TypeOK

LEMMA ApplyType ==
    ASSUME NEW t \in Task, NEW set \in Patch
    PROVE  Apply(t, set) \in Task
<1>1. t = [status |-> t.status, owner |-> t.owner, blocks |-> t.blocks,
           blockedBy |-> t.blockedBy]
      /\ t.status \in Status /\ t.owner \in Agents \cup {NoAgent}
      /\ t.blocks \subseteq Ids /\ t.blockedBy \subseteq Ids
  BY DEF Task
<1>2. DOMAIN t = {"status", "owner", "blocks", "blockedBy"} BY <1>1
<1> DEFINE a == Apply(t, set)
<1>3. a = [f \in {"status", "owner", "blocks", "blockedBy"} |->
             IF f \in DOMAIN set THEN set[f] ELSE t[f]]
  BY <1>2 DEF Apply
<1>4. a.status \in Status /\ a.owner \in Agents \cup {NoAgent}
      /\ a.blocks \subseteq Ids /\ a.blockedBy \subseteq Ids
  <2>1. CASE set \in [status : Status] BY <1>1, <1>3, <2>1
  <2>2. CASE set \in [owner : Agents \cup {NoAgent}] BY <1>1, <1>3, <2>2
  <2>3. CASE set \in [status : Status, owner : Agents \cup {NoAgent}] BY <1>1, <1>3, <2>3
  <2>4. CASE set \in [blocks : SUBSET Ids] BY <1>1, <1>3, <2>4
  <2>5. CASE set \in [blockedBy : SUBSET Ids] BY <1>1, <1>3, <2>5
  <2>6. CASE set \in [blocks : SUBSET Ids, blockedBy : SUBSET Ids] BY <1>1, <1>3, <2>6
  <2> QED BY <2>1, <2>2, <2>3, <2>4, <2>5, <2>6 DEF Patch
<1>5. a = [status |-> a.status, owner |-> a.owner, blocks |-> a.blocks,
           blockedBy |-> a.blockedBy]
  BY <1>3
<1> QED BY <1>4, <1>5 DEF Task

(***************************************************************************)
(* What a process is in the middle of fits together: an update has a plan, *)
(* it writes what it has read, and what is about a task has one.           *)
(***************************************************************************)
Fit(x) ==
    /\ x.pc \in {"check", "tasklock", "read", "truncate", "fill"} => x.plan # <<>>
    /\ x.pc \in {"truncate", "fill"} => x.base \in Task
    /\ x.pc \in {"edit", "claimcheck", "claimlock", "claimread", "claimdir"} => x.id \in Ids
    /\ x.pc = "files" /\ x.op = "block" => x.id \in Ids /\ x.high \in Ids
    /\ x.op = "delete" => x.id \in Ids
    /\ x.pc = "dir" => x.op # "block" /\ (x.op = "claim" => x.id = 0)
    /\ x.pc = "unlink" => x.op = "delete"
    /\ x.pc = "edit" => x.op = "edit"
    /\ x.pc \in {"claimcheck", "claimlock", "claimread", "claimdir"} => x.op = "claim"
    /\ x.pc \in {"listlock", "scan", "scanfiles", "scanmark", "create", "created", "high",
                 "removals", "removing"} => x.op # "delete"

Fitting == {x \in Proc : Fit(x)}
Typed == TypeOK /\ procs \in [Agents -> Fitting]

LEMMA IdleType == Idle \in Fitting
<1>1. <<>> \in Plans BY DEF Plans
<1>2. Idle \in Proc BY <1>1, BoundsAssumption, BlankFacts DEF Idle, Proc, Pcs, Plans
<1> QED BY <1>2 DEF Fitting, Fit, Idle

\* What is left of a plan.
LEMMA PlanFacts ==
    ASSUME NEW plan \in Plans
    PROVE  /\ plan # <<>> => Head(plan) \in [id : Ids, set : Patch] /\ Len(plan) > 0
           /\ Len(plan) > 1 => Tail(plan) \in Plans /\ Tail(plan) # <<>>
<1>1. Len(plan) \in Nat /\ (plan # <<>> => Len(plan) > 0)
  BY EmptySeq, LenProperties DEF Plans
<1>2. plan # <<>> => /\ Head(plan) \in [id : Ids, set : Patch] /\ Tail(plan) \in Plans
                     /\ Len(Tail(plan)) = Len(plan) - 1
  BY HeadTailProperties DEF Plans
<1>3. Len(<<>>) = 0 OBVIOUS
<1> QED BY <1>1, <1>2, <1>3

-----------------------------------------------------------------------------
(***************************************************************************)
(* The ways an operation goes on.                                          *)
(***************************************************************************)
Moves == procs' \in [Agents -> Fitting]

LEMMA ProcType ==
    ASSUME Typed, NEW p \in Agents
    PROVE  /\ procs[p] \in Proc /\ Fit(procs[p]) /\ procs[p].plan \in Plans
           /\ At(p, "check") \/ At(p, "tasklock") \/ At(p, "read") \/ At(p, "truncate")
                \/ At(p, "fill") => Item(p) \in [id : Ids, set : Patch]
BY PlanFacts DEF Typed, Fitting, Fit, Proc, Plans, At, Item

LEMMA GotoType ==
    ASSUME Typed, NEW p \in Agents, NEW pc \in Pcs, Goto(p, pc),
           Fit([procs[p] EXCEPT !.pc = pc])
    PROVE  Moves
<1>1. [procs[p] EXCEPT !.pc = pc] \in Proc BY ProcType DEF Proc
<1> QED BY <1>1 DEF Goto, Moves, Typed, Fitting

LEMMA DoneType ==
    ASSUME Typed, NEW p \in Agents, Done(p)
    PROVE  Moves
BY IdleType DEF Done, Moves, Typed

LEMMA NextItemType ==
    ASSUME Typed, NEW p \in Agents, NextItem(p)
    PROVE  Moves
<1>1. procs[p] \in Proc /\ procs[p].plan \in Plans /\ Fit(procs[p]) BY ProcType
<1>2. CASE Len(procs[p].plan) <= 1 BY <1>2, DoneType DEF NextItem
<1>3. CASE ~(Len(procs[p].plan) <= 1)
  <2> DEFINE x == [procs[p] EXCEPT !.plan = Tail(@), !.pc = "check", !.base = NoTask]
  <2>1. Len(procs[p].plan) \in Nat BY <1>1, LenProperties DEF Plans
  <2>2. Tail(procs[p].plan) \in Plans /\ Tail(procs[p].plan) # <<>> BY <1>1, <1>3, <2>1, PlanFacts
  <2>3. "check" \in Pcs BY DEF Pcs
  <2>4. x \in Proc BY <1>1, <2>2, <2>3 DEF Proc, Plans
  <2>5. Fit(x) BY <1>1, <2>2 DEF Fit, Proc
  <2>6. procs' = [procs EXCEPT ![p] = x] BY <1>1, <1>3 DEF NextItem, Proc
  <2> QED BY <2>4, <2>5, <2>6 DEF Moves, Typed, Fitting
<1> QED BY <1>2, <1>3

LEMMA RunType ==
    ASSUME Typed, NEW p \in Agents, NEW plan \in Plans, Run(p, plan)
    PROVE  Moves
<1>1. CASE plan = <<>> BY <1>1, DoneType DEF Run
<1>2. CASE plan # <<>>
  <2> DEFINE x == [procs[p] EXCEPT !.pc = "check", !.plan = plan,
                                   !.seen = [i \in Ids |-> NoTask], !.high = 0]
  <2>1. "check" \in Pcs /\ 0 \in 0 .. MaxTasks BY BoundsAssumption DEF Pcs
  <2>2. procs[p] \in Proc /\ Fit(procs[p]) BY ProcType
  <2>3. [i \in Ids |-> NoTask] \in [Ids -> Task \cup {NoTask}] OBVIOUS
  <2>4. x \in Proc BY <2>1, <2>2, <2>3 DEF Proc, Plans
  <2>5. Fit(x) BY <1>2, <2>2 DEF Fit, Proc
  <2> QED BY <1>2, <2>4, <2>5 DEF Run, Moves, Typed, Fitting
<1> QED BY <1>1, <1>2

\* An order of a set of ids is a list of all of them.
LEMMA OrderFacts ==
    ASSUME NEW S \in SUBSET Ids, NEW s \in Orders(S)
    PROVE  s \in Seq(Ids) /\ s \in Seq(S) /\ DOMAIN s = 1 .. Len(s) /\ Len(s) \in Nat
<1>1. IsFiniteSet(Ids) BY FS_Interval, BoundsAssumption DEF Ids
<1>2. Cardinality(S) \in Nat BY <1>1, FS_Subset, FS_CardinalityType
<1>3. s \in [1 .. Cardinality(S) -> S] BY DEF Orders
<1> QED BY <1>2, <1>3

LEMMA RunEachType ==
    ASSUME Typed, NEW p \in Agents, NEW tasks \in SUBSET Ids, NEW sets \in [tasks -> Patch],
           RunEach(p, sets)
    PROVE  Moves
<1> DEFINE Plan(s) == [n \in DOMAIN s |-> [id |-> s[n], set |-> sets[s[n]]]]
<1>0. PICK s \in Orders(tasks) : Run(p, Plan(s)) BY DEF RunEach
<1>1. s \in Seq(tasks) /\ DOMAIN s = 1 .. Len(s) /\ Len(s) \in Nat BY OrderFacts
<1>2. \A n \in DOMAIN s : s[n] \in tasks BY <1>1, ElementOfSeq
<1>3. Plan(s) \in [1 .. Len(s) -> [id : Ids, set : Patch]] BY <1>1, <1>2
<1>4. Plan(s) \in Plans BY <1>1, <1>3 DEF Plans
<1> QED BY <1>0, <1>4, RunType

-----------------------------------------------------------------------------
(***************************************************************************)
(* Every operation keeps the types.                                        *)
(***************************************************************************)
\* What an operation changes besides procs keeps its type.
LEMMA StepType ==
    ASSUME Typed, Moves,
           files' \in [Ids -> Task \cup {NoTask} \cup {Torn(p) : p \in Agents}],
           mark' \in {TornMark} \cup 0 .. MaxTasks,
           listLock' \in Agents \cup {NoAgent},
           taskLock' \in [Ids -> Agents \cup {NoAgent}],
           given' \in Seq(Ids), deleted' \subseteq Ids, claims' \in [Ids -> SUBSET Agents],
           ops' \in 0 .. MaxOps, crashes' \in 0 .. MaxCrashes
    PROVE  Typed'
<1>1. procs' \in [Agents -> Proc] BY DEF Moves, Fitting
<1> QED BY <1>1 DEF Typed, TypeOK, Moves

LEMMA MovesType ==
    ASSUME Typed, Moves, UNCHANGED <<files, mark, locks, ghosts, budget>>
    PROVE  Typed'
BY StepType DEF Typed, TypeOK, locks, ghosts, budget

LEMMA BeginType ==
    ASSUME Typed, NEW p \in Agents, NEW op \in Op, NEW pc \in Pcs, NEW i \in 0 .. MaxTasks,
           Begin(p, op, pc, i), deleted' \subseteq Ids,
           Fit([Idle EXCEPT !.op = op, !.pc = pc, !.id = i])
    PROVE  Typed'
<1>1. [Idle EXCEPT !.op = op, !.pc = pc, !.id = i] \in Proc
  BY IdleType DEF Proc, Fitting
<1>2. Moves BY <1>1 DEF Begin, Moves, Typed, Fitting
<1>3. ops' \in 0 .. MaxOps BY BoundsAssumption DEF Begin, Typed, TypeOK
<1> QED BY <1>2, <1>3, StepType DEF Begin, Typed, TypeOK, locks

LEMMA BeginsType ==
    ASSUME Typed, NEW p \in Agents, Begins(p)
    PROVE  Typed'
<1>1. 0 \in 0 .. MaxTasks /\ \A i \in Ids : i \in 0 .. MaxTasks
  BY BoundsAssumption DEF Ids
<1>2. {"listlock", "dir", "edit", "mark", "files"} \subseteq Pcs BY DEF Pcs
<1>3. {"create", "reset", "clear", "claim", "unassign", "edit", "delete"} \subseteq Op BY DEF Op
<1>4. ASSUME NEW op \in {"create", "reset", "clear", "claim", "unassign"}, NEW pc \in {"listlock", "dir"},
             Begin(p, op, pc, 0), deleted' = deleted
      PROVE  Typed'
  <2>1. Fit([Idle EXCEPT !.op = op, !.pc = pc, !.id = 0]) BY <1>4 DEF Fit, Idle
  <2> QED BY <1>1, <1>2, <1>3, <1>4, <2>1, BeginType DEF Typed, TypeOK
<1>5. ASSUME NEW i \in Ids, BeginEdit(p, i) \/ BeginDelete(p, i) PROVE Typed'
  <2>1. Fit([Idle EXCEPT !.op = "edit", !.pc = "edit", !.id = i]) BY DEF Fit, Idle
  <2>2. Fit([Idle EXCEPT !.op = "delete", !.pc = "mark", !.id = i]) BY DEF Fit, Idle
  <2> QED BY <1>1, <1>2, <1>3, <1>5, <2>1, <2>2, BeginType
          DEF BeginEdit, BeginDelete, Typed, TypeOK
<1>6. ASSUME NEW i \in Ids, NEW j \in Ids, BeginBlock(p, i, j) PROVE Typed'
  <2> DEFINE x == [Idle EXCEPT !.op = "block", !.pc = "files", !.id = i, !.high = j, !.todo = {i, j}]
  <2>1. "block" \in Op BY DEF Op
  <2>2. x \in Proc BY <1>1, <1>2, <2>1, IdleType DEF Proc, Fitting
  <2>3. Fit(x) BY DEF Fit, Idle
  <2>4. Moves BY <1>6, <2>2, <2>3 DEF BeginBlock, Moves, Typed, Fitting
  <2>5. ops' \in 0 .. MaxOps BY <1>6, BoundsAssumption DEF BeginBlock, Typed, TypeOK
  <2> QED BY <1>6, <2>4, <2>5, StepType DEF BeginBlock, Typed, TypeOK, locks, ghosts
<1> QED BY <1>4, <1>5, <1>6 DEF Begins, BeginCreate, BeginReset, BeginClear, BeginClaim, BeginUnassign

LEMMA UpdatesType ==
    ASSUME Typed, NEW p \in Agents, Updates(p)
    PROVE  Typed'
<1>1. {"tasklock", "read", "truncate", "fill"} \subseteq Pcs BY DEF Pcs
<1>2. procs[p] \in Proc /\ Fit(procs[p]) BY ProcType
<1>3. CASE CheckTask(p)
  <2>1. CASE NextItem(p) BY <1>3, <2>1, NextItemType, MovesType DEF CheckTask
  <2>2. CASE Goto(p, "tasklock")
    <3>1. Fit([procs[p] EXCEPT !.pc = "tasklock"])
      BY <1>2, <1>3 DEF CheckTask, At, Fit, Proc
    <3> QED BY <1>1, <1>3, <2>2, <3>1, GotoType, MovesType DEF CheckTask
  <2> QED BY <1>3, <2>1, <2>2 DEF CheckTask
<1>4. CASE LockTask(p)
  <2>1. Fit([procs[p] EXCEPT !.pc = "read"])
    BY <1>2, <1>4 DEF LockTask, At, Fit, Proc
  <2>2. Moves BY <1>1, <1>4, <2>1, GotoType, DoneType DEF LockTask
  <2> QED BY <1>4, <2>2, StepType DEF LockTask, Typed, TypeOK, ghosts, budget
<1>5. CASE ReadTask(p)
  <2>1. CASE Read(Item(p).id) = NoTask
    <3>1. Moves BY <1>5, <2>1, NextItemType DEF ReadTask
    <3> QED BY <1>5, <2>1, <3>1, StepType DEF ReadTask, Release, Typed, TypeOK, ghosts, budget
  <2>2. CASE Read(Item(p).id) # NoTask
    <3> DEFINE x == [procs[p] EXCEPT !.pc = "truncate", !.base = Read(Item(p).id)]
    <3>1. Item(p).id \in Ids BY <1>5, ProcType DEF ReadTask
    <3>2. Read(Item(p).id) \in Task BY <2>2, <3>1, ReadType DEF Typed
    <3>3. x \in Proc BY <1>1, <1>2, <3>2 DEF Proc
    <3>4. Fit(x) BY <1>2, <1>5, <3>2 DEF ReadTask, At, Fit, Proc
    <3>5. Moves BY <1>5, <2>2, <3>3, <3>4 DEF ReadTask, Moves, Typed, Fitting
    <3> QED BY <1>5, <2>2, <3>5, StepType DEF ReadTask, Typed, TypeOK, ghosts, budget
  <2> QED BY <2>1, <2>2
<1>6. CASE TruncateTask(p)
  <2>1. Fit([procs[p] EXCEPT !.pc = "fill"])
    BY <1>2, <1>6 DEF TruncateTask, At, Fit, Proc
  <2>2. Moves BY <1>1, <1>6, <2>1, GotoType DEF TruncateTask
  <2> QED BY <1>6, <2>2, StepType DEF TruncateTask, Typed, TypeOK, locks, ghosts, budget
<1>7. CASE FillTask(p)
  <2> DEFINE i == Item(p).id
  <2>1. procs[p].base \in Task /\ i \in Ids /\ Item(p).set \in Patch
    BY <1>2, <1>7, ProcType DEF FillTask, At, Fit
  <2>2. Apply(procs[p].base, Item(p).set) \in Task BY <2>1, ApplyType
  <2>3. files' \in [Ids -> Task \cup {NoTask} \cup {Torn(q) : q \in Agents}]
    BY <1>7, <2>2 DEF FillTask, Typed, TypeOK
  <2>4. Standing(p, i) \in SUBSET Agents BY <2>1 DEF Standing, Typed, TypeOK
  <2>5. claims' \in [Ids -> SUBSET Agents] BY <1>7, <2>4 DEF FillTask, Typed, TypeOK
  <2>6. taskLock' \in [Ids -> Agents \cup {NoAgent}]
    BY <1>7 DEF FillTask, Release, Typed, TypeOK
  <2>7. Moves BY <1>7, NextItemType DEF FillTask
  <2> QED BY <1>7, <2>3, <2>5, <2>6, <2>7, StepType DEF FillTask, Typed, TypeOK, budget
<1> QED BY <1>3, <1>4, <1>5, <1>6, <1>7 DEF Updates

\* A process goes on with some other record.
LEMMA PutType ==
    ASSUME Typed, NEW p \in Agents, NEW x \in Proc, Fit(x), procs' = [procs EXCEPT ![p] = x],
           UNCHANGED <<files, mark, locks, ghosts, budget>>
    PROVE  Typed'
<1>1. Moves BY DEF Moves, Typed, Fitting
<1> QED BY <1>1, MovesType

LEMMA ReadsType ==
    ASSUME Typed, NEW p \in Agents, ReadDir(p) \/ (\E i \in Ids : ReadFile(p, i)) \/ ClaimDir(p)
    PROVE  Typed'
<1>1. procs[p] \in Proc /\ Fit(procs[p]) BY ProcType
<1>2. Existing \subseteq Ids /\ "files" \in Pcs BY DEF Existing, Pcs
<1>3. CASE ReadDir(p)
  <2> DEFINE x == [procs[p] EXCEPT !.pc = "files", !.todo = Existing, !.seen = [i \in Ids |-> NoTask]]
  <2>1. [i \in Ids |-> NoTask] \in [Ids -> Task \cup {NoTask}] OBVIOUS
  <2>2. x \in Proc BY <1>1, <1>2, <2>1 DEF Proc
  <2>3. Fit(x) BY <1>1, <1>3 DEF ReadDir, At, Fit, Proc
  <2>4. procs' = [procs EXCEPT ![p] = x] BY <1>1, <1>3 DEF ReadDir, Proc
  <2> QED BY <1>3, <2>2, <2>3, <2>4, PutType DEF ReadDir
<1>4. ASSUME NEW i \in Ids, ReadFile(p, i) PROVE Typed'
  <2> DEFINE x == [procs[p] EXCEPT !.todo = @ \ {i}, !.seen[i] = Read(i)]
  <2>1. Read(i) \in Task \cup {NoTask} BY ReadType DEF Typed
  <2>2. [procs[p].seen EXCEPT ![i] = Read(i)] \in [Ids -> Task \cup {NoTask}]
    BY <1>1, <2>1 DEF Proc
  <2>3. x \in Proc BY <1>1, <2>2 DEF Proc
  <2>4. Fit(x) BY <1>1, <1>4 DEF ReadFile, At, Fit, Proc
  <2>5. procs' = [procs EXCEPT ![p] = x] BY <1>1, <1>4 DEF ReadFile, Proc
  <2> QED BY <1>4, <2>3, <2>4, <2>5, PutType DEF ReadFile
<1>5. CASE ClaimDir(p)
  <2> DEFINE x == [procs[p] EXCEPT !.pc = "files", !.todo = Existing]
  <2>1. x \in Proc BY <1>1, <1>2 DEF Proc
  <2>2. Fit(x) BY <1>1, <1>5 DEF ClaimDir, At, Fit, Proc
  <2>3. procs' = [procs EXCEPT ![p] = x] BY <1>1, <1>5 DEF ClaimDir, Proc
  <2> QED BY <1>5, <2>1, <2>2, <2>3, PutType DEF ClaimDir
<1> QED BY <1>3, <1>4, <1>5

LEMMA SeenType ==
    ASSUME Typed, NEW p \in Agents
    PROVE  \A i \in Ids : Seen(p)[i] \in Task \cup {NoTask}
BY ProcType DEF Seen, Proc

\* A process takes a task up.
LEMMA TakeType ==
    ASSUME Typed, NEW p \in Agents, NEW i \in Ids,
           procs' = [procs EXCEPT ![p] = [Idle EXCEPT !.op = "claim", !.id = i,
                                                       !.pc = "claimcheck"]],
           UNCHANGED <<files, mark, locks, ghosts, budget>>
    PROVE  Typed'
<1> DEFINE x == [Idle EXCEPT !.op = "claim", !.id = i, !.pc = "claimcheck"]
<1>1. Idle \in Proc /\ i \in 0 .. MaxTasks BY IdleType, BoundsAssumption DEF Fitting, Ids
<1>2. "claim" \in Op \cup {"none"} /\ "claimcheck" \in Pcs BY DEF Op, Pcs
<1>3. x \in Proc BY <1>1, <1>2 DEF Proc
<1>4. Fit(x) BY DEF Fit, Idle
<1> QED BY <1>3, <1>4, PutType

LEMMA PlansType ==
    ASSUME Typed, NEW p \in Agents,
           ChooseTask(p) \/ PlanDelete(p) \/ PlanBlock(p) \/ PlanUnassign(p) \/ PlanClear(p)
             \/ PlanEdit(p)
    PROVE  Typed'
<1>1. procs[p] \in Proc /\ Fit(procs[p]) BY ProcType
<1>2. \A t \in Task : t.blocks \in SUBSET Ids /\ t.blockedBy \in SUBSET Ids
        /\ t.owner \in Agents \cup {NoAgent}
  BY DEF Task
<1>3. CASE ChooseTask(p)
  <2>1. CASE Done(p) BY <1>3, <2>1, DoneType, MovesType DEF ChooseTask
  <2>2. ASSUME NEW i \in Available(Seen(p)),
               procs' = [procs EXCEPT ![p] = [Idle EXCEPT !.op = "claim", !.id = i,
                                                           !.pc = "claimcheck"]]
        PROVE  Typed'
    <3>1. i \in Ids BY DEF Available
    <3> QED BY <1>3, <2>2, <3>1, TakeType DEF ChooseTask
  <2> QED BY <1>3, <2>1, <2>2 DEF ChooseTask
<1>4. CASE PlanDelete(p)
  <2> DEFINE d == procs[p].id
             tasks == {i \in Ids : d \in Seen(p)[i].blocks \cup Seen(p)[i].blockedBy}
             sets == [i \in tasks |-> [blocks |-> Seen(p)[i].blocks \ {d},
                                       blockedBy |-> Seen(p)[i].blockedBy \ {d}]]
  <2>1. RunEach(p, sets) BY <1>4 DEF PlanDelete
  <2>2. sets \in [tasks -> Patch]
    <3>1. \A i \in tasks : Seen(p)[i] \in Task \cup {NoTask} BY SeenType
    <3>2. NoTask.blocks = {} /\ NoTask.blockedBy = {} BY DEF NoTask, Blank
    <3>3. \A i \in tasks : sets[i] \in [blocks : SUBSET Ids, blockedBy : SUBSET Ids]
      BY <1>2, <3>1, <3>2
    <3> QED BY <3>3 DEF Patch
  <2>3. tasks \in SUBSET Ids OBVIOUS
  <2> HIDE DEF tasks, sets
  <2>4. Moves BY <2>1, <2>2, <2>3, RunEachType
  <2> QED BY <1>4, <2>4, MovesType DEF PlanDelete
<1>5. CASE PlanBlock(p)
  <2> DEFINE i == procs[p].id
             j == procs[p].high
             from == Seen(p)[i]
             to == Seen(p)[j]
             one == [id |-> i, set |-> [blocks |-> from.blocks \cup {j}]]
             two == [id |-> j, set |-> [blockedBy |-> to.blockedBy \cup {i}]]
             plan == (IF j \in from.blocks THEN <<>> ELSE <<one>>)
                     \o (IF i \in to.blockedBy THEN <<>> ELSE <<two>>)
  <2>1. CASE Done(p) BY <1>5, <2>1, DoneType, MovesType DEF PlanBlock
  <2>2. CASE ~(from = NoTask \/ to = NoTask) /\ Run(p, plan)
    <3>1. i \in Ids /\ j \in Ids BY <1>1, <1>5 DEF PlanBlock, Listed, At, Fit
    <3>2. from \in Task /\ to \in Task BY <2>2, <3>1, SeenType
    <3>3. one.set \in Patch /\ two.set \in Patch
      BY <1>2, <3>1, <3>2 DEF Patch
    <3>4. one \in [id : Ids, set : Patch] /\ two \in [id : Ids, set : Patch]
      BY <3>1, <3>3
    <3> HIDE DEF one, two
    <3>5. <<>> \in Plans /\ <<one>> \in Plans /\ <<two>> \in Plans BY <3>4 DEF Plans
    <3>6. plan \in Plans BY <3>5, ConcatProperties DEF Plans
    <3>7. Moves BY <2>2, <3>6, RunType
    <3> QED BY <1>5, <3>7, MovesType DEF PlanBlock
  <2> QED BY <1>5, <2>1, <2>2 DEF PlanBlock
<1>6. CASE PlanUnassign(p)
  <2> DEFINE tasks(a) == {i \in Unresolved(Seen(p)) : Seen(p)[i].owner = a}
             set == [owner |-> NoAgent, status |-> "pending"]
  <2>1. PICK a \in Agents : RunEach(p, [i \in tasks(a) |-> set]) BY <1>6 DEF PlanUnassign
  <2>2. tasks(a) \in SUBSET Ids BY DEF Unresolved
  <2>3. set \in Patch BY DEF Patch, Status
  <2>4. [i \in tasks(a) |-> set] \in [tasks(a) -> Patch] BY <2>3
  <2> HIDE DEF tasks, set
  <2>5. Moves BY <2>1, <2>2, <2>4, RunEachType
  <2> QED BY <1>6, <2>5, MovesType DEF PlanUnassign
<1>7. CASE PlanClear(p)
  <2>1. CASE Done(p) BY <1>7, <2>1, DoneType, MovesType DEF PlanClear
  <2>2. CASE procs' = [procs EXCEPT ![p] = [Idle EXCEPT !.op = "clear", !.pc = "listlock"]]
    <3> DEFINE x == [Idle EXCEPT !.op = "clear", !.pc = "listlock"]
    <3>1. "clear" \in Op /\ "listlock" \in Pcs /\ Idle \in Proc
      BY IdleType DEF Op, Pcs, Fitting
    <3>2. x \in Proc BY <3>1 DEF Proc
    <3>3. Fit(x) BY DEF Fit, Idle
    <3> QED BY <1>7, <2>2, <3>2, <3>3, PutType DEF PlanClear
  <2> QED BY <1>7, <2>1, <2>2 DEF PlanClear
<1>8. CASE PlanEdit(p)
  <2> DEFINE i == procs[p].id
  <2>1. CASE Done(p) BY <1>8, <2>1, DoneType, MovesType DEF PlanEdit
  <2>2. ASSUME NEW set \in Patch, Run(p, <<[id |-> i, set |-> set]>>) PROVE Typed'
    <3>1. i \in Ids BY <1>1, <1>8 DEF PlanEdit, At, Fit
    <3>2. <<[id |-> i, set |-> set]>> \in Plans BY <3>1 DEF Plans
    <3>3. Moves BY <2>2, <3>2, RunType
    <3> QED BY <1>8, <3>3, MovesType DEF PlanEdit
  <2>3. /\ [status |-> "completed"] \in Patch
        /\ [status |-> "in_progress", owner |-> p] \in Patch
        /\ \A a \in Agents : [owner |-> a] \in Patch
    BY DEF Patch, Status
  <2> QED BY <1>8, <2>1, <2>2, <2>3 DEF PlanEdit
<1> QED BY <1>3, <1>4, <1>5, <1>6, <1>7, <1>8

\* An operation moves on, and changes nothing but procs.
LEMMA GoOnType ==
    ASSUME Typed, NEW p \in Agents, NEW pc \in Pcs, Goto(p, pc),
           Fit([procs[p] EXCEPT !.pc = pc]), UNCHANGED <<files, mark, locks, ghosts, budget>>
    PROVE  Typed'
BY GotoType, MovesType

LEMMA LocksType ==
    ASSUME Typed, Moves, UNCHANGED <<files, mark, ghosts, budget>>,
           listLock' \in Agents \cup {NoAgent}, taskLock' \in [Ids -> Agents \cup {NoAgent}]
    PROVE  Typed'
BY StepType DEF Typed, TypeOK, ghosts, budget

LEMMA ClaimsType ==
    ASSUME Typed, NEW p \in Agents,
           ClaimCheck(p) \/ ClaimLock(p) \/ ClaimRead(p) \/ ClaimDecide(p)
    PROVE  Typed'
<1>1. procs[p] \in Proc /\ Fit(procs[p]) BY ProcType
<1>2. {"claimlock", "claimread", "claimdir", "read"} \subseteq Pcs BY DEF Pcs
<1>3. taskLock \in [Ids -> Agents \cup {NoAgent}] /\ listLock \in Agents \cup {NoAgent}
  BY DEF Typed, TypeOK
<1>4. CASE ClaimCheck(p)
  <2>1. Fit([procs[p] EXCEPT !.pc = "claimlock"]) BY <1>1, <1>4 DEF ClaimCheck, At, Fit, Proc
  <2> QED BY <1>2, <1>4, <2>1, GoOnType, DoneType, MovesType DEF ClaimCheck
<1>5. CASE ClaimLock(p)
  <2>1. Fit([procs[p] EXCEPT !.pc = "claimread"]) BY <1>1, <1>5 DEF ClaimLock, At, Fit, Proc
  <2>2. Moves BY <1>2, <1>5, <2>1, GotoType, DoneType DEF ClaimLock
  <2>3. taskLock' \in [Ids -> Agents \cup {NoAgent}] BY <1>3, <1>5 DEF ClaimLock
  <2> QED BY <1>3, <1>5, <2>2, <2>3, LocksType DEF ClaimLock
<1>6. CASE ClaimRead(p)
  <2>1. CASE Done(p) /\ Release(procs[p].id)
    <3>1. taskLock' \in [Ids -> Agents \cup {NoAgent}] BY <1>3, <2>1 DEF Release
    <3> QED BY <1>3, <1>6, <2>1, <3>1, DoneType, LocksType DEF ClaimRead
  <2>2. CASE /\ procs' = [procs EXCEPT ![p].pc = "claimdir", ![p].base = Read(procs[p].id)]
             /\ UNCHANGED taskLock
    <3> DEFINE x == [procs[p] EXCEPT !.pc = "claimdir", !.base = Read(procs[p].id)]
    <3>1. procs[p].id \in Ids BY <1>1, <1>6 DEF ClaimRead, At, Fit
    <3>2. Read(procs[p].id) \in Task \cup {NoTask} BY <3>1, ReadType DEF Typed
    <3>3. x \in Proc BY <1>1, <1>2, <3>2 DEF Proc
    <3>4. Fit(x) BY <1>1, <1>6, <3>1 DEF ClaimRead, At, Fit, Proc
    <3>5. procs' = [procs EXCEPT ![p] = x] BY <1>1, <2>2 DEF Proc
    <3>6. Moves BY <3>3, <3>4, <3>5 DEF Moves, Typed, Fitting
    <3> QED BY <1>3, <1>6, <2>2, <3>6, LocksType DEF ClaimRead
  <2> QED BY <1>6, <2>1, <2>2 DEF ClaimRead
<1>7. CASE ClaimDecide(p)
  <2> DEFINE i == procs[p].id
             item(set) == [id |-> i, set |-> set]
  <2>1. CASE Done(p) /\ Release(i)
    <3>1. taskLock' \in [Ids -> Agents \cup {NoAgent}] BY <1>3, <2>1 DEF Release
    <3> QED BY <1>3, <1>7, <2>1, <3>1, DoneType, LocksType DEF ClaimDecide
  <2>2. ASSUME NEW after \in {<<>>, <<item([status |-> "in_progress"])>>,
                               <<item([owner |-> NoAgent])>>},
               procs' = [procs EXCEPT ![p] =
                           [Idle EXCEPT !.op = "claim", !.pc = ClaimWrites, !.id = i,
                                        !.plan = <<item([owner |-> p])>> \o after]],
               UNCHANGED taskLock
        PROVE  Typed'
    <3> DEFINE plan == <<item([owner |-> p])>> \o after
               x == [Idle EXCEPT !.op = "claim", !.pc = ClaimWrites, !.id = i, !.plan = plan]
    <3>1. i \in Ids /\ i \in 0 .. MaxTasks
      BY <1>1, <1>7, BoundsAssumption DEF ClaimDecide, Ids, Proc
    <3>2. /\ item([owner |-> p]) \in [id : Ids, set : Patch]
          /\ item([status |-> "in_progress"]) \in [id : Ids, set : Patch]
          /\ item([owner |-> NoAgent]) \in [id : Ids, set : Patch]
      BY <3>1 DEF Patch, Status
    <3>3. <<item([owner |-> p])>> \in Plans /\ after \in Plans
      <4>1. \A a \in [id : Ids, set : Patch] : <<a>> \in Plans BY DEF Plans
      <4>2. <<>> \in Plans BY DEF Plans
      <4> HIDE DEF item
      <4> QED BY <3>2, <4>1, <4>2
    <3>4. plan \in Plans /\ Len(plan) = 1 + Len(after) /\ Len(after) \in Nat
      BY <3>3, ConcatProperties, LenProperties DEF Plans
    <3>5. plan # <<>> BY <3>4
    <3>6. Idle \in Proc /\ "claim" \in Op /\ ClaimWrites = "read"
      BY IdleType DEF Op, Fitting, ClaimWrites
    <3> HIDE DEF plan
    <3>7. x \in Proc BY <1>2, <3>1, <3>4, <3>6 DEF Proc, Plans
    <3>8. Fit(x) BY <3>5, <3>6 DEF Fit, Idle
    <3>9. Moves BY <2>2, <3>7, <3>8 DEF Moves, Typed, Fitting, plan
    <3> QED BY <1>3, <1>7, <2>2, <3>9, LocksType DEF ClaimDecide
  <2> QED BY <1>7, <2>1, <2>2 DEF ClaimDecide
<1> QED BY <1>4, <1>5, <1>6, <1>7

\* The number a process works with changes, and where it is.
LEMMA HighType ==
    ASSUME Typed, NEW p \in Agents, NEW h \in 0 .. MaxTasks, NEW pc \in Pcs,
           procs[p].op # "delete",
           pc \in {"scanmark", "scanfiles", "create", "mark", "removals"},
           procs' = [procs EXCEPT ![p].high = h, ![p].pc = pc],
           UNCHANGED <<files, mark, locks, ghosts, budget>>
    PROVE  Typed'
<1> DEFINE x == [procs[p] EXCEPT !.high = h, !.pc = pc]
<1>1. procs[p] \in Proc /\ Fit(procs[p]) BY ProcType
<1>2. x \in Proc BY <1>1 DEF Proc
<1>3. Fit(x) BY <1>1 DEF Fit, Proc
<1>4. procs' = [procs EXCEPT ![p] = x] BY <1>1 DEF Proc
<1> QED BY <1>2, <1>3, <1>4, PutType

LEMMA CreatesType ==
    ASSUME Typed, NEW p \in Agents, Creates(p)
    PROVE  Typed'
<1>1. procs[p] \in Proc /\ Fit(procs[p]) BY ProcType
<1>2. {"scan", "scanfiles", "scanmark", "create", "created", "high", "mark", "marktruncate",
       "markfill", "removals", "removing", "unlink", "dir"} \subseteq Pcs
  BY DEF Pcs
<1>3. mark \in {TornMark} \cup 0 .. MaxTasks /\ ReadMark \in 0 .. MaxTasks
      /\ taskLock \in [Ids -> Agents \cup {NoAgent}] /\ listLock \in Agents \cup {NoAgent}
  BY BoundsAssumption DEF Typed, TypeOK, ReadMark, TornMark
<1>4. CASE LockList(p)
  <2> DEFINE pc == IF procs[p].op = "create" THEN "scan" ELSE "high"
  <2>1. Fit([procs[p] EXCEPT !.pc = pc]) BY <1>1, <1>4 DEF LockList, At, Fit, Proc
  <2>2. Moves BY <1>2, <1>4, <2>1, GotoType DEF LockList
  <2> QED BY <1>3, <1>4, <2>2, LocksType DEF LockList
<1>5. CASE ScanFiles(p)
  <2>1. PICK h \in 0 .. MaxTasks :
          procs' = [procs EXCEPT ![p].high = AtLeast(@, h),
                                 ![p].pc = IF @ = "scan" THEN "scanmark" ELSE "create"]
    BY <1>5 DEF ScanFiles
  <2>2. AtLeast(procs[p].high, h) \in 0 .. MaxTasks BY <1>1 DEF AtLeast, Proc
  <2>3. procs[p].op # "delete" BY <1>1, <1>5 DEF ScanFiles, Fit
  <2>4. procs' = [procs EXCEPT ![p].high = AtLeast(procs[p].high, h),
                               ![p].pc = IF procs[p].pc = "scan" THEN "scanmark" ELSE "create"]
    BY <1>1, <2>1 DEF Proc
  <2> QED BY <1>2, <1>5, <2>2, <2>3, <2>4, HighType DEF ScanFiles
<1>6. CASE ScanMark(p)
  <2>1. AtLeast(procs[p].high, ReadMark) \in 0 .. MaxTasks BY <1>1, <1>3 DEF AtLeast, Proc
  <2>2. procs[p].op # "delete" BY <1>1, <1>6 DEF ScanMark, Fit
  <2>3. procs' = [procs EXCEPT ![p].high = AtLeast(procs[p].high, ReadMark),
                               ![p].pc = IF procs[p].pc = "scan" THEN "scanfiles" ELSE "create"]
    BY <1>1, <1>6 DEF ScanMark, Proc
  <2> QED BY <1>2, <1>6, <2>1, <2>2, <2>3, HighType DEF ScanMark
<1>7. CASE CreateFile(p)
  <2>1. Fit([procs[p] EXCEPT !.pc = "created"]) BY <1>1, <1>7 DEF CreateFile, At, Fit, Proc
  <2>2. Moves BY <1>2, <1>7, <2>1, GotoType DEF CreateFile
  <2>3. procs[p].high + 1 \in Ids BY <1>1, <1>7, BoundsAssumption DEF CreateFile, Proc, Ids
  <2>4. given' \in Seq(Ids) BY <1>7, <2>3, AppendProperties DEF CreateFile, Typed, TypeOK
  <2>5. files' \in [Ids -> Task \cup {NoTask} \cup {Torn(q) : q \in Agents}]
        /\ claims' \in [Ids -> SUBSET Agents]
    BY <1>7 DEF CreateFile, Typed, TypeOK
  <2> QED BY <1>7, <2>2, <2>4, <2>5, StepType DEF CreateFile, Typed, TypeOK, locks, budget
<1>8. CASE CreateFill(p)
  <2>1. Moves BY <1>8, DoneType DEF CreateFill
  <2>2. files' \in [Ids -> Task \cup {NoTask} \cup {Torn(q) : q \in Agents}]
    BY <1>8, BlankFacts DEF CreateFill, Typed, TypeOK
  <2> QED BY <1>8, <2>1, <2>2, StepType DEF CreateFill, Typed, TypeOK, ghosts, budget
<1>9. CASE ResetHigh(p)
  <2>1. PICK h \in 0 .. MaxTasks :
          procs' = [procs EXCEPT ![p].high = h, ![p].pc = IF h > 0 THEN "mark" ELSE "removals"]
    BY <1>9 DEF ResetHigh
  <2>2. procs[p].op # "delete" BY <1>1, <1>9 DEF ResetHigh, At, Fit
  <2> QED BY <1>2, <1>9, <2>1, <2>2, HighType DEF ResetHigh
<1>10. CASE CheckMark(p)
  <2> DEFINE pc == IF Wanted(p) > ReadMark THEN "marktruncate" ELSE AfterMark(p)
  <2>1. pc \in Pcs BY <1>2 DEF AfterMark
  <2>2. Fit([procs[p] EXCEPT !.pc = pc]) BY <1>1, <1>10 DEF CheckMark, AfterMark, At, Fit, Proc
  <2> QED BY <1>10, <2>1, <2>2, GoOnType DEF CheckMark
<1>11. CASE TruncateMark(p)
  <2>1. Fit([procs[p] EXCEPT !.pc = "markfill"]) BY <1>1, <1>11 DEF TruncateMark, At, Fit, Proc
  <2>2. Moves BY <1>2, <1>11, <2>1, GotoType DEF TruncateMark
  <2> QED BY <1>11, <2>2, StepType DEF TruncateMark, Typed, TypeOK, locks, ghosts, budget
<1>12. CASE FillMark(p)
  <2>1. AfterMark(p) \in Pcs BY <1>2 DEF AfterMark
  <2>2. Fit([procs[p] EXCEPT !.pc = AfterMark(p)]) BY <1>1, <1>12 DEF FillMark, AfterMark, At, Fit, Proc
  <2>3. Moves BY <1>12, <2>1, <2>2, GotoType DEF FillMark
  <2>4. Wanted(p) \in 0 .. MaxTasks BY <1>1 DEF Wanted, Proc
  <2> QED BY <1>12, <2>3, <2>4, StepType DEF FillMark, Typed, TypeOK, locks, ghosts, budget
<1>13. CASE ListRemovals(p)
  <2> DEFINE x == [procs[p] EXCEPT !.todo = Existing, !.pc = "removing"]
  <2>1. x \in Proc BY <1>1, <1>2 DEF Proc, Existing
  <2>2. Fit(x) BY <1>1, <1>13 DEF ListRemovals, At, Fit, Proc
  <2>3. procs' = [procs EXCEPT ![p] = x] BY <1>1, <1>13 DEF ListRemovals, Proc
  <2> QED BY <1>13, <2>1, <2>2, <2>3, PutType DEF ListRemovals
<1>14. CASE RemoveNext(p)
  <2>1. CASE procs[p].todo = {}
    <3>1. Moves BY <1>14, <2>1, DoneType DEF RemoveNext
    <3> QED BY <1>14, <2>1, <3>1, StepType DEF RemoveNext, Typed, TypeOK, budget
  <2>2. CASE procs[p].todo # {}
    <3>1. PICK i \in procs[p].todo :
            Unlink(i) /\ procs' = [procs EXCEPT ![p].todo = @ \ {i}]
      BY <1>14, <2>2 DEF RemoveNext
    <3> DEFINE x == [procs[p] EXCEPT !.todo = @ \ {i}]
    <3>2. x \in Proc BY <1>1 DEF Proc
    <3>3. Fit(x) BY <1>1 DEF Fit, Proc
    <3>4. Moves BY <3>1, <3>2, <3>3 DEF Moves, Typed, Fitting
    <3> QED BY <1>14, <2>2, <3>1, <3>4, StepType DEF RemoveNext, Unlink, Typed, TypeOK, budget
  <2> QED BY <2>1, <2>2
<1>15. CASE DeleteFile(p)
  <2>1. Fit([procs[p] EXCEPT !.pc = "dir"]) BY <1>1, <1>15 DEF DeleteFile, At, Fit, Proc
  <2>2. Moves BY <1>2, <1>15, <2>1, GotoType, DoneType DEF DeleteFile
  <2>3. files' \in [Ids -> Task \cup {NoTask} \cup {Torn(q) : q \in Agents}]
        /\ claims' \in [Ids -> SUBSET Agents]
    BY <1>15 DEF DeleteFile, Unlink, Typed, TypeOK
  <2> QED BY <1>15, <2>2, <2>3, StepType DEF DeleteFile, Typed, TypeOK, locks, budget
<1> QED BY <1>4, <1>5, <1>6, <1>7, <1>8, <1>9, <1>10, <1>11, <1>12, <1>13, <1>14, <1>15 DEF Creates

LEMMA EndsType ==
    ASSUME Typed, NEW p \in Agents, GiveUp(p) \/ Crash(p)
    PROVE  Typed'
<1>1. procs[p] \in Proc /\ Fit(procs[p]) /\ "crashed" \in Pcs BY ProcType DEF Pcs
<1>2. CASE GiveUp(p) BY <1>2, DoneType, MovesType DEF GiveUp
<1>3. CASE Crash(p)
  <2>1. Fit([procs[p] EXCEPT !.pc = "crashed"]) BY <1>1 DEF Fit, Proc
  <2>2. Moves BY <1>1, <1>3, <2>1, GotoType DEF Crash
  <2>3. crashes' \in 0 .. MaxCrashes BY <1>3, BoundsAssumption DEF Crash, Typed, TypeOK
  <2> QED BY <1>3, <2>2, <2>3, StepType DEF Crash, Typed, TypeOK, locks, ghosts
<1> QED BY <1>2, <1>3

LEMMA InitTyped == Init => Typed
<1> SUFFICES ASSUME Init PROVE Typed OBVIOUS
<1> DEFINE Edges(n) == {{}} \cup (IF n >= 2 THEN {{2}} ELSE {})
           Start(n, edge) == [i \in Ids |->
              IF i > n THEN NoTask
              ELSE [Blank EXCEPT !.blocks = IF i = 1 THEN edge ELSE {},
                                 !.blockedBy = IF i = 2 /\ edge # {} THEN {1} ELSE {}]]
<1>0. \E n \in 0 .. MaxTasks :
        (\E edge \in Edges(n) : files = Start(n, edge)) /\ given = [i \in 1 .. n |-> i]
  BY DEF Init
<1> HIDE DEF Start
<1>1. PICK n \in 0 .. MaxTasks :
        (\E edge \in Edges(n) : files = Start(n, edge)) /\ given = [i \in 1 .. n |-> i]
  BY <1>0
<1>2. PICK edge \in Edges(n) : files = Start(n, edge)
  BY <1>1
<1>3. n \in Nat /\ edge \in SUBSET Ids /\ (edge # {} => 1 \in Ids)
  <2>1. n \in Nat /\ n <= MaxTasks BY BoundsAssumption, <1>1
  <2>2. CASE n >= 2
    <3>1. 1 \in Ids /\ 2 \in Ids BY <2>1, <2>2, BoundsAssumption DEF Ids
    <3>2. edge \in {{}, {2}} BY <1>2, <2>2
    <3> QED BY <2>1, <3>1, <3>2
  <2>3. CASE ~(n >= 2)
    <3>1. edge = {} BY <1>2, <2>3
    <3> QED BY <2>1, <3>1
  <2> QED BY <2>2, <2>3
<1>4. \A b \in SUBSET Ids, c \in SUBSET Ids : [Blank EXCEPT !.blocks = b, !.blockedBy = c] \in Task
  BY BlankFacts DEF Task
<1>5. files \in [Ids -> Task \cup {NoTask} \cup {Torn(p) : p \in Agents}]
  BY <1>2, <1>3, <1>4 DEF Start
<1>6. given \in Seq(Ids)
  <2>1. \A i \in 1 .. n : i \in Ids BY <1>1, <1>3, BoundsAssumption DEF Ids
  <2>2. given \in [1 .. n -> Ids] BY <1>1, <2>1
  <2> QED BY <1>3, <2>2, SeqDef
<1>7. procs \in [Agents -> Fitting] /\ procs \in [Agents -> Proc]
  BY IdleType DEF Init, Fitting
<1>8. mark \in {TornMark} \cup 0 .. MaxTasks /\ ops \in 0 .. MaxOps /\ crashes \in 0 .. MaxCrashes
  <2>1. 0 \in 0 .. MaxTasks /\ 0 \in 0 .. MaxOps /\ 0 \in 0 .. MaxCrashes BY BoundsAssumption
  <2> QED BY <2>1 DEF Init
<1>9. listLock \in Agents \cup {NoAgent} /\ taskLock \in [Ids -> Agents \cup {NoAgent}]
      /\ deleted \subseteq Ids /\ claims \in [Ids -> SUBSET Agents]
  BY DEF Init
<1> QED BY <1>5, <1>6, <1>7, <1>8, <1>9 DEF Typed, TypeOK

LEMMA NextTyped == Typed /\ [Next]_vars => Typed'
<1> SUFFICES ASSUME Typed, [Next]_vars PROVE Typed' OBVIOUS
<1>1. ASSUME NEW p \in Agents, Lists(p) PROVE Typed'
  BY <1>1, ReadsType, PlansType, ClaimsType DEF Lists
<1>2. CASE UNCHANGED vars BY <1>2 DEF vars, locks, ghosts, budget, Typed, TypeOK
<1> QED BY <1>1, <1>2, BeginsType, UpdatesType, CreatesType, EndsType DEF Next

LEMMA AlwaysTyped == Spec => []Typed
BY InitTyped, NextTyped, PTL DEF Spec

(***************************************************************************)
(* The state is well typed: the mark and the ids stay within the bound,    *)
(* what is written is a task.                                              *)
(***************************************************************************)
THEOREM TypeCorrect == Spec => []TypeOK
BY AlwaysTyped, PTL DEF Typed

-----------------------------------------------------------------------------
(***************************************************************************)
(* Who holds a lock is where the code says it holds it, crashes apart.     *)
(***************************************************************************)
HoldsList(x) ==
    /\ x.pc \in {"scan", "scanfiles", "scanmark", "create", "created", "high", "mark",
                 "marktruncate", "markfill", "removals", "removing"}
    /\ x.op # "delete"

HoldsTask(x, i) ==
    \/ x.pc \in {"read", "truncate", "fill"} /\ Head(x.plan).id = i
    \/ x.pc \in {"claimread", "claimdir"} /\ x.id = i
    \/ x.pc = "files" /\ x.op = "claim" /\ x.id = i

HoldsNothing(x) == ~HoldsList(x) /\ \A i \in Ids : ~HoldsTask(x, i)

Locked == \A p \in Agents : procs[p].pc # "crashed" =>
    /\ listLock = p <=> HoldsList(procs[p])
    /\ \A i \in Ids : taskLock[i] = p <=> HoldsTask(procs[p], i)

LockInv == Typed /\ Locked

\* p moves and nobody else does.
Only(p) == \A q \in Agents : q # p => procs'[q] = procs[q]

LEMMA NextOnly ==
    ASSUME Typed, NEW p \in Agents, NEW x, procs' = [procs EXCEPT ![p] = x]
    PROVE  Only(p) /\ procs'[p] = x
BY DEF Typed, Only

LEMMA IdleHoldsNothing == HoldsNothing(Idle) /\ Idle.pc # "crashed" /\ Idle.op = "none"
BY DEF HoldsNothing, HoldsList, HoldsTask, Idle

LEMMA DoneMoves ==
    ASSUME Typed, NEW p \in Agents, Done(p)
    PROVE  Only(p) /\ HoldsNothing(procs'[p]) /\ procs'[p].pc # "crashed"
BY NextOnly, IdleHoldsNothing DEF Done

LEMMA CheckHoldsNothing ==
    ASSUME NEW x, x.pc \in {"check", "tasklock", "dir", "listlock", "claimcheck", "claimlock",
                            "edit", "unlink"}
    PROVE  HoldsNothing(x)
BY DEF HoldsNothing, HoldsList, HoldsTask

LEMMA NextItemMoves ==
    ASSUME Typed, NEW p \in Agents, NextItem(p)
    PROVE  Only(p) /\ HoldsNothing(procs'[p]) /\ procs'[p].pc # "crashed"
<1>1. procs[p] \in Proc BY ProcType
<1>2. CASE Done(p) BY <1>2, DoneMoves
<1>3. CASE procs' = [procs EXCEPT ![p].plan = Tail(@), ![p].pc = "check", ![p].base = NoTask]
  <2>1. Only(p) BY <1>3 DEF Only, Typed
  <2>2. procs'[p].pc = "check" BY <1>1, <1>3 DEF Typed, Proc
  <2> QED BY <2>1, <2>2, CheckHoldsNothing
<1> QED BY <1>2, <1>3 DEF NextItem

LEMMA RunMoves ==
    ASSUME Typed, NEW p \in Agents, NEW plan, Run(p, plan)
    PROVE  Only(p) /\ HoldsNothing(procs'[p]) /\ procs'[p].pc # "crashed"
<1>1. procs[p] \in Proc BY ProcType
<1>2. CASE Done(p) BY <1>2, DoneMoves
<1>3. CASE procs' = [procs EXCEPT ![p].pc = "check", ![p].plan = plan,
                                  ![p].seen = [i \in Ids |-> NoTask], ![p].high = 0]
  <2>1. Only(p) BY <1>3 DEF Only, Typed
  <2>2. procs'[p].pc = "check" BY <1>1, <1>3 DEF Typed, Proc
  <2> QED BY <2>1, <2>2, CheckHoldsNothing
<1> QED BY <1>2, <1>3 DEF Run

LEMMA GotoMoves ==
    ASSUME Typed, NEW p \in Agents, NEW pc, Goto(p, pc)
    PROVE  /\ Only(p) /\ procs'[p].pc = pc
           /\ procs'[p].op = procs[p].op /\ procs'[p].id = procs[p].id
           /\ procs'[p].plan = procs[p].plan /\ procs'[p].high = procs[p].high
           /\ procs'[p].base = procs[p].base /\ procs'[p].todo = procs[p].todo
BY ProcType DEF Goto, Only, Typed, Proc

\* The locks stay, and so does what p holds.
LEMMA LocksStay ==
    ASSUME LockInv, NEW p \in Agents, Only(p), UNCHANGED locks, procs[p].pc # "crashed",
           HoldsList(procs'[p]) <=> HoldsList(procs[p]),
           \A i \in Ids : HoldsTask(procs'[p], i) <=> HoldsTask(procs[p], i)
    PROVE  Locked'
BY DEF LockInv, Locked, Only, locks

\* p held nothing and holds nothing.
LEMMA NothingStays ==
    ASSUME LockInv, NEW p \in Agents, Only(p), UNCHANGED locks, procs[p].pc # "crashed",
           HoldsNothing(procs[p]), HoldsNothing(procs'[p])
    PROVE  Locked'
BY LocksStay DEF HoldsNothing

LEMMA TaskTaken ==
    ASSUME LockInv, NEW p \in Agents, Only(p), procs[p].pc # "crashed", NEW i \in Ids,
           Free(taskLock[i]), taskLock' = [taskLock EXCEPT ![i] = p], listLock' = listLock,
           HoldsNothing(procs[p]), ~HoldsList(procs'[p]),
           \A j \in Ids : HoldsTask(procs'[p], j) <=> j = i
    PROVE  Locked'
<1>1. taskLock \in [Ids -> Agents \cup {NoAgent}] BY DEF LockInv, Typed, TypeOK
<1>2. ASSUME NEW q \in Agents, q # p, procs'[q].pc # "crashed"
      PROVE  /\ listLock' = q <=> HoldsList(procs'[q])
             /\ \A j \in Ids : taskLock'[j] = q <=> HoldsTask(procs'[q], j)
  <2>1. procs'[q] = procs[q] BY <1>2 DEF Only
  <2>2. taskLock[i] # q BY <1>2, <2>1, AgentsAssumption DEF Free, At
  <2> QED BY <1>1, <1>2, <2>1, <2>2 DEF LockInv, Locked
<1>3. /\ listLock' = p <=> HoldsList(procs'[p])
      /\ \A j \in Ids : taskLock'[j] = p <=> HoldsTask(procs'[p], j)
  BY <1>1 DEF LockInv, Locked, HoldsNothing
<1> QED BY <1>2, <1>3 DEF Locked

LEMMA TaskGiven ==
    ASSUME LockInv, NEW p \in Agents, Only(p), procs[p].pc # "crashed", NEW i \in Ids,
           taskLock' = [taskLock EXCEPT ![i] = NoAgent], listLock' = listLock,
           HoldsNothing(procs'[p]), ~HoldsList(procs[p]),
           \A j \in Ids : HoldsTask(procs[p], j) <=> j = i
    PROVE  Locked'
<1>1. taskLock \in [Ids -> Agents \cup {NoAgent}] BY DEF LockInv, Typed, TypeOK
<1>2. taskLock[i] = p BY DEF LockInv, Locked
<1>3. ASSUME NEW q \in Agents, q # p, procs'[q].pc # "crashed"
      PROVE  /\ listLock' = q <=> HoldsList(procs'[q])
             /\ \A j \in Ids : taskLock'[j] = q <=> HoldsTask(procs'[q], j)
  BY <1>1, <1>2, <1>3, AgentsAssumption DEF LockInv, Locked, Only
<1>4. /\ listLock' = p <=> HoldsList(procs'[p])
      /\ \A j \in Ids : taskLock'[j] = p <=> HoldsTask(procs'[p], j)
  BY <1>1, AgentsAssumption DEF LockInv, Locked, HoldsNothing
<1> QED BY <1>3, <1>4 DEF Locked

LEMMA ListTaken ==
    ASSUME LockInv, NEW p \in Agents, Only(p), procs[p].pc # "crashed",
           Free(listLock), listLock' = p, taskLock' = taskLock,
           HoldsNothing(procs[p]), HoldsList(procs'[p]),
           \A j \in Ids : ~HoldsTask(procs'[p], j)
    PROVE  Locked'
<1>1. ASSUME NEW q \in Agents, q # p, procs'[q].pc # "crashed"
      PROVE  /\ listLock' = q <=> HoldsList(procs'[q])
             /\ \A j \in Ids : taskLock'[j] = q <=> HoldsTask(procs'[q], j)
  <2>1. procs'[q] = procs[q] BY <1>1 DEF Only
  <2>2. listLock # q BY <1>1, <2>1, AgentsAssumption DEF Free, At
  <2> QED BY <1>1, <2>1, <2>2 DEF LockInv, Locked
<1> QED BY <1>1 DEF LockInv, Locked, HoldsNothing

LEMMA ListGiven ==
    ASSUME LockInv, NEW p \in Agents, Only(p), procs[p].pc # "crashed",
           listLock' = NoAgent, taskLock' = taskLock,
           HoldsList(procs[p]), HoldsNothing(procs'[p]),
           \A j \in Ids : ~HoldsTask(procs[p], j)
    PROVE  Locked'
<1>1. listLock = p BY DEF LockInv, Locked
<1> QED BY <1>1, AgentsAssumption DEF LockInv, Locked, HoldsNothing, Only

-----------------------------------------------------------------------------
(***************************************************************************)
(* Every operation keeps Locked.                                           *)
(***************************************************************************)
LEMMA BeginsLocked ==
    ASSUME LockInv, NEW p \in Agents, Begins(p)
    PROVE  Locked'
<1>1. ASSUME NEW x, At(p, "idle"), procs' = [procs EXCEPT ![p] = x], HoldsNothing(x),
             UNCHANGED locks
      PROVE  Locked'
  <2>1. Only(p) /\ procs'[p] = x BY <1>1, NextOnly DEF LockInv
  <2>2. HoldsNothing(procs[p]) /\ procs[p].pc # "crashed"
    BY <1>1 DEF At, HoldsNothing, HoldsList, HoldsTask
  <2> QED BY <1>1, <2>1, <2>2, NothingStays
<1>2. ASSUME NEW op, NEW pc, NEW id, Begin(p, op, pc, id),
             pc \in {"listlock", "dir", "edit"} \/ (pc = "mark" /\ op = "delete")
      PROVE  Locked'
  <2> DEFINE x == [Idle EXCEPT !.op = op, !.pc = pc, !.id = id]
  <2>1. x.pc = pc /\ x.op = op BY DEF Idle
  <2>2. HoldsNothing(x) BY <1>2, <2>1 DEF HoldsNothing, HoldsList, HoldsTask
  <2> QED BY <1>1, <1>2, <2>2 DEF Begin
<1>3. ASSUME NEW i, NEW j, BeginBlock(p, i, j) PROVE Locked'
  <2> DEFINE x == [Idle EXCEPT !.op = "block", !.pc = "files", !.id = i, !.high = j, !.todo = {i, j}]
  <2>1. HoldsNothing(x) BY DEF Idle, HoldsNothing, HoldsList, HoldsTask
  <2> QED BY <1>1, <1>3, <2>1 DEF BeginBlock
<1> QED BY <1>2, <1>3 DEF Begins, BeginCreate, BeginReset, BeginClear, BeginClaim, BeginUnassign,
                          BeginEdit, BeginDelete

LEMMA UpdatesLocked ==
    ASSUME LockInv, NEW p \in Agents, Updates(p)
    PROVE  Locked'
<1>0. Typed /\ procs[p].pc # "crashed" BY DEF LockInv, Updates, CheckTask, LockTask, ReadTask,
                                             TruncateTask, FillTask, At
<1> DEFINE i == Head(procs[p].plan).id
<1>1. i \in Ids BY <1>0, ProcType DEF Updates, CheckTask, LockTask, ReadTask, TruncateTask, FillTask,
                                     Item
<1>2. CASE CheckTask(p)
  <2>1. HoldsNothing(procs[p]) BY <1>2, CheckHoldsNothing DEF CheckTask, At
  <2>2. Only(p) /\ HoldsNothing(procs'[p])
    BY <1>0, <1>2, NextItemMoves, GotoMoves, CheckHoldsNothing DEF CheckTask
  <2> QED BY <1>0, <1>2, <2>1, <2>2, NothingStays DEF CheckTask
<1>3. CASE LockTask(p)
  <2>1. HoldsNothing(procs[p]) BY <1>3, CheckHoldsNothing DEF LockTask, At
  <2>2. CASE Free(taskLock[i]) /\ taskLock' = [taskLock EXCEPT ![i] = p] /\ Goto(p, "read")
    <3>1. Only(p) /\ procs'[p].pc = "read" /\ procs'[p].plan = procs[p].plan
      BY <1>0, <2>2, GotoMoves
    <3>2. ~HoldsList(procs'[p]) /\ \A j \in Ids : HoldsTask(procs'[p], j) <=> j = i
      BY <3>1 DEF HoldsList, HoldsTask
    <3>3. listLock' = listLock BY <1>3 DEF LockTask
    <3> QED BY <1>0, <1>1, <2>1, <2>2, <3>1, <3>2, <3>3, TaskTaken
  <2>3. CASE Done(p) /\ UNCHANGED taskLock
    <3>1. Only(p) /\ HoldsNothing(procs'[p]) BY <1>0, <2>3, DoneMoves
    <3> QED BY <1>0, <1>3, <2>1, <2>3, <3>1, NothingStays DEF LockTask, locks
  <2> QED BY <1>3, <2>2, <2>3 DEF LockTask, Item
<1>4. ASSUME procs[p].pc \in {"read", "truncate", "fill"}
      PROVE  ~HoldsList(procs[p]) /\ \A j \in Ids : HoldsTask(procs[p], j) <=> j = i
  BY <1>4 DEF HoldsList, HoldsTask
<1>5. ASSUME procs[p].pc \in {"read", "truncate", "fill"}, NextItem(p), Release(i),
             listLock' = listLock
      PROVE  Locked'
  <2>1. Only(p) /\ HoldsNothing(procs'[p]) BY <1>0, <1>5, NextItemMoves
  <2> QED BY <1>0, <1>1, <1>4, <1>5, <2>1, TaskGiven DEF Release
<1>6. ASSUME procs[p].pc \in {"read", "truncate", "fill"}, Only(p), UNCHANGED locks,
             procs'[p].pc \in {"read", "truncate", "fill"}, procs'[p].plan = procs[p].plan
      PROVE  Locked'
  <2>1. ~HoldsList(procs'[p]) /\ \A j \in Ids : HoldsTask(procs'[p], j) <=> j = i
    BY <1>6 DEF HoldsList, HoldsTask
  <2> QED BY <1>0, <1>4, <1>6, <2>1, LocksStay
<1>7. CASE ReadTask(p)
  <2>1. CASE Read(Item(p).id) = NoTask BY <1>5, <1>7, <2>1 DEF ReadTask, At, Item
  <2>2. CASE Read(Item(p).id) # NoTask
    <3> DEFINE x == [procs[p] EXCEPT !.pc = "truncate", !.base = Read(Item(p).id)]
    <3>1. procs' = [procs EXCEPT ![p] = x] BY <1>0, <1>7, <2>2, ProcType DEF ReadTask, Proc
    <3>2. Only(p) /\ procs'[p] = x BY <1>0, <3>1, NextOnly
    <3>3. x.pc = "truncate" /\ x.plan = procs[p].plan BY <1>0, ProcType DEF Proc
    <3> QED BY <1>6, <1>7, <2>2, <3>2, <3>3 DEF ReadTask, At, locks
  <2> QED BY <2>1, <2>2
<1>8. CASE TruncateTask(p)
  <2>1. Goto(p, "fill") /\ UNCHANGED locks /\ procs[p].pc = "truncate"
    BY <1>8 DEF TruncateTask, At
  <2>2. Only(p) /\ procs'[p].pc = "fill" /\ procs'[p].plan = procs[p].plan
    BY <1>0, <2>1, GotoMoves
  <2> QED BY <1>6, <2>1, <2>2
<1>9. CASE FillTask(p) BY <1>5, <1>9 DEF FillTask, At, Item
<1> QED BY <1>2, <1>3, <1>7, <1>8, <1>9 DEF Updates

LEMMA ReadsLocked ==
    ASSUME LockInv, NEW p \in Agents,
           ReadDir(p) \/ (\E i \in Ids : ReadFile(p, i)) \/ ClaimDir(p) \/ ChooseTask(p)
    PROVE  Locked'
<1>0. Typed /\ procs[p] \in Proc /\ Fit(procs[p]) /\ 0 \notin Ids BY ProcType DEF LockInv, Ids
<1>1. CASE ReadDir(p)
  <2> DEFINE x == [procs[p] EXCEPT !.pc = "files", !.todo = Existing, !.seen = [i \in Ids |-> NoTask]]
  <2>1. procs' = [procs EXCEPT ![p] = x] BY <1>0, <1>1 DEF ReadDir, Proc
  <2>2. Only(p) /\ procs'[p] = x BY <1>0, <2>1, NextOnly
  <2>3. x.pc = "files" /\ x.op = procs[p].op /\ x.id = procs[p].id BY <1>0 DEF Proc
  <2>4. procs[p].pc = "dir" BY <1>1 DEF ReadDir, At
  <2>5. HoldsNothing(x) BY <1>0, <2>3, <2>4 DEF Fit, HoldsNothing, HoldsList, HoldsTask
  <2>6. HoldsNothing(procs[p]) BY <2>4, CheckHoldsNothing
  <2>7. HoldsNothing(procs'[p]) BY <2>2, <2>5
  <2>8. UNCHANGED locks BY <1>1 DEF ReadDir
  <2> HIDE DEF x
  <2> QED BY <2>2, <2>4, <2>6, <2>7, <2>8, NothingStays
<1>2. ASSUME NEW i \in Ids, ReadFile(p, i) PROVE Locked'
  <2> DEFINE x == [procs[p] EXCEPT !.todo = @ \ {i}, !.seen[i] = Read(i)]
  <2>1. procs' = [procs EXCEPT ![p] = x] BY <1>0, <1>2 DEF ReadFile, Proc
  <2>2. Only(p) /\ procs'[p] = x BY <1>0, <2>1, NextOnly
  <2>3. x.pc = procs[p].pc /\ x.op = procs[p].op /\ x.id = procs[p].id /\ x.plan = procs[p].plan
    BY <1>0 DEF Proc
  <2> QED BY <1>2, <2>2, <2>3, LocksStay DEF ReadFile, At, HoldsList, HoldsTask
<1>3. CASE ClaimDir(p)
  <2> DEFINE x == [procs[p] EXCEPT !.pc = "files", !.todo = Existing]
  <2>1. procs' = [procs EXCEPT ![p] = x] BY <1>0, <1>3 DEF ClaimDir, Proc
  <2>2. Only(p) /\ procs'[p] = x BY <1>0, <2>1, NextOnly
  <2>3. x.pc = "files" /\ x.op = procs[p].op /\ x.id = procs[p].id BY <1>0 DEF Proc
  <2>4. procs[p].pc = "claimdir" /\ procs[p].op = "claim" BY <1>0, <1>3 DEF ClaimDir, At, Fit
  <2> QED BY <1>3, <2>2, <2>3, <2>4, LocksStay DEF ClaimDir, HoldsList, HoldsTask
<1>4. CASE ChooseTask(p)
  <2>1. procs[p].pc = "files" /\ procs[p].id = 0 BY <1>4 DEF ChooseTask, Listed, At
  <2>2. HoldsNothing(procs[p]) BY <1>0, <2>1 DEF HoldsNothing, HoldsList, HoldsTask
  <2>3. Only(p) /\ HoldsNothing(procs'[p])
    <3>1. CASE Done(p) BY <1>0, <3>1, DoneMoves
    <3>2. ASSUME NEW i, procs' = [procs EXCEPT ![p] = [Idle EXCEPT !.op = "claim", !.id = i,
                                                                   !.pc = "claimcheck"]]
          PROVE  Only(p) /\ HoldsNothing(procs'[p])
      <4> DEFINE x == [Idle EXCEPT !.op = "claim", !.id = i, !.pc = "claimcheck"]
      <4>1. x.pc = "claimcheck" BY DEF Idle
      <4>2. Only(p) /\ procs'[p] = x BY <1>0, <3>2, NextOnly
      <4> HIDE DEF x
      <4> QED BY <4>1, <4>2, CheckHoldsNothing
    <3> QED BY <1>4, <3>1, <3>2 DEF ChooseTask
  <2> QED BY <1>4, <2>1, <2>2, <2>3, NothingStays DEF ChooseTask
<1> QED BY <1>1, <1>2, <1>3, <1>4

LEMMA PlansLocked ==
    ASSUME LockInv, NEW p \in Agents,
           PlanDelete(p) \/ PlanBlock(p) \/ PlanUnassign(p) \/ PlanClear(p) \/ PlanEdit(p)
    PROVE  Locked'
<1>0. Typed BY DEF LockInv
<1>1. UNCHANGED locks BY DEF PlanDelete, PlanBlock, PlanUnassign, PlanClear, PlanEdit
<1>2. HoldsNothing(procs[p]) /\ procs[p].pc # "crashed"
  BY DEF PlanDelete, PlanBlock, PlanUnassign, PlanClear, PlanEdit, Listed, At,
         HoldsNothing, HoldsList, HoldsTask
<1>3. Only(p) /\ HoldsNothing(procs'[p])
  <2>1. ASSUME PlanClear(p) PROVE Done(p) \/ procs' = [procs EXCEPT ![p] =
                                    [Idle EXCEPT !.op = "clear", !.pc = "listlock"]]
    BY <2>1 DEF PlanClear
  <2>2. CASE procs' = [procs EXCEPT ![p] = [Idle EXCEPT !.op = "clear", !.pc = "listlock"]]
    <3> DEFINE x == [Idle EXCEPT !.op = "clear", !.pc = "listlock"]
    <3>1. x.pc = "listlock" BY DEF Idle
    <3>2. Only(p) /\ procs'[p] = x BY <1>0, <2>2, NextOnly
    <3> HIDE DEF x
    <3> QED BY <3>1, <3>2, CheckHoldsNothing
  <2>3. (\E plan : Run(p, plan)) \/ Done(p) \/ PlanClear(p)
    BY DEF PlanDelete, PlanBlock, PlanUnassign, PlanEdit, RunEach
  <2> QED BY <1>0, <2>1, <2>2, <2>3, RunMoves, DoneMoves
<1> QED BY <1>1, <1>2, <1>3, NothingStays

LEMMA ClaimsLocked ==
    ASSUME LockInv, NEW p \in Agents,
           ClaimCheck(p) \/ ClaimLock(p) \/ ClaimRead(p) \/ ClaimDecide(p)
    PROVE  Locked'
<1>0. Typed /\ procs[p] \in Proc /\ Fit(procs[p]) BY ProcType DEF LockInv
<1> DEFINE i == procs[p].id
<1>1. CASE ClaimCheck(p)
  <2>1. procs[p].pc = "claimcheck" BY <1>1 DEF ClaimCheck, At
  <2>2. Only(p) /\ HoldsNothing(procs'[p])
    BY <1>0, <1>1, DoneMoves, GotoMoves, CheckHoldsNothing DEF ClaimCheck
  <2> QED BY <1>1, <2>1, <2>2, NothingStays, CheckHoldsNothing DEF ClaimCheck
<1>2. CASE ClaimLock(p)
  <2>1. procs[p].pc = "claimlock" /\ i \in Ids BY <1>0, <1>2 DEF ClaimLock, At, Fit
  <2>2. HoldsNothing(procs[p]) BY <2>1, CheckHoldsNothing
  <2>3. CASE Free(taskLock[i]) /\ taskLock' = [taskLock EXCEPT ![i] = p] /\ Goto(p, "claimread")
    <3>1. Only(p) /\ procs'[p].pc = "claimread" /\ procs'[p].id = i BY <1>0, <2>3, GotoMoves
    <3>2. ~HoldsList(procs'[p]) /\ \A j \in Ids : HoldsTask(procs'[p], j) <=> j = i
      BY <3>1 DEF HoldsList, HoldsTask
    <3>3. listLock' = listLock BY <1>2 DEF ClaimLock
    <3> QED BY <2>1, <2>2, <2>3, <3>1, <3>2, <3>3, TaskTaken
  <2>4. CASE Done(p) /\ UNCHANGED taskLock
    <3>1. Only(p) /\ HoldsNothing(procs'[p]) BY <1>0, <2>4, DoneMoves
    <3>2. UNCHANGED locks BY <1>2, <2>4 DEF ClaimLock, locks
    <3> QED BY <2>1, <2>2, <3>1, <3>2, NothingStays
  <2> QED BY <1>2, <2>3, <2>4 DEF ClaimLock
<1>3. CASE ClaimRead(p)
  <2>1. procs[p].pc = "claimread" /\ procs[p].op = "claim" /\ i \in Ids
    BY <1>0, <1>3 DEF ClaimRead, At, Fit
  <2>2. ~HoldsList(procs[p]) /\ \A j \in Ids : HoldsTask(procs[p], j) <=> j = i
    BY <2>1 DEF HoldsList, HoldsTask
  <2>3. CASE Claimable(p, Read(i))
    <3> DEFINE x == [procs[p] EXCEPT !.pc = "claimdir", !.base = Read(i)]
    <3>1. procs' = [procs EXCEPT ![p] = x] BY <1>0, <1>3, <2>3 DEF ClaimRead, Proc
    <3>2. Only(p) /\ procs'[p] = x BY <1>0, <3>1, NextOnly
    <3>3. x.pc = "claimdir" /\ x.id = i BY <1>0 DEF Proc
    <3>4. ~HoldsList(x) /\ \A j \in Ids : HoldsTask(x, j) <=> j = i
      BY <3>3 DEF HoldsList, HoldsTask
    <3>5. UNCHANGED locks BY <1>3, <2>3 DEF ClaimRead, locks
    <3> QED BY <2>1, <2>2, <3>2, <3>4, <3>5, LocksStay
  <2>4. CASE ~Claimable(p, Read(i))
    <3>1. Done(p) /\ taskLock' = [taskLock EXCEPT ![i] = NoAgent] /\ listLock' = listLock
      BY <1>3, <2>4 DEF ClaimRead, Release
    <3>2. Only(p) /\ HoldsNothing(procs'[p]) BY <1>0, <3>1, DoneMoves
    <3> QED BY <2>1, <2>2, <3>1, <3>2, TaskGiven
  <2> QED BY <2>3, <2>4
<1>4. CASE ClaimDecide(p)
  <2>1. procs[p].pc = "files" /\ procs[p].op = "claim" /\ i \in Ids
    BY <1>0, <1>4, BoundsAssumption DEF ClaimDecide, Listed, At, Proc, Ids
  <2>2. ~HoldsList(procs[p]) /\ \A j \in Ids : HoldsTask(procs[p], j) <=> j = i
    BY <2>1 DEF HoldsList, HoldsTask
  <2>3. CASE procs[p].base.blockedBy \cap Unresolved(Seen(p)) # {}
    <3>1. Done(p) /\ taskLock' = [taskLock EXCEPT ![i] = NoAgent] /\ listLock' = listLock
      BY <1>4, <2>3 DEF ClaimDecide, Release
    <3>2. Only(p) /\ HoldsNothing(procs'[p]) BY <1>0, <3>1, DoneMoves
    <3> QED BY <2>1, <2>2, <3>1, <3>2, TaskGiven
  <2>4. CASE ~(procs[p].base.blockedBy \cap Unresolved(Seen(p)) # {})
    <3> DEFINE item(set) == [id |-> i, set |-> set]
               x(plan) == [Idle EXCEPT !.op = "claim", !.pc = ClaimWrites, !.id = i, !.plan = plan]
    <3>1. PICK after \in {<<>>, <<item([status |-> "in_progress"])>>, <<item([owner |-> NoAgent])>>} :
            procs' = [procs EXCEPT ![p] = x(<<item([owner |-> p])>> \o after)]
      BY <1>4, <2>4 DEF ClaimDecide
    <3>2. Only(p) /\ procs'[p] = x(<<item([owner |-> p])>> \o after)
      BY <1>0, <3>1, NextOnly
    <3> DEFINE plan == <<item([owner |-> p])>> \o after
    <3>3. Head(plan) = item([owner |-> p])
      <4>1. CASE after = <<>> BY <4>1
      <4>2. CASE after = <<item([status |-> "in_progress"])>> BY <4>2
      <4>3. CASE after = <<item([owner |-> NoAgent])>> BY <4>3
      <4> QED BY <3>1, <4>1, <4>2, <4>3
    <3>4. x(plan).pc = "read" /\ Head(x(plan).plan).id = i BY <3>3 DEF ClaimWrites, Idle
    <3>5. procs'[p] = x(plan) BY <3>2
    <3> HIDE DEF x, plan
    <3>6. ~HoldsList(procs'[p]) /\ \A j \in Ids : HoldsTask(procs'[p], j) <=> j = i
      BY <3>4, <3>5 DEF HoldsList, HoldsTask
    <3>7. UNCHANGED locks BY <1>4, <2>4 DEF ClaimDecide, locks
    <3> QED BY <2>1, <2>2, <3>2, <3>6, <3>7, LocksStay
  <2> QED BY <2>3, <2>4
<1> QED BY <1>1, <1>2, <1>3, <1>4

LEMMA CreatesLocked ==
    ASSUME LockInv, NEW p \in Agents, Creates(p)
    PROVE  Locked'
<1>0. Typed /\ procs[p] \in Proc /\ Fit(procs[p]) BY ProcType DEF LockInv
<1>1. CASE LockList(p)
  <2> DEFINE pc == IF procs[p].op = "create" THEN "scan" ELSE "high"
  <2>1. procs[p].pc = "listlock" /\ procs[p].op # "delete" BY <1>0, <1>1 DEF LockList, At, Fit
  <2>2. HoldsNothing(procs[p]) BY <2>1, CheckHoldsNothing
  <2>3. Free(listLock) /\ listLock' = p /\ taskLock' = taskLock /\ Goto(p, pc)
    BY <1>1 DEF LockList
  <2>4. Only(p) /\ procs'[p].pc = pc /\ procs'[p].op = procs[p].op BY <1>0, <2>3, GotoMoves
  <2>5. HoldsList(procs'[p]) /\ \A j \in Ids : ~HoldsTask(procs'[p], j)
    BY <2>1, <2>4 DEF HoldsList, HoldsTask
  <2> QED BY <2>1, <2>2, <2>3, <2>4, <2>5, ListTaken
<1> DEFINE Inside == {"scan", "scanfiles", "scanmark", "create", "created", "high", "mark",
                      "marktruncate", "markfill", "removals", "removing"}
<1>2. ASSUME procs[p].pc \in Inside, Only(p), UNCHANGED locks, procs'[p].pc \in Inside,
             procs'[p].op = procs[p].op
      PROVE  Locked'
  <2>1. HoldsList(procs'[p]) <=> HoldsList(procs[p]) BY <1>2 DEF HoldsList
  <2>2. \A i \in Ids : ~HoldsTask(procs'[p], i) /\ ~HoldsTask(procs[p], i) BY <1>2 DEF HoldsTask
  <2> QED BY <1>2, <2>1, <2>2, LocksStay
<1>3. ASSUME NEW x, procs[p].pc \in Inside, UNCHANGED locks, x.pc \in Inside, x.op = procs[p].op,
             procs' = [procs EXCEPT ![p] = x]
      PROVE  Locked'
  <2>1. Only(p) /\ procs'[p] = x BY <1>0, <1>3, NextOnly
  <2> QED BY <1>2, <1>3, <2>1
<1>4. ASSUME NEW pc \in Inside, procs[p].pc \in Inside, UNCHANGED locks, Goto(p, pc)
      PROVE  Locked'
  <2>1. Only(p) /\ procs'[p].pc = pc /\ procs'[p].op = procs[p].op BY <1>0, <1>4, GotoMoves
  <2> QED BY <1>2, <1>4, <2>1
<1>5. ASSUME NEW pc \in Inside, NEW h, procs[p].pc \in Inside, UNCHANGED locks,
             procs' = [procs EXCEPT ![p].high = h, ![p].pc = pc]
      PROVE  Locked'
  <2> DEFINE x == [procs[p] EXCEPT !.high = h, !.pc = pc]
  <2>1. x.pc = pc /\ x.op = procs[p].op BY <1>0 DEF Proc
  <2>2. procs' = [procs EXCEPT ![p] = x] BY <1>0, <1>5 DEF Proc
  <2>3. Only(p) /\ procs'[p] = x BY <1>0, <2>2, NextOnly
  <2>4. procs'[p].pc \in Inside /\ procs'[p].op = procs[p].op BY <2>1, <2>3
  <2> HIDE DEF x, Inside
  <2> QED BY <1>2, <1>5, <2>3, <2>4
<1>6. ASSUME procs[p].op # "delete", procs[p].pc \in Inside, Done(p), listLock' = NoAgent,
             taskLock' = taskLock
      PROVE  Locked'
  <2>1. Only(p) /\ HoldsNothing(procs'[p]) BY <1>0, <1>6, DoneMoves
  <2>2. HoldsList(procs[p]) /\ \A j \in Ids : ~HoldsTask(procs[p], j)
    BY <1>6 DEF HoldsList, HoldsTask
  <2> QED BY <1>6, <2>1, <2>2, ListGiven
<1>7. ASSUME procs[p].op = "delete", UNCHANGED locks, procs[p].pc \in Inside \cup {"unlink"},
             Goto(p, "unlink") \/ Goto(p, "dir") \/ Done(p)
      PROVE  Locked'
  <2>1. HoldsNothing(procs[p]) BY <1>7 DEF HoldsNothing, HoldsList, HoldsTask
  <2>2. Only(p) /\ HoldsNothing(procs'[p])
    BY <1>0, <1>7, GotoMoves, DoneMoves, CheckHoldsNothing
  <2> QED BY <1>7, <2>1, <2>2, NothingStays
<1>8. CASE ScanFiles(p)
  <2>1. UNCHANGED locks /\ procs[p].pc \in Inside BY <1>8 DEF ScanFiles
  <2>2. PICK h \in 0 .. MaxTasks :
          procs' = [procs EXCEPT ![p].high = AtLeast(@, h),
                                 ![p].pc = IF @ = "scan" THEN "scanmark" ELSE "create"]
    BY <1>8 DEF ScanFiles
  <2> DEFINE pc == IF procs[p].pc = "scan" THEN "scanmark" ELSE "create"
  <2>3. procs' = [procs EXCEPT ![p].high = AtLeast(procs[p].high, h), ![p].pc = pc]
    BY <1>0, <2>2 DEF Proc
  <2>4. pc \in Inside OBVIOUS
  <2> HIDE DEF pc, Inside
  <2> QED BY <1>5, <2>1, <2>3, <2>4
<1>9. CASE ScanMark(p)
  <2>1. UNCHANGED locks /\ procs[p].pc \in Inside BY <1>9 DEF ScanMark
  <2> DEFINE pc == IF procs[p].pc = "scan" THEN "scanfiles" ELSE "create"
  <2>2. procs' = [procs EXCEPT ![p].high = AtLeast(procs[p].high, ReadMark), ![p].pc = pc]
    BY <1>0, <1>9 DEF ScanMark, Proc
  <2>3. pc \in Inside OBVIOUS
  <2> HIDE DEF pc, Inside
  <2> QED BY <1>5, <2>1, <2>2, <2>3
<1>10. CASE CreateFile(p) BY <1>4, <1>10 DEF CreateFile, At
<1>11. CASE CreateFill(p)
  <2>1. procs[p].pc = "created" /\ procs[p].op # "delete" BY <1>0, <1>11 DEF CreateFill, At, Fit
  <2> QED BY <1>6, <1>11, <2>1 DEF CreateFill
<1>12. CASE ResetHigh(p)
  <2>1. UNCHANGED locks /\ procs[p].pc \in Inside BY <1>12 DEF ResetHigh, At
  <2>2. PICK h \in 0 .. MaxTasks :
          procs' = [procs EXCEPT ![p].high = h, ![p].pc = IF h > 0 THEN "mark" ELSE "removals"]
    BY <1>12 DEF ResetHigh
  <2> DEFINE pc == IF h > 0 THEN "mark" ELSE "removals"
  <2>3. pc \in Inside /\ procs' = [procs EXCEPT ![p].high = h, ![p].pc = pc] BY <2>2
  <2> HIDE DEF pc, Inside
  <2> QED BY <1>5, <2>1, <2>3
<1>13. CASE CheckMark(p) \/ FillMark(p)
  <2>1. UNCHANGED locks /\ procs[p].pc \in Inside BY <1>13 DEF CheckMark, FillMark, At
  <2>2. Goto(p, "marktruncate") \/ Goto(p, IF procs[p].op = "delete" THEN "unlink" ELSE "removals")
    BY <1>13 DEF CheckMark, FillMark, AfterMark
  <2>3. "marktruncate" \in Inside /\ "removals" \in Inside OBVIOUS
  <2> HIDE DEF Inside
  <2> QED BY <1>4, <1>7, <2>1, <2>2, <2>3
<1>14. CASE TruncateMark(p) BY <1>4, <1>14 DEF TruncateMark, At
<1>15. CASE ListRemovals(p)
  <2> DEFINE x == [procs[p] EXCEPT !.todo = Existing, !.pc = "removing"]
  <2>1. procs' = [procs EXCEPT ![p] = x] BY <1>0, <1>15 DEF ListRemovals, Proc
  <2>2. x.pc \in Inside /\ x.op = procs[p].op BY <1>0 DEF Proc
  <2>3. UNCHANGED locks /\ procs[p].pc \in Inside BY <1>15 DEF ListRemovals, At
  <2> HIDE DEF x, Inside
  <2> QED BY <1>3, <2>1, <2>2, <2>3
<1>16. CASE RemoveNext(p)
  <2>1. procs[p].pc = "removing" /\ procs[p].op # "delete" BY <1>0, <1>16 DEF RemoveNext, At, Fit
  <2>2. CASE procs[p].todo = {} BY <1>6, <1>16, <2>1, <2>2 DEF RemoveNext
  <2>3. CASE procs[p].todo # {}
    <3>1. PICK i \in procs[p].todo : procs' = [procs EXCEPT ![p].todo = @ \ {i}]
      BY <1>16, <2>3 DEF RemoveNext
    <3> DEFINE x == [procs[p] EXCEPT !.todo = @ \ {i}]
    <3>2. procs' = [procs EXCEPT ![p] = x] BY <1>0, <3>1 DEF Proc
    <3>3. x.pc \in Inside /\ x.op = procs[p].op /\ procs[p].pc \in Inside BY <1>0, <2>1 DEF Proc
    <3>4. UNCHANGED locks BY <1>16, <2>3 DEF RemoveNext, locks
    <3> HIDE DEF x, Inside
    <3> QED BY <1>3, <3>2, <3>3, <3>4
  <2> QED BY <2>2, <2>3
<1>17. CASE DeleteFile(p)
  <2>1. procs[p].pc = "unlink" /\ procs[p].op = "delete" BY <1>0, <1>17 DEF DeleteFile, At, Fit
  <2> QED BY <1>7, <1>17, <2>1 DEF DeleteFile
<1> QED BY <1>1, <1>8, <1>9, <1>10, <1>11, <1>12, <1>13, <1>14, <1>15, <1>16, <1>17 DEF Creates

LEMMA EndsLocked ==
    ASSUME LockInv, NEW p \in Agents, GiveUp(p) \/ Crash(p)
    PROVE  Locked'
<1>0. Typed BY DEF LockInv
<1>1. CASE GiveUp(p)
  <2>1. HoldsNothing(procs[p]) /\ procs[p].pc # "crashed"
    BY <1>1, CheckHoldsNothing DEF GiveUp, Waiting, At
  <2>2. Only(p) /\ HoldsNothing(procs'[p]) BY <1>0, <1>1, DoneMoves DEF GiveUp
  <2> QED BY <1>1, <2>1, <2>2, NothingStays DEF GiveUp
<1>2. CASE Crash(p)
  <2>1. Only(p) /\ procs'[p].pc = "crashed" BY <1>0, <1>2, GotoMoves DEF Crash
  <2> QED BY <1>2, <2>1 DEF Crash, Locked, LockInv, Only, locks
<1> QED BY <1>1, <1>2

LEMMA InitLocked == Init => LockInv
<1> SUFFICES ASSUME Init PROVE Locked BY InitTyped DEF LockInv
<1> QED BY IdleHoldsNothing, AgentsAssumption DEF Init, Locked, HoldsNothing

LEMMA NextLocked == LockInv /\ [Next]_vars => LockInv'
<1> SUFFICES ASSUME LockInv, [Next]_vars PROVE Locked'
  BY NextTyped DEF LockInv
<1>1. CASE UNCHANGED vars BY <1>1 DEF vars, locks, LockInv, Locked
<1>2. ASSUME NEW p \in Agents, Lists(p) PROVE Locked'
  BY <1>2, ReadsLocked, PlansLocked, ClaimsLocked DEF Lists
<1> QED BY <1>1, <1>2, BeginsLocked, UpdatesLocked, CreatesLocked, EndsLocked DEF Next

LEMMA AlwaysLocked == Spec => []LockInv
BY InitLocked, NextLocked, PTL DEF Spec

(***************************************************************************)
(* Whenever somebody waits for a lock, its holder is at work and waits for *)
(* none.                                                                   *)
(***************************************************************************)
THEOREM NeverGridlocked == Spec => []NoGridlock
<1>1. LockInv => NoGridlock
  <2> SUFFICES ASSUME LockInv, NEW p \in Agents, Waiting(p)
               PROVE  \E q \in Agents : ~At(q, "idle") /\ ~At(q, "crashed") /\ ~Waiting(q)
    BY DEF NoGridlock
  <2>0. Typed /\ procs[p] \in Proc /\ Fit(procs[p]) BY ProcType DEF LockInv
  <2>1. ASSUME NEW q \in Agents, ~At(q, "crashed"), ~HoldsNothing(procs[q])
        PROVE  ~At(q, "idle") /\ ~At(q, "crashed") /\ ~Waiting(q)
    BY <2>1, CheckHoldsNothing DEF At, Waiting, HoldsNothing, HoldsList, HoldsTask
  <2>2. CASE ~Free(listLock)
    <3>1. listLock \in Agents /\ ~At(listLock, "crashed")
      BY <2>2 DEF Free, LockInv, Typed, TypeOK
    <3>2. HoldsList(procs[listLock]) BY <3>1 DEF LockInv, Locked, At
    <3> QED BY <2>1, <3>1, <3>2 DEF HoldsNothing
  <2>3. ASSUME NEW i \in Ids, ~Free(taskLock[i])
        PROVE  \E q \in Agents : ~At(q, "idle") /\ ~At(q, "crashed") /\ ~Waiting(q)
    <3>1. taskLock[i] \in Agents /\ ~At(taskLock[i], "crashed")
      BY <2>3 DEF Free, LockInv, Typed, TypeOK
    <3>2. HoldsTask(procs[taskLock[i]], i) BY <3>1 DEF LockInv, Locked, At
    <3> QED BY <2>1, <3>1, <3>2 DEF HoldsNothing
  <2>4. At(p, "tasklock") => Item(p).id \in Ids BY <2>0, ProcType
  <2>5. At(p, "claimlock") => procs[p].id \in Ids BY <2>0 DEF At, Fit
  <2> QED BY <2>2, <2>3, <2>4, <2>5 DEF Waiting
<1> QED BY <1>1, AlwaysLocked, PTL
=============================================================================
