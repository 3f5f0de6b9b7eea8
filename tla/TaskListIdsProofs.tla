-------------------------- MODULE TaskListIdsProofs ---------------------------
(***************************************************************************)
(* Ids of TaskList: while no task is deleted, createTask gives an id once, *)
(* for any agents, operations and bounds.                                  *)
(***************************************************************************)
EXTENDS TaskListClaimProofs

Past(i) == \E j \in Ids : Exists(j) /\ i <= j
Below(h) == \A i \in Ids : Known(i) => i <= h

\* Every id that was given is not above the mark or not above a file.
Covered == \A i \in Ids : Known(i) => i <= ReadMark \/ Past(i)

(***************************************************************************)
(* What the holder of the list's lock has found out.                       *)
(***************************************************************************)
Found(x) ==
    /\ x.pc = "scanmark" => \A i \in Ids : Known(i) => i <= x.high \/ i <= ReadMark
    /\ x.pc = "scanfiles" => \A i \in Ids : Known(i) => i <= x.high \/ Past(i)
    /\ x.pc = "create" => Below(x.high)
    /\ x.pc \in {"mark", "marktruncate"} =>
         \A i \in Ids : Known(i) => i <= x.high \/ i <= ReadMark
    /\ x.pc \in {"mark", "marktruncate", "markfill"} => x.high \in Ids /\ Exists(x.high)
    /\ x.pc = "marktruncate" => ReadMark < x.high
    /\ x.pc = "markfill" => Below(x.high)
    /\ x.pc \in {"removals", "removing"} => Below(ReadMark)

NoDelete == \A p \in Agents : procs[p].op = "delete" => deleted # {}

IdsInv ==
    /\ LockInv /\ NoDelete
    /\ deleted = {} => Fresh /\ Covered /\ \A p \in Agents : Found(procs[p])

-----------------------------------------------------------------------------
(***************************************************************************)
(* Steps of p after which nothing is found out about p.                    *)
(***************************************************************************)
Calm(x) == x.pc \notin {"scanmark", "scanfiles", "create", "mark", "marktruncate", "markfill",
                        "removals", "removing"}

SameOp(p) == procs'[p].op = "delete" => procs[p].op = "delete"
Keeps == \A i \in Ids : Exists(i) => Exists(i)'

LEMMA StillIds ==
    ASSUME IdsInv, LockInv', NEW p \in Agents, Only(p), UNCHANGED <<mark, given>>, Keeps,
           deleted' = {} => deleted = {}, procs'[p].op = "delete" => deleted' # {},
           deleted = {} => Found(procs'[p]), deleted # {} => deleted' # {}
    PROVE  IdsInv'
<1>1. NoDelete' BY DEF IdsInv, NoDelete, Only
<1>2. ASSUME deleted' = {} PROVE Fresh' /\ Covered' /\ \A q \in Agents : Found(procs[q])'
  <2>1. deleted = {} /\ Fresh /\ Covered /\ Found(procs'[p]) /\ \A q \in Agents : Found(procs[q])
    BY <1>2 DEF IdsInv
  <2>2. Fresh' /\ ReadMark' = ReadMark /\ \A i \in Ids : Known(i)' <=> Known(i)
    BY <2>1 DEF Fresh, ReadMark, Known
  <2>3. \A i \in Ids : Past(i) => Past(i)' BY DEF Past, Keeps
  <2>4. Covered' BY <2>1, <2>2, <2>3 DEF Covered
  <2>5. ASSUME NEW x, Found(x), NEW q \in Agents, x = procs'[q] PROVE Found(procs[q])'
    BY <2>2, <2>3, <2>5 DEF Found, Below, Keeps
  <2>6. \A q \in Agents : Found(procs'[q]) BY <2>1 DEF Only
  <2> QED BY <2>2, <2>4, <2>5, <2>6
<1> QED BY <1>1, <1>2 DEF IdsInv

LEMMA CalmIds ==
    ASSUME IdsInv, LockInv', NEW p \in Agents, Only(p), Calm(procs'[p]), SameOp(p), Keeps,
           UNCHANGED <<mark, given, deleted>>
    PROVE  IdsInv'
<1>1. Found(procs'[p]) BY DEF Calm, Found
<1>2. procs'[p].op = "delete" => deleted' # {} BY DEF SameOp, IdsInv, NoDelete
<1> QED BY <1>1, <1>2, StillIds

LEMMA DoneCalm ==
    ASSUME Typed, NEW p \in Agents, Done(p)
    PROVE  Only(p) /\ Calm(procs'[p]) /\ SameOp(p)
<1>1. Calm(Idle) /\ Idle.op = "none" BY DEF Calm, Idle
<1>2. Only(p) /\ procs'[p] = Idle BY NextOnly DEF Done
<1> HIDE DEF Idle
<1> QED BY <1>1, <1>2 DEF SameOp

LEMMA GotoCalm ==
    ASSUME Typed, NEW p \in Agents, NEW pc, Goto(p, pc),
           pc \notin {"scanmark", "scanfiles", "create", "mark", "marktruncate", "markfill",
                      "removals", "removing"}
    PROVE  Only(p) /\ Calm(procs'[p]) /\ SameOp(p)
BY GotoMoves DEF Calm, SameOp

LEMMA CheckCalm ==
    ASSUME Typed, NEW p \in Agents, (\E plan : Run(p, plan)) \/ NextItem(p)
    PROVE  Only(p) /\ Calm(procs'[p]) /\ SameOp(p)
<1>1. procs[p] \in Proc BY ProcType
<1>2. CASE Done(p) BY <1>2, DoneCalm
<1>3. ASSUME NEW plan, procs' = [procs EXCEPT ![p].pc = "check", ![p].plan = plan,
                                  ![p].seen = [i \in Ids |-> NoTask], ![p].high = 0]
      PROVE  Only(p) /\ Calm(procs'[p]) /\ SameOp(p)
  <2>1. Only(p) BY <1>3 DEF Only, Typed
  <2>2. procs'[p].pc = "check" /\ procs'[p].op = procs[p].op BY <1>1, <1>3 DEF Typed, Proc
  <2> QED BY <2>1, <2>2 DEF Calm, SameOp
<1>4. CASE procs' = [procs EXCEPT ![p].plan = Tail(@), ![p].pc = "check", ![p].base = NoTask]
  <2>1. Only(p) BY <1>4 DEF Only, Typed
  <2>2. procs'[p].pc = "check" /\ procs'[p].op = procs[p].op BY <1>1, <1>4 DEF Typed, Proc
  <2> QED BY <2>1, <2>2 DEF Calm, SameOp
<1> QED BY <1>2, <1>3, <1>4 DEF Run, NextItem

LEMMA PutCalm ==
    ASSUME Typed, NEW p \in Agents, NEW x, procs' = [procs EXCEPT ![p] = x], Calm(x),
           x.op = "delete" => procs[p].op = "delete"
    PROVE  Only(p) /\ Calm(procs'[p]) /\ SameOp(p)
BY NextOnly DEF SameOp

LEMMA BeginsIds ==
    ASSUME IdsInv, LockInv', NEW p \in Agents, Begins(p)
    PROVE  IdsInv'
<1>0. Typed BY DEF IdsInv, LockInv
<1>1. ASSUME NEW op \in Op \ {"delete"}, NEW pc \in {"listlock", "dir", "edit"}, NEW id,
             Begin(p, op, pc, id), deleted' = deleted
      PROVE  IdsInv'
  <2> DEFINE x == [Idle EXCEPT !.op = op, !.pc = pc, !.id = id]
  <2>1. x.pc = pc /\ x.op = op BY DEF Idle
  <2>2. procs' = [procs EXCEPT ![p] = x] /\ UNCHANGED <<files, mark, given>>
    BY <1>1 DEF Begin
  <2> HIDE DEF x
  <2>3. Calm(x) BY <1>1, <2>1 DEF Calm
  <2>4. Only(p) /\ Calm(procs'[p]) /\ SameOp(p) BY <1>0, <1>1, <2>1, <2>2, <2>3, PutCalm
  <2>5. Keeps BY <2>2 DEF Keeps, Exists
  <2> QED BY <1>1, <2>2, <2>4, <2>5, CalmIds
<1>2. ASSUME NEW i \in Ids, BeginDelete(p, i) PROVE IdsInv'
  <2>1. deleted' # {} BY <1>2 DEF BeginDelete
  <2>2. ASSUME NEW q \in Agents, procs'[q].op = "delete" PROVE deleted' # {} BY <2>1
  <2> QED BY <2>1 DEF IdsInv, NoDelete
<1>3. ASSUME NEW i, NEW j, BeginBlock(p, i, j) PROVE IdsInv'
  <2> DEFINE x == [Idle EXCEPT !.op = "block", !.pc = "files", !.id = i, !.high = j, !.todo = {i, j}]
  <2>1. Calm(x) /\ x.op = "block" BY DEF Idle, Calm
  <2>2. procs' = [procs EXCEPT ![p] = x] /\ UNCHANGED <<files, mark, given, deleted>>
    BY <1>3 DEF BeginBlock, ghosts
  <2> HIDE DEF x
  <2>3. Only(p) /\ Calm(procs'[p]) /\ SameOp(p) BY <1>0, <2>1, <2>2, PutCalm
  <2>4. Keeps BY <2>2 DEF Keeps, Exists
  <2> QED BY <2>2, <2>3, <2>4, CalmIds
<1> QED BY <1>1, <1>2, <1>3 DEF Begins, BeginCreate, BeginReset, BeginClear, BeginClaim,
                                BeginUnassign, BeginEdit, Op

LEMMA EndsIds ==
    ASSUME IdsInv, LockInv', NEW p \in Agents, GiveUp(p) \/ Crash(p)
    PROVE  IdsInv'
<1>0. Typed BY DEF IdsInv, LockInv
<1>1. UNCHANGED <<mark, given, deleted>> /\ Keeps BY DEF GiveUp, Crash, ghosts, Keeps, Exists
<1>2. Only(p) /\ Calm(procs'[p]) /\ SameOp(p) BY <1>0, DoneCalm, GotoCalm DEF GiveUp, Crash
<1> QED BY <1>1, <1>2, CalmIds

LEMMA UpdatesIds ==
    ASSUME IdsInv, LockInv', NEW p \in Agents, Updates(p)
    PROVE  IdsInv'
<1>0. Typed /\ procs[p] \in Proc BY ProcType DEF IdsInv, LockInv
<1>1. UNCHANGED <<mark, given, deleted>>
  BY DEF Updates, CheckTask, LockTask, ReadTask, TruncateTask, FillTask, ghosts
<1>2. Keeps
  <2>1. CASE UNCHANGED files BY <2>1 DEF Keeps, Exists
  <2>2. CASE TruncateTask(p)
    <3>1. files' = [files EXCEPT ![Item(p).id] = Torn(p)] BY <2>2 DEF TruncateTask
    <3> QED BY <1>0, <3>1, BlankFacts DEF Keeps, Exists, Typed, TypeOK
  <2>3. CASE FillTask(p)
    <3>1. procs[p].base \in Task /\ Item(p).set \in Patch
      BY <1>0, <2>3, ProcType DEF FillTask, At, Fit
    <3>2. Apply(procs[p].base, Item(p).set) \in Task BY <3>1, ApplyType
    <3>3. Apply(procs[p].base, Item(p).set).status # "absent" BY <3>2, BlankFacts
    <3>4. UNCHANGED files \/ files' = [files EXCEPT ![Item(p).id] = Apply(procs[p].base, Item(p).set)]
      BY <2>3 DEF FillTask
    <3> QED BY <1>0, <3>3, <3>4 DEF Keeps, Exists, Typed, TypeOK
  <2> QED BY <2>1, <2>2, <2>3 DEF Updates, CheckTask, LockTask, ReadTask
<1>3. Only(p) /\ Calm(procs'[p]) /\ SameOp(p)
  <2>1. CASE Done(p) \/ NextItem(p) BY <1>0, <2>1, DoneCalm, CheckCalm
  <2>2. ASSUME NEW pc \in {"tasklock", "read", "fill"}, Goto(p, pc)
        PROVE  Only(p) /\ Calm(procs'[p]) /\ SameOp(p)
    BY <1>0, <2>2, GotoCalm
  <2>3. ASSUME ReadTask(p), ~NextItem(p) PROVE Only(p) /\ Calm(procs'[p]) /\ SameOp(p)
    <3> DEFINE x == [procs[p] EXCEPT !.pc = "truncate", !.base = Read(Item(p).id)]
    <3>1. procs' = [procs EXCEPT ![p] = x] BY <1>0, <2>3 DEF ReadTask, Proc
    <3>2. x.pc = "truncate" /\ x.op = procs[p].op BY <1>0 DEF Proc
    <3> HIDE DEF x
    <3>3. Calm(x) BY <3>2 DEF Calm
    <3> QED BY <1>0, <3>1, <3>2, <3>3, NextOnly DEF SameOp
  <2> QED BY <2>1, <2>2, <2>3 DEF Updates, CheckTask, LockTask, TruncateTask, FillTask
<1> QED BY <1>1, <1>2, <1>3, CalmIds

LEMMA ListsIds ==
    ASSUME IdsInv, LockInv', NEW p \in Agents, Lists(p)
    PROVE  IdsInv'
<1>0. Typed /\ procs[p] \in Proc BY ProcType DEF IdsInv, LockInv
<1>1. UNCHANGED <<files, mark, given, deleted>>
  BY DEF Lists, ReadDir, ReadFile, ChooseTask, PlanDelete, PlanBlock, PlanUnassign, PlanClear,
         PlanEdit, ClaimCheck, ClaimLock, ClaimRead, ClaimDir, ClaimDecide, ghosts
<1>2. Keeps BY <1>1 DEF Keeps, Exists
<1> DEFINE Calmly == Only(p) /\ Calm(procs'[p]) /\ SameOp(p)
<1> SUFFICES Calmly BY <1>1, <1>2, CalmIds
<1>3. CASE Done(p) \/ \E plan : Run(p, plan) BY <1>0, <1>3, DoneCalm, CheckCalm
<1>4. ASSUME NEW pc \in {"claimlock", "claimread"}, Goto(p, pc) PROVE Calmly
  BY <1>0, <1>4, GotoCalm
<1>5. ASSUME NEW x, procs' = [procs EXCEPT ![p] = x], x.pc \in {"files", "claimdir"},
             x.op = procs[p].op
      PROVE  Calmly
  BY <1>0, <1>5, PutCalm DEF Calm
<1>6. CASE ReadDir(p)
  <2> DEFINE x == [procs[p] EXCEPT !.pc = "files", !.todo = Existing, !.seen = [i \in Ids |-> NoTask]]
  <2>1. procs' = [procs EXCEPT ![p] = x] BY <1>0, <1>6 DEF ReadDir, Proc
  <2>2. x.pc = "files" /\ x.op = procs[p].op BY <1>0 DEF Proc
  <2> HIDE DEF x
  <2>3. \E y : y = x OBVIOUS
  <2> QED BY <1>5, <2>1, <2>2, <2>3
<1>7. ASSUME NEW i \in Ids, ReadFile(p, i) PROVE Calmly
  <2> DEFINE x == [procs[p] EXCEPT !.todo = @ \ {i}, !.seen[i] = Read(i)]
  <2>1. procs' = [procs EXCEPT ![p] = x] BY <1>0, <1>7 DEF ReadFile, Proc
  <2>2. x.pc = "files" /\ x.op = procs[p].op BY <1>0, <1>7 DEF ReadFile, At, Proc
  <2> HIDE DEF x
  <2> QED BY <1>0, <2>1, <2>2, PutCalm DEF Calm
<1>8. CASE ChooseTask(p)
  <2>1. ASSUME NEW i, procs' = [procs EXCEPT ![p] = [Idle EXCEPT !.op = "claim", !.id = i,
                                                                 !.pc = "claimcheck"]]
        PROVE  Calmly
    <3> DEFINE x == [Idle EXCEPT !.op = "claim", !.id = i, !.pc = "claimcheck"]
    <3>1. Calm(x) /\ x.op = "claim" BY DEF Calm, Idle
    <3> HIDE DEF x
    <3> QED BY <1>0, <2>1, <3>1, PutCalm DEF x
  <2> QED BY <1>3, <1>8, <2>1 DEF ChooseTask
<1>9. CASE PlanClear(p)
  <2> DEFINE x == [Idle EXCEPT !.op = "clear", !.pc = "listlock"]
  <2>1. Calm(x) /\ x.op = "clear" BY DEF Calm, Idle
  <2>2. Done(p) \/ procs' = [procs EXCEPT ![p] = x] BY <1>9 DEF PlanClear
  <2> HIDE DEF x
  <2> QED BY <1>0, <1>3, <2>1, <2>2, PutCalm
<1>10. CASE ClaimRead(p)
  <2> DEFINE x == [procs[p] EXCEPT !.pc = "claimdir", !.base = Read(procs[p].id)]
  <2>1. Done(p) \/ procs' = [procs EXCEPT ![p] = x] BY <1>0, <1>10 DEF ClaimRead, Proc
  <2>2. x.pc = "claimdir" /\ x.op = procs[p].op BY <1>0 DEF Proc
  <2> HIDE DEF x
  <2> QED BY <1>0, <1>3, <2>1, <2>2, PutCalm DEF Calm
<1>11. CASE ClaimDir(p)
  <2> DEFINE x == [procs[p] EXCEPT !.pc = "files", !.todo = Existing]
  <2>1. procs' = [procs EXCEPT ![p] = x] BY <1>0, <1>11 DEF ClaimDir, Proc
  <2>2. x.pc = "files" /\ x.op = procs[p].op BY <1>0 DEF Proc
  <2> HIDE DEF x
  <2> QED BY <1>0, <2>1, <2>2, PutCalm DEF Calm
<1>12. CASE ClaimDecide(p)
  <2>1. ASSUME NEW plan,
               procs' = [procs EXCEPT ![p] = [Idle EXCEPT !.op = "claim", !.pc = ClaimWrites,
                                                          !.id = procs[p].id, !.plan = plan]]
        PROVE  Calmly
    <3> DEFINE x == [Idle EXCEPT !.op = "claim", !.pc = ClaimWrites, !.id = procs[p].id, !.plan = plan]
    <3>1. Calm(x) /\ x.op = "claim" BY DEF Calm, Idle, ClaimWrites
    <3> HIDE DEF x
    <3> QED BY <1>0, <2>1, <3>1, PutCalm DEF x
  <2>2. Done(p) \/ \E plan :
               procs' = [procs EXCEPT ![p] = [Idle EXCEPT !.op = "claim", !.pc = ClaimWrites,
                                                          !.id = procs[p].id, !.plan = plan]]
    BY <1>12 DEF ClaimDecide
  <2> HIDE DEF Calmly
  <2> QED BY <1>3, <2>1, <2>2
<1> HIDE DEF Calmly
<1>13. CASE PlanDelete(p) \/ PlanBlock(p) \/ PlanUnassign(p) \/ PlanEdit(p)
  <2>1. Done(p) \/ \E plan : Run(p, plan)
    BY <1>13 DEF PlanDelete, PlanBlock, PlanUnassign, PlanEdit, RunEach
  <2> QED BY <1>3, <2>1
<1>14. CASE ClaimCheck(p) \/ ClaimLock(p) BY <1>3, <1>4, <1>14 DEF ClaimCheck, ClaimLock
<1> QED BY <1>6, <1>7, <1>8, <1>9, <1>10, <1>11, <1>12, <1>13, <1>14 DEF Lists

-----------------------------------------------------------------------------
(***************************************************************************)
(* createTask and resetTaskList, which work one at a time.                 *)
(***************************************************************************)
LEMMA HolderIds ==
    ASSUME IdsInv, LockInv', NEW p \in Agents, HoldsList(procs[p]), Only(p), deleted' = {},
           deleted = {}, procs'[p].op # "delete", Fresh', Covered', Found(procs[p])'
    PROVE  IdsInv'
<1>1. ASSUME NEW q \in Agents, q # p PROVE procs'[q].op # "delete" /\ Found(procs[q])'
  <2>1. procs'[q] = procs[q] /\ procs[q].op # "delete" BY <1>1 DEF Only, IdsInv, NoDelete
  <2>2. procs[p].pc # "crashed" BY DEF HoldsList
  <2>3. ~HoldsList(procs[q]) BY <1>1, <2>2 DEF IdsInv, LockInv, Locked, HoldsList
  <2>4. Calm(procs[q]) BY <2>1, <2>3 DEF HoldsList, Calm
  <2> QED BY <2>1, <2>4 DEF Calm, Found
<1> QED BY <1>1 DEF IdsInv, NoDelete

\* The highest id among the files bounds what is not above a file.
LEMMA HighestFacts ==
    ASSUME Typed, NEW h \in 0 .. MaxTasks, IsHighest(h), NEW i \in Ids, Past(i)
    PROVE  i <= h
BY BoundsAssumption DEF IsHighest, Existing, Past, Ids

LEMMA NumberFacts ==
    ASSUME IdsInv, NEW p \in Agents, deleted = {}
    PROVE  /\ Typed /\ procs[p] \in Proc /\ Covered /\ Found(procs[p]) /\ procs[p].op # "delete"
           /\ procs[p].high \in Nat /\ ReadMark \in Nat
<1>1. Typed /\ procs[p] \in Proc BY ProcType DEF IdsInv, LockInv
<1>2. Covered /\ Found(procs[p]) /\ procs[p].op # "delete" BY DEF IdsInv, NoDelete
<1>3. procs[p].high \in Nat BY <1>1, BoundsAssumption DEF Proc
<1>4. ReadMark \in Nat
  <2>1. mark = TornMark \/ mark \in 0 .. MaxTasks BY <1>1 DEF Typed, TypeOK
  <2> QED BY <2>1, BoundsAssumption DEF ReadMark
<1> QED BY <1>1, <1>2, <1>3, <1>4

LEMMA ScansIds ==
    ASSUME IdsInv, LockInv', NEW p \in Agents, deleted = {},
           ScanFiles(p) \/ ScanMark(p) \/ ResetHigh(p) \/ CheckMark(p) \/ ListRemovals(p)
    PROVE  IdsInv'
<1>0. /\ Typed /\ procs[p] \in Proc /\ Covered /\ Found(procs[p]) /\ procs[p].op # "delete"
      /\ procs[p].high \in Nat /\ ReadMark \in Nat
  BY NumberFacts
<1>1. UNCHANGED <<mark, given, deleted>> /\ Keeps
  BY DEF ScanFiles, ScanMark, ResetHigh, CheckMark, ListRemovals, ghosts, Keeps, Exists
<1>2. ASSUME NEW x, procs' = [procs EXCEPT ![p] = x], x.op = procs[p].op, Found(x) PROVE IdsInv'
  <2>1. Only(p) /\ procs'[p] = x BY <1>0, <1>2, NextOnly
  <2> QED BY <1>0, <1>1, <1>2, <2>1, StillIds
<1>3. ASSUME NEW pc, NEW h,
             procs' = [procs EXCEPT ![p].high = h, ![p].pc = pc], Found([procs[p] EXCEPT !.high = h, !.pc = pc])
      PROVE  IdsInv'
  <2> DEFINE x == [procs[p] EXCEPT !.high = h, !.pc = pc]
  <2>1. x.op = procs[p].op BY <1>0 DEF Proc
  <2>2. procs' = [procs EXCEPT ![p] = x] BY <1>0, <1>3 DEF Proc
  <2>3. Found(x) BY <1>3
  <2> HIDE DEF x
  <2> QED BY <1>2, <2>1, <2>2, <2>3
<1>4. CASE ScanFiles(p)
  <2>1. PICK h \in 0 .. MaxTasks :
          /\ IsHighest(h)
          /\ procs' = [procs EXCEPT ![p].high = AtLeast(@, h),
                                    ![p].pc = IF @ = "scan" THEN "scanmark" ELSE "create"]
    BY <1>4 DEF ScanFiles
  <2> DEFINE pc == IF procs[p].pc = "scan" THEN "scanmark" ELSE "create"
             k == AtLeast(procs[p].high, h)
  <2>2. procs' = [procs EXCEPT ![p].high = k, ![p].pc = pc] BY <1>0, <2>1 DEF Proc
  <2>3. k \in Nat /\ procs[p].high <= k /\ h <= k BY <1>0, <2>1, BoundsAssumption DEF AtLeast
  <2>4. \A i \in Ids : Past(i) => i <= k
    BY <1>0, <2>1, <2>3, HighestFacts, BoundsAssumption DEF Ids
  <2>5. pc = "scanmark" => \A i \in Ids : Known(i) => i <= k \/ i <= ReadMark
    BY <1>0, <2>4 DEF Covered
  <2>6. pc = "create" => Below(k)
    BY <1>0, <1>4, <2>3, <2>4, BoundsAssumption DEF ScanFiles, Found, Below, Ids
  <2>7. pc \in {"scanmark", "create"} OBVIOUS
  <2> DEFINE x == [procs[p] EXCEPT !.high = k, !.pc = pc]
  <2> HIDE DEF k, pc
  <2>8. x.high = k /\ x.pc = pc BY <1>0 DEF Proc
  <2> HIDE DEF x
  <2>9. Found(x) BY <2>5, <2>6, <2>7, <2>8 DEF Found
  <2> QED BY <1>3, <2>2, <2>9 DEF x
<1>5. CASE ScanMark(p)
  <2> DEFINE pc == IF procs[p].pc = "scan" THEN "scanfiles" ELSE "create"
             k == AtLeast(procs[p].high, ReadMark)
  <2>1. procs' = [procs EXCEPT ![p].high = k, ![p].pc = pc] BY <1>0, <1>5 DEF ScanMark, Proc
  <2>2. k \in Nat /\ procs[p].high <= k /\ ReadMark <= k BY <1>0 DEF AtLeast
  <2>3. \A i \in Ids : i <= ReadMark => i <= k BY <1>0, <2>2, BoundsAssumption DEF Ids
  <2>4. pc = "scanfiles" => \A i \in Ids : Known(i) => i <= k \/ Past(i)
    BY <1>0, <2>3 DEF Covered
  <2>5. pc = "create" => Below(k)
    BY <1>0, <1>5, <2>2, <2>3, BoundsAssumption DEF ScanMark, Found, Below, Ids
  <2>6. pc \in {"scanfiles", "create"} OBVIOUS
  <2> DEFINE x == [procs[p] EXCEPT !.high = k, !.pc = pc]
  <2> HIDE DEF k, pc
  <2>7. x.high = k /\ x.pc = pc BY <1>0 DEF Proc
  <2> HIDE DEF x
  <2>8. Found(x) BY <2>4, <2>5, <2>6, <2>7 DEF Found
  <2> QED BY <1>3, <2>1, <2>8 DEF x
<1>6. CASE ResetHigh(p)
  <2>1. PICK h \in 0 .. MaxTasks :
          /\ IsHighest(h)
          /\ procs' = [procs EXCEPT ![p].high = h, ![p].pc = IF h > 0 THEN "mark" ELSE "removals"]
    BY <1>6 DEF ResetHigh
  <2> DEFINE pc == IF h > 0 THEN "mark" ELSE "removals"
             x == [procs[p] EXCEPT !.high = h, !.pc = pc]
  <2>2. x.high = h /\ x.pc = pc BY <1>0 DEF Proc
  <2>3. \A i \in Ids : Past(i) => i <= h BY <1>0, <2>1, HighestFacts
  <2>4. pc = "mark" => h \in Ids /\ Exists(h)
    BY <2>1, BoundsAssumption DEF IsHighest, Existing, Ids
  <2>5. pc = "removals" => Below(ReadMark)
    BY <1>0, <2>1, <2>3, BoundsAssumption DEF Covered, Below, Ids
  <2>6. pc \in {"mark", "removals"} OBVIOUS
  <2>7. procs' = [procs EXCEPT ![p].high = h, ![p].pc = pc] BY <2>1
  <2> HIDE DEF pc, x
  <2>8. Found(x) BY <1>0, <2>2, <2>3, <2>4, <2>5, <2>6 DEF Found, Covered
  <2> QED BY <1>3, <2>7, <2>8 DEF x
<1>7. CASE CheckMark(p)
  <2> DEFINE pc == IF procs[p].high > ReadMark THEN "marktruncate" ELSE "removals"
             x == [procs[p] EXCEPT !.pc = pc]
  <2>1. procs' = [procs EXCEPT ![p] = x] BY <1>0, <1>7 DEF CheckMark, Goto, Wanted, AfterMark, Proc
  <2>2. x.high = procs[p].high /\ x.pc = pc /\ x.op = procs[p].op BY <1>0 DEF Proc
  <2>3. pc = "marktruncate" => ReadMark < procs[p].high BY <1>0
  <2>4. pc = "removals" => Below(ReadMark)
    BY <1>0, <1>7, BoundsAssumption DEF CheckMark, At, Found, Below, Ids
  <2>5. pc \in {"marktruncate", "removals"} OBVIOUS
  <2> HIDE DEF pc, x
  <2>6. Found(x) BY <1>0, <1>7, <2>2, <2>3, <2>4, <2>5 DEF CheckMark, At, Found
  <2> QED BY <1>2, <2>1, <2>2, <2>6
<1>8. CASE ListRemovals(p)
  <2> DEFINE x == [procs[p] EXCEPT !.todo = Existing, !.pc = "removing"]
  <2>1. procs' = [procs EXCEPT ![p] = x] BY <1>0, <1>8 DEF ListRemovals, Proc
  <2>2. x.pc = "removing" /\ x.op = procs[p].op BY <1>0 DEF Proc
  <2> HIDE DEF x
  <2>3. Found(x) BY <1>0, <1>8, <2>2 DEF ListRemovals, At, Found
  <2> QED BY <1>0, <1>1, <2>1, <2>2, <2>3, NextOnly, StillIds
<1> QED BY <1>4, <1>5, <1>6, <1>7, <1>8

LEMMA CreatesOneId ==
    ASSUME IdsInv, LockInv', NEW p \in Agents, deleted = {}, CreateFile(p)
    PROVE  IdsInv'
<1>0. /\ Typed /\ procs[p] \in Proc /\ Covered /\ Found(procs[p]) /\ procs[p].op # "delete"
      /\ procs[p].high \in Nat /\ ReadMark \in Nat
  BY NumberFacts
<1>1. procs[p].high + 1 \in Ids BY <1>0, BoundsAssumption DEF CreateFile, Proc, Ids
<1> SUFFICES ASSUME NEW i \in Ids, i = procs[p].high + 1 PROVE IdsInv'
  BY <1>1
<1>2. given \in Seq(Ids) /\ given' = Append(given, i)
  BY <1>0 DEF CreateFile, Typed, TypeOK
<1>3. /\ DOMAIN given = 1 .. Len(given) /\ DOMAIN given' = 1 .. Len(given) + 1
      /\ Len(given) \in Nat /\ given'[Len(given) + 1] = i
      /\ \A n \in DOMAIN given : given'[n] = given[n] /\ given[n] \in Ids
  BY <1>2, AppendProperties, LenProperties
<1>4. \A j \in Ids : Known(j)' => Known(j) \/ j = i BY <1>3 DEF Known
<1>5. ~Known(i) BY <1>0, BoundsAssumption DEF CreateFile, At, Found, Below, Ids
<1>6. Fresh'
  <2>1. Fresh BY DEF IdsInv
  <2>2. \A n \in DOMAIN given : given[n] # i BY <1>5 DEF Known
  <2> QED BY <1>3, <2>1, <2>2 DEF Fresh
<1>7. files' = [files EXCEPT ![i] = Torn(p)] BY DEF CreateFile
<1>8. Keeps /\ Exists(i)' BY <1>0, <1>7, BlankFacts DEF Keeps, Exists, Typed, TypeOK
<1>9. Covered'
  <2>1. ReadMark' = ReadMark BY DEF CreateFile, ReadMark
  <2>2. \A j \in Ids : Past(j) => Past(j)' BY <1>8 DEF Past, Keeps
  <2>3. Past(i)' BY <1>8, BoundsAssumption DEF Past, Ids
  <2> QED BY <1>0, <1>4, <2>1, <2>2, <2>3 DEF Covered
<1>10. Only(p) /\ procs'[p].pc = "created" /\ procs'[p].op = procs[p].op
  BY <1>0, GotoMoves DEF CreateFile
<1>11. Found(procs[p])' BY <1>10 DEF Found
<1>12. HoldsList(procs[p]) /\ deleted' = {} BY <1>0 DEF CreateFile, At, HoldsList
<1> QED BY <1>0, <1>6, <1>9, <1>10, <1>11, <1>12, HolderIds

\* The mark is raised while the highest task is still there.
LEMMA MarksIds ==
    ASSUME IdsInv, LockInv', NEW p \in Agents, deleted = {}, TruncateMark(p) \/ FillMark(p)
    PROVE  IdsInv'
<1>0. /\ Typed /\ procs[p] \in Proc /\ Covered /\ Found(procs[p]) /\ procs[p].op # "delete"
      /\ procs[p].high \in Nat /\ ReadMark \in Nat
  BY NumberFacts
<1>1. files' = files /\ given' = given /\ deleted' = deleted BY DEF TruncateMark, FillMark, ghosts
<1>2. Fresh' BY <1>1 DEF IdsInv, Fresh
<1>3. procs[p].pc \in {"marktruncate", "markfill"} BY DEF TruncateMark, FillMark, At
<1>4. procs[p].high \in Ids /\ Exists(procs[p].high) BY <1>0, <1>3 DEF Found
<1>5. Below(procs[p].high)
  BY <1>0, <1>3, BoundsAssumption DEF Found, Below, Ids
<1>6. \A i \in Ids : Known(i) => Past(i) BY <1>4, <1>5 DEF Past, Below
<1>7. Covered' BY <1>1, <1>6 DEF Covered, Past, Exists, Known
<1>8. HoldsList(procs[p]) BY <1>0, <1>3 DEF HoldsList
<1>9. CASE TruncateMark(p)
  <2>1. /\ Only(p) /\ procs'[p].pc = "markfill" /\ procs'[p].op = procs[p].op
        /\ procs'[p].high = procs[p].high
    BY <1>0, <1>9, GotoMoves DEF TruncateMark
  <2>2. Below(procs[p].high)' BY <1>1, <1>5, <2>1 DEF Below, Known
  <2>3. Exists(procs[p].high)' BY <1>1, <1>4, <2>1 DEF Exists
  <2>4. Found(procs[p])' BY <1>4, <2>1, <2>2, <2>3 DEF Found
  <2> QED BY <1>0, <1>1, <1>2, <1>7, <1>8, <2>1, <2>4, HolderIds
<1>10. CASE FillMark(p)
  <2>1. Only(p) /\ procs'[p].pc = "removals" /\ procs'[p].op = procs[p].op
    BY <1>0, <1>10, GotoMoves DEF FillMark, AfterMark
  <2>2. mark' = procs[p].high BY <1>0, <1>10 DEF FillMark, Wanted
  <2>3. ReadMark' = procs[p].high BY <1>0, <2>2 DEF ReadMark, TornMark
  <2>4. Below(ReadMark)' BY <1>1, <1>5, <2>3 DEF Below, Known
  <2>5. Found(procs[p])' BY <2>1, <2>4 DEF Found
  <2> QED BY <1>0, <1>1, <1>2, <1>7, <1>8, <2>1, <2>5, HolderIds
<1> QED BY <1>9, <1>10

LEMMA RemovesIds ==
    ASSUME IdsInv, LockInv', NEW p \in Agents, deleted = {}, RemoveNext(p)
    PROVE  IdsInv'
<1>0. /\ Typed /\ procs[p] \in Proc /\ Covered /\ Found(procs[p]) /\ procs[p].op # "delete"
      /\ procs[p].high \in Nat /\ ReadMark \in Nat
  BY NumberFacts
<1>1. UNCHANGED <<mark, given, deleted>> BY DEF RemoveNext
<1>2. CASE procs[p].todo = {}
  <2>1. Done(p) /\ files' = files BY <1>2 DEF RemoveNext
  <2>2. Keeps BY <2>1 DEF Keeps, Exists
  <2> QED BY <1>0, <1>1, <2>1, <2>2, DoneCalm, CalmIds
<1>3. CASE procs[p].todo # {}
  <2>1. PICK i \in procs[p].todo : procs' = [procs EXCEPT ![p].todo = @ \ {i}]
    BY <1>3 DEF RemoveNext
  <2> DEFINE x == [procs[p] EXCEPT !.todo = @ \ {i}]
  <2>2. procs' = [procs EXCEPT ![p] = x] BY <1>0, <2>1 DEF Proc
  <2>3. x.pc = procs[p].pc /\ x.op = procs[p].op /\ procs[p].pc = "removing"
    BY <1>0 DEF RemoveNext, At, Proc
  <2>4. Only(p) /\ procs'[p] = x BY <1>0, <2>2, NextOnly
  <2> HIDE DEF x
  <2>5. Below(ReadMark) BY <1>0, <2>3 DEF Found
  <2>6. Below(ReadMark)' BY <1>1, <2>5 DEF Below, Known, ReadMark
  <2>7. Fresh' /\ Covered' BY <1>1, <2>6 DEF IdsInv, Fresh, Covered, Below
  <2>8. Found(procs[p])' BY <2>3, <2>4, <2>6 DEF Found
  <2>9. HoldsList(procs[p]) BY <1>0, <2>3 DEF HoldsList
  <2> QED BY <1>0, <1>1, <2>3, <2>4, <2>7, <2>8, <2>9, HolderIds
<1> QED BY <1>2, <1>3

LEMMA CreatesIds ==
    ASSUME IdsInv, LockInv', NEW p \in Agents, Creates(p)
    PROVE  IdsInv'
<1>0. Typed /\ procs[p] \in Proc /\ Fit(procs[p]) BY ProcType DEF IdsInv, LockInv
<1>1. deleted' = deleted
  BY DEF Creates, LockList, ScanFiles, ScanMark, CreateFile, CreateFill, ResetHigh, CheckMark,
         TruncateMark, FillMark, ListRemovals, RemoveNext, DeleteFile, ghosts
<1>2. CASE deleted # {} BY <1>1, <1>2 DEF IdsInv, NoDelete
<1>3. CASE deleted = {}
  <2>1. CASE LockList(p)
    <3>1. UNCHANGED <<mark, given>> /\ Keeps BY <2>1 DEF LockList, ghosts, Keeps, Exists
    <3>2. \E pc \in {"scan", "high"} : Goto(p, pc) BY <2>1 DEF LockList
    <3> QED BY <1>0, <1>1, <3>1, <3>2, GotoCalm, CalmIds
  <2>2. CASE CreateFill(p)
    <3>1. UNCHANGED <<mark, given>> /\ Done(p) BY <2>2 DEF CreateFill, ghosts
    <3>2. files' = files \/ files' = [files EXCEPT ![procs[p].high + 1] = Blank]
      BY <2>2 DEF CreateFill
    <3>3. Keeps BY <1>0, <3>2, BlankFacts DEF Keeps, Exists, Typed, TypeOK
    <3> QED BY <1>0, <1>1, <3>1, <3>3, DoneCalm, CalmIds
  <2>3. ~DeleteFile(p) BY <1>0, <1>3 DEF DeleteFile, At, Fit, IdsInv, NoDelete
  <2> QED BY <1>3, <2>1, <2>2, <2>3, ScansIds, CreatesOneId, MarksIds, RemovesIds DEF Creates
<1> QED BY <1>2, <1>3

-----------------------------------------------------------------------------
LEMMA InitIds == Init => IdsInv
<1> SUFFICES ASSUME Init PROVE IdsInv OBVIOUS
<1>0. LockInv BY InitLocked
<1>1. \A p \in Agents : procs[p] = Idle BY DEF Init
<1>2. Idle.pc = "idle" /\ Idle.op = "none" BY DEF Idle
<1> HIDE DEF Idle
<1>3. NoDelete /\ \A p \in Agents : Found(procs[p]) BY <1>1, <1>2 DEF NoDelete, Found
<1>4. PICK n \in 0 .. MaxTasks :
        given = [i \in 1 .. n |-> i] /\ \A i \in Ids : i <= n => files[i].status = "pending"
  <2> DEFINE Edges(n) == {{}} \cup (IF n >= 2 THEN {{2}} ELSE {})
             First(i, edge) == [Blank EXCEPT !.blocks = IF i = 1 THEN edge ELSE {},
                                             !.blockedBy = IF i = 2 /\ edge # {} THEN {1} ELSE {}]
  <2>1. \A i, edge : First(i, edge).status = "pending" BY DEF Blank
  <2>2. \E n \in 0 .. MaxTasks :
          /\ \E edge \in Edges(n) : files = [i \in Ids |-> IF i > n THEN NoTask ELSE First(i, edge)]
          /\ given = [i \in 1 .. n |-> i]
    BY DEF Init
  <2> HIDE DEF Edges, First
  <2>3. PICK n \in 0 .. MaxTasks :
          /\ \E edge \in Edges(n) : files = [i \in Ids |-> IF i > n THEN NoTask ELSE First(i, edge)]
          /\ given = [i \in 1 .. n |-> i]
    BY <2>2
  <2>4. \A i \in Ids : i <= n => ~(i > n) BY <2>3, BoundsAssumption DEF Ids
  <2>5. \A i \in Ids : i <= n => files[i].status = "pending" BY <2>1, <2>3, <2>4
  <2> QED BY <2>3, <2>5
<1>5. Fresh BY <1>4 DEF Fresh
<1>6. ASSUME NEW i \in Ids, Known(i) PROVE Past(i)
  <2>1. i \in 1 .. n BY <1>4, <1>6 DEF Known
  <2>2. i <= n /\ i <= i BY <2>1
  <2> QED BY <1>4, <2>2 DEF Past, Exists
<1> QED BY <1>0, <1>3, <1>5, <1>6 DEF IdsInv, Covered

LEMMA NextIds == IdsInv /\ [Next]_vars => IdsInv'
<1> SUFFICES ASSUME IdsInv, [Next]_vars PROVE IdsInv' OBVIOUS
<1>0. LockInv' BY NextLocked DEF IdsInv
<1>1. CASE UNCHANGED vars
  <2>1. UNCHANGED <<files, mark, given, deleted, procs>> BY <1>1 DEF vars, ghosts
  <2>2. (Fresh' <=> Fresh) /\ (NoDelete' <=> NoDelete) BY <2>1 DEF Fresh, NoDelete
  <2>3. Covered' <=> Covered BY <2>1 DEF Covered, Known, Past, Exists, ReadMark
  <2>4. ASSUME NEW p \in Agents, Found(procs[p]) PROVE Found(procs[p])'
    BY <2>1, <2>4 DEF Found, Below, Known, Past, Exists, ReadMark
  <2> QED BY <1>0, <2>1, <2>2, <2>3, <2>4 DEF IdsInv
<1> QED BY <1>0, <1>1, BeginsIds, UpdatesIds, ListsIds, CreatesIds, EndsIds DEF Next

LEMMA AlwaysIds == Spec => []IdsInv
BY InitIds, NextIds, PTL DEF Spec

(***************************************************************************)
(* Where no task is deleted, createTask gives an id once, whatever resets, *)
(* updates that bring a removed file back and crashes come in between.     *)
(***************************************************************************)
THEOREM IdsGivenOnce == Spec => []IdsFresh
<1>1. IdsInv => IdsFresh BY DEF IdsInv, IdsFresh
<1> QED BY <1>1, AlwaysIds, PTL
=============================================================================
