------------------------------- MODULE TaskList -------------------------------
(***************************************************************************)
(* The task list several agents share through files (utils/tasks.ts): one  *)
(* JSON file per task, a file with the highest id ever removed, a lock of  *)
(* the list and a lock per task.  The callers are teammates that claim     *)
(* tasks (tryClaimNextTask, useTaskListWatcher), TaskCreate, TaskUpdate,   *)
(* TeamCreate, the timer that clears a completed list (useTasksV2) and the *)
(* leader that unassigns a teammate's tasks.                               *)
(*                                                                         *)
(* A step is one call of the file system or of proper-lockfile.  A         *)
(* writeFile truncates, then writes: in between the file reads as no task  *)
(* (getTask returns null on a parse error) or as no mark (0).  A process   *)
(* may crash at any step; its locks become stale and are taken over.       *)
(***************************************************************************)
EXTENDS Integers, Sequences, FiniteSets

CONSTANTS
    Agents,      \* the processes; each one claims under its own name
    NoAgent,     \* no owner, no holder of a lock
    MaxTasks,    \* BOUND: highest task id
    MaxOps,      \* BOUND: operations begun
    MaxCrashes,  \* BOUND: processes that crash
    Ops          \* the operations of the instance, see Op

Ids == 1 .. MaxTasks
Op == {"create", "claim", "edit", "delete", "block", "reset", "clear", "unassign"}

ASSUME AgentsAssumption == NoAgent \notin Agents /\ Ops \subseteq Op
ASSUME BoundsAssumption == MaxTasks \in Nat /\ MaxOps \in Nat /\ MaxCrashes \in Nat

VARIABLES
    files,     \* id -> the content of its file, NoTask or Torn
    mark,      \* .highwatermark, or TornMark
    listLock,  \* holder of the lock of the list
    taskLock,  \* id -> holder of the lock of the task
    procs,     \* agent -> the operation it is in
    given,     \* the ids createTask has assigned, in order
    deleted,   \* the ids deleteTask was called for
    claims,    \* id -> the agents whose claim stands, see ClaimHeld
    ops,       \* operations begun
    crashes    \* processes crashed

locks == <<listLock, taskLock>>
ghosts == <<given, deleted, claims>>
budget == <<ops, crashes>>
vars == <<files, mark, locks, procs, ghosts, budget>>

Status == {"pending", "in_progress", "completed"}
Task == [status : Status, owner : Agents \cup {NoAgent},
         blocks : SUBSET Ids, blockedBy : SUBSET Ids]

Blank == [status |-> "pending", owner |-> NoAgent, blocks |-> {}, blockedBy |-> {}]
NoTask == [Blank EXCEPT !.status = "absent"]
Torn(p) == [Blank EXCEPT !.status = "torn", !.owner = p]  \* p is writing it
TornMark == -1

Exists(i) == files[i].status # "absent"
Existing == {i \in Ids : Exists(i)}
IsHighest(h) ==
    /\ \A i \in Existing : i <= h
    /\ h = 0 \/ h \in Existing

\* getTask, readHighWaterMark
Read(i) == IF files[i].status \in Status THEN files[i] ELSE NoTask
ReadMark == IF mark = TornMark THEN 0 ELSE mark

(***************************************************************************)
(* What a process is doing: `id' is the task its operation is about,       *)
(* `todo' the files still to be read or removed, `seen' what was read,     *)
(* `plan' the updateTask calls still to be made, `base' what was read      *)
(* under the task's lock, `high' a number for the mark or the next id.     *)
(***************************************************************************)
Idle == [op |-> "none", pc |-> "idle", id |-> 0, todo |-> {},
         seen |-> [i \in Ids |-> NoTask], plan |-> <<>>, base |-> NoTask, high |-> 0]

Goto(p, pc) == procs' = [procs EXCEPT ![p].pc = pc]
Done(p) == procs' = [procs EXCEPT ![p] = Idle]
At(p, pc) == procs[p].pc = pc

\* A lock whose holder crashed goes stale.
Free(holder) == IF holder = NoAgent THEN TRUE ELSE At(holder, "crashed")

Init ==
    /\ \E n \in 0 .. MaxTasks :
         /\ \E edge \in {{}} \cup (IF n >= 2 THEN {{2}} ELSE {}) :
              files = [i \in Ids |->
                         IF i > n THEN NoTask
                         ELSE [Blank EXCEPT !.blocks = IF i = 1 THEN edge ELSE {},
                                            !.blockedBy = IF i = 2 /\ edge # {} THEN {1} ELSE {}]]
         /\ given = [i \in 1 .. n |-> i]
    /\ mark = 0
    /\ listLock = NoAgent /\ taskLock = [i \in Ids |-> NoAgent]
    /\ procs = [p \in Agents |-> Idle]
    /\ deleted = {} /\ claims = [i \in Ids |-> {}]
    /\ ops = 0 /\ crashes = 0

-----------------------------------------------------------------------------
(***************************************************************************)
(* An operation begins.                                                    *)
(***************************************************************************)
Begin(p, op, pc, id) ==
    /\ At(p, "idle") /\ ops < MaxOps /\ op \in Ops
    /\ ops' = ops + 1
    /\ procs' = [procs EXCEPT ![p] = [Idle EXCEPT !.op = op, !.pc = pc, !.id = id]]
    /\ UNCHANGED <<files, mark, locks, given, claims, crashes>>

BeginCreate(p) == Begin(p, "create", "listlock", 0) /\ deleted' = deleted
BeginReset(p) == Begin(p, "reset", "listlock", 0) /\ deleted' = deleted

\* These first list the tasks.
BeginClear(p) == Begin(p, "clear", "dir", 0) /\ deleted' = deleted
BeginClaim(p) == Begin(p, "claim", "dir", 0) /\ deleted' = deleted
BeginUnassign(p) == Begin(p, "unassign", "dir", 0) /\ deleted' = deleted

BeginEdit(p, i) == Begin(p, "edit", "edit", i) /\ deleted' = deleted
BeginDelete(p, i) == Begin(p, "delete", "mark", i) /\ deleted' = deleted \cup {i}

\* blockTask reads both tasks, without a lock.
BeginBlock(p, i, j) ==
    /\ i # j /\ At(p, "idle") /\ ops < MaxOps /\ "block" \in Ops
    /\ ops' = ops + 1
    /\ procs' = [procs EXCEPT ![p] = [Idle EXCEPT !.op = "block", !.pc = "files",
                                       !.id = i, !.high = j, !.todo = {i, j}]]
    /\ UNCHANGED <<files, mark, locks, ghosts, crashes>>

-----------------------------------------------------------------------------
(***************************************************************************)
(* updateTask for the first item of the plan.                              *)
(***************************************************************************)
Item(p) == Head(procs[p].plan)
Apply(task, set) == [f \in DOMAIN task |-> IF f \in DOMAIN set THEN set[f] ELSE task[f]]

\* The plan goes on with its next item, or the operation is over.
NextItem(p) ==
    IF Len(procs[p].plan) <= 1
    THEN Done(p)
    ELSE procs' = [procs EXCEPT ![p].plan = Tail(@), ![p].pc = "check", ![p].base = NoTask]

Release(i) == taskLock' = [taskLock EXCEPT ![i] = NoAgent]

\* The task is read before the lock is taken, only to see that it exists.
CheckTask(p) ==
    /\ At(p, "check")
    /\ IF Read(Item(p).id) = NoTask THEN NextItem(p) ELSE Goto(p, "tasklock")
    /\ UNCHANGED <<files, mark, locks, ghosts, budget>>

\* Mutant: the task is not locked.
LockTaskNever(p) ==
    /\ At(p, "tasklock") /\ Goto(p, "read")
    /\ UNCHANGED <<files, mark, locks, ghosts, budget>>

\* lockfile.lock throws when the file is gone at its first attempt (later
\* ones only wait for the lock): the operation ends.
LockTask(p) ==
    /\ At(p, "tasklock")
    /\ LET i == Item(p).id IN
       \/ Free(taskLock[i]) /\ taskLock' = [taskLock EXCEPT ![i] = p] /\ Goto(p, "read")
       \/ ~Exists(i) /\ Done(p) /\ UNCHANGED taskLock
    /\ UNCHANGED <<files, mark, listLock, ghosts, budget>>

\* updateTaskUnsafe: null, and nothing written, when the task is gone.
ReadTask(p) ==
    /\ At(p, "read")
    /\ LET i == Item(p).id IN
       IF Read(i) = NoTask
       THEN NextItem(p) /\ Release(i)
       ELSE /\ procs' = [procs EXCEPT ![p].pc = "truncate", ![p].base = Read(i)]
            /\ UNCHANGED taskLock
    /\ UNCHANGED <<files, mark, listLock, ghosts, budget>>

\* writeFile begins: a file unlinked in the meantime is created again.
TruncateTask(p) ==
    /\ At(p, "truncate")
    /\ files' = [files EXCEPT ![Item(p).id] = Torn(p)]
    /\ Goto(p, "fill")
    /\ UNCHANGED <<mark, locks, ghosts, budget>>

\* What an owner-changing update does to the claims of a task.
Standing(p, i) ==
    IF "owner" \notin DOMAIN Item(p).set THEN claims[i]
    ELSE IF Item(p).set.owner = p /\ procs[p].op = "claim" THEN claims[i] \cup {p} ELSE {}

\* The content arrives, unless the file it was opened for has been unlinked.
\* (Two writers of one file need an id given twice, see Fresh.)
FillTask(p) ==
    /\ At(p, "fill")
    /\ LET i == Item(p).id IN
       /\ IF files[i] = Torn(p)
          THEN /\ files' = [files EXCEPT ![i] = Apply(procs[p].base, Item(p).set)]
               /\ claims' = [claims EXCEPT ![i] = Standing(p, i)]
          ELSE UNCHANGED <<files, claims>>
       /\ Release(i)
    /\ NextItem(p)
    /\ UNCHANGED <<mark, listLock, given, deleted, budget>>

-----------------------------------------------------------------------------
(***************************************************************************)
(* listTasks: readdir, then the files in any order.                        *)
(***************************************************************************)
ReadDir(p) ==
    /\ At(p, "dir")
    /\ procs' = [procs EXCEPT ![p].pc = "files", ![p].todo = Existing,
                              ![p].seen = [i \in Ids |-> NoTask]]
    /\ UNCHANGED <<files, mark, locks, ghosts, budget>>

ReadFile(p, i) ==
    /\ At(p, "files") /\ i \in procs[p].todo
    /\ procs' = [procs EXCEPT ![p].todo = @ \ {i}, ![p].seen[i] = Read(i)]
    /\ UNCHANGED <<files, mark, locks, ghosts, budget>>

Listed(p) == At(p, "files") /\ procs[p].todo = {}
Seen(p) == procs[p].seen
Unresolved(seen) == {i \in Ids : seen[i].status \in {"pending", "in_progress"}}

\* The updates run one after the other, the first one right away.
Run(p, plan) ==
    IF plan = <<>> THEN Done(p)
    ELSE procs' = [procs EXCEPT ![p].pc = "check", ![p].plan = plan,
                                ![p].seen = [i \in Ids |-> NoTask], ![p].high = 0]

\* listTasks returns the tasks in the order of the directory, which is unspecified.
Orders(S) == {s \in [1 .. Cardinality(S) -> S] : \A m, n \in DOMAIN s : s[m] = s[n] => m = n}

\* One updateTask for each of the tasks `sets' has a change for.
RunEach(p, sets) ==
    \E s \in Orders(DOMAIN sets) : Run(p, [n \in DOMAIN s |-> [id |-> s[n], set |-> sets[s[n]]]])

\* findAvailableTask: the first in that order.
Available(seen) ==
    {i \in Ids : /\ seen[i].status = "pending" /\ seen[i].owner = NoAgent
                 /\ seen[i].blockedBy \cap Unresolved(seen) = {}}

ChooseTask(p) ==
    /\ Listed(p) /\ procs[p].op = "claim" /\ procs[p].id = 0
    /\ IF Available(Seen(p)) = {} THEN Done(p)
       ELSE \E i \in Available(Seen(p)) :
              procs' = [procs EXCEPT ![p] = [Idle EXCEPT !.op = "claim", !.id = i,
                                                          !.pc = "claimcheck"]]
    /\ UNCHANGED <<files, mark, locks, ghosts, budget>>

\* deleteTask, after the unlink: references are removed from what was listed.
PlanDelete(p) ==
    /\ Listed(p) /\ procs[p].op = "delete"
    /\ LET d == procs[p].id
           tasks == {i \in Ids : d \in Seen(p)[i].blocks \cup Seen(p)[i].blockedBy} IN
       RunEach(p, [i \in tasks |-> [blocks |-> Seen(p)[i].blocks \ {d},
                                    blockedBy |-> Seen(p)[i].blockedBy \ {d}]])
    /\ UNCHANGED <<files, mark, locks, ghosts, budget>>

\* blockTask: both lists are computed from what was read before the locks.
PlanBlock(p) ==
    /\ Listed(p) /\ procs[p].op = "block"
    /\ LET i == procs[p].id
           j == procs[p].high
           from == Seen(p)[i]
           to == Seen(p)[j] IN
       IF from = NoTask \/ to = NoTask THEN Done(p)
       ELSE Run(p, (IF j \in from.blocks THEN <<>>
                    ELSE <<[id |-> i, set |-> [blocks |-> from.blocks \cup {j}]]>>)
                \o (IF i \in to.blockedBy THEN <<>>
                    ELSE <<[id |-> j, set |-> [blockedBy |-> to.blockedBy \cup {i}]]>>))
    /\ UNCHANGED <<files, mark, locks, ghosts, budget>>

\* unassignTeammateTasks: the open tasks the teammate owned when listed.
PlanUnassign(p) ==
    /\ Listed(p) /\ procs[p].op = "unassign"
    /\ \E a \in Agents :
         LET owned == {i \in Unresolved(Seen(p)) : Seen(p)[i].owner = a} IN
         RunEach(p, [i \in owned |-> [owner |-> NoAgent, status |-> "pending"]])
    /\ UNCHANGED <<files, mark, locks, ghosts, budget>>

\* The timer resets the list if all its tasks were completed.
PlanClear(p) ==
    /\ Listed(p) /\ procs[p].op = "clear"
    /\ LET tasks == {i \in Ids : Seen(p)[i] # NoTask} IN
       IF tasks # {} /\ \A i \in tasks : Seen(p)[i].status = "completed"
       THEN procs' = [procs EXCEPT ![p] = [Idle EXCEPT !.op = "clear", !.pc = "listlock"]]
       ELSE Done(p)
    /\ UNCHANGED <<files, mark, locks, ghosts, budget>>

\* TaskUpdate reads the task and decides what to change: complete it, start it
\* (becoming its owner if it had none), or assign it to an agent.
PlanEdit(p) ==
    /\ At(p, "edit")
    /\ LET i == procs[p].id
           t == Read(i) IN
       IF t = NoTask THEN Done(p)
       ELSE \/ t.status # "completed" /\ Run(p, <<[id |-> i, set |-> [status |-> "completed"]]>>)
            \/ /\ t.owner = NoAgent
               /\ Run(p, <<[id |-> i, set |-> [status |-> "in_progress", owner |-> p]]>>)
            \/ \E a \in Agents \ {t.owner} : Run(p, <<[id |-> i, set |-> [owner |-> a]]>>)
    /\ UNCHANGED <<files, mark, locks, ghosts, budget>>

-----------------------------------------------------------------------------
(***************************************************************************)
(* claimTask, under the task's lock.                                       *)
(***************************************************************************)
ClaimCheck(p) ==
    /\ At(p, "claimcheck")
    /\ IF Read(procs[p].id) = NoTask THEN Done(p) ELSE Goto(p, "claimlock")
    /\ UNCHANGED <<files, mark, locks, ghosts, budget>>

ClaimLock(p) ==
    /\ At(p, "claimlock")
    /\ LET i == procs[p].id IN
       \/ Free(taskLock[i]) /\ taskLock' = [taskLock EXCEPT ![i] = p] /\ Goto(p, "claimread")
       \/ ~Exists(i) /\ Done(p) /\ UNCHANGED taskLock
    /\ UNCHANGED <<files, mark, listLock, ghosts, budget>>

\* Mutant: the owner is not looked at again under the lock.
ClaimableUnowned(p, t) == t.status \in Status \ {"completed"}
Claimable(p, t) ==
    t.status \in Status \ {"completed"} /\ t.owner \in {NoAgent, p}

\* Then the tasks are listed to find blockers, still under the lock.
ClaimRead(p) ==
    /\ At(p, "claimread")
    /\ LET i == procs[p].id IN
       IF Claimable(p, Read(i))
       THEN procs' = [procs EXCEPT ![p].pc = "claimdir", ![p].base = Read(i)]
            /\ UNCHANGED taskLock
       ELSE Done(p) /\ Release(i)
    /\ UNCHANGED <<files, mark, listLock, ghosts, budget>>

ClaimDir(p) ==
    /\ At(p, "claimdir")
    /\ procs' = [procs EXCEPT ![p].pc = "files", ![p].todo = Existing]
    /\ UNCHANGED <<files, mark, locks, ghosts, budget>>

\* Mutant: the claim is written by updateTask, which locks the task again.
ClaimWritesLocking == "check"
ClaimWrites == "read"

\* The claim is written by updateTaskUnsafe.  A teammate then marks the task
\* in progress; the watcher does not, and gives the task back when its prompt
\* is not accepted.
ClaimDecide(p) ==
    /\ Listed(p) /\ procs[p].op = "claim" /\ procs[p].id # 0
    /\ LET i == procs[p].id
           item(set) == [id |-> i, set |-> set] IN
       IF procs[p].base.blockedBy \cap Unresolved(Seen(p)) # {}
       THEN Done(p) /\ Release(i)
       ELSE /\ \E after \in {<<>>, <<item([status |-> "in_progress"])>>,
                             <<item([owner |-> NoAgent])>>} :
                 procs' = [procs EXCEPT ![p] =
                             [Idle EXCEPT !.op = "claim", !.pc = ClaimWrites, !.id = i,
                                          !.plan = <<item([owner |-> p])>> \o after]]
            /\ UNCHANGED taskLock
    /\ UNCHANGED <<files, mark, listLock, ghosts, budget>>

-----------------------------------------------------------------------------
(***************************************************************************)
(* createTask and resetTaskList, under the lock of the list; deleteTask,   *)
(* under none.                                                             *)
(***************************************************************************)
LockList(p) ==
    /\ At(p, "listlock") /\ Free(listLock)
    /\ listLock' = p
    /\ Goto(p, IF procs[p].op = "create" THEN "scan" ELSE "high")
    /\ UNCHANGED <<files, mark, taskLock, ghosts, budget>>

AtLeast(n, m) == IF n > m THEN n ELSE m

\* findHighestTaskId reads the directory and the mark concurrently.
ScanFiles(p) ==
    /\ procs[p].pc \in {"scan", "scanfiles"}
    /\ \E h \in 0 .. MaxTasks :
         /\ IsHighest(h)
         /\ procs' = [procs EXCEPT ![p].high = AtLeast(@, h),
                                   ![p].pc = IF @ = "scan" THEN "scanmark" ELSE "create"]
    /\ UNCHANGED <<files, mark, locks, ghosts, budget>>

ScanMark(p) ==
    /\ procs[p].pc \in {"scan", "scanmark"}
    /\ procs' = [procs EXCEPT ![p].high = AtLeast(@, ReadMark),
                              ![p].pc = IF @ = "scan" THEN "scanfiles" ELSE "create"]
    /\ UNCHANGED <<files, mark, locks, ghosts, budget>>

CreateFile(p) ==
    /\ At(p, "create") /\ procs[p].high < MaxTasks
    /\ LET i == procs[p].high + 1 IN
       /\ files' = [files EXCEPT ![i] = Torn(p)]
       /\ given' = Append(given, i)
       /\ claims' = [claims EXCEPT ![i] = {}]
    /\ Goto(p, "created")
    /\ UNCHANGED <<mark, locks, deleted, budget>>

CreateFill(p) ==
    /\ At(p, "created")
    /\ LET i == procs[p].high + 1 IN
       files' = IF files[i] = Torn(p) THEN [files EXCEPT ![i] = Blank] ELSE files
    /\ listLock' = NoAgent
    /\ Done(p)
    /\ UNCHANGED <<mark, taskLock, ghosts, budget>>

\* Mutant: the mark stays as it is.
ResetHighNever(p) ==
    /\ At(p, "high") /\ Goto(p, "removals")
    /\ UNCHANGED <<files, mark, locks, ghosts, budget>>

\* resetTaskList saves the highest id.
ResetHigh(p) ==
    /\ At(p, "high")
    /\ \E h \in 0 .. MaxTasks :
         /\ IsHighest(h)
         /\ procs' = [procs EXCEPT ![p].high = h,
                                   ![p].pc = IF h > 0 THEN "mark" ELSE "removals"]
    /\ UNCHANGED <<files, mark, locks, ghosts, budget>>

\* Mutant: the mark is the next id, not the last one.
WantedNext(p) == IF procs[p].op = "delete" THEN procs[p].id + 1 ELSE procs[p].high + 1

\* The mark is raised, never lowered, as far as one process can see.
Wanted(p) == IF procs[p].op = "delete" THEN procs[p].id ELSE procs[p].high
AfterMark(p) == IF procs[p].op = "delete" THEN "unlink" ELSE "removals"

CheckMark(p) ==
    /\ At(p, "mark")
    /\ Goto(p, IF Wanted(p) > ReadMark THEN "marktruncate" ELSE AfterMark(p))
    /\ UNCHANGED <<files, mark, locks, ghosts, budget>>

TruncateMark(p) ==
    /\ At(p, "marktruncate") /\ mark' = TornMark /\ Goto(p, "markfill")
    /\ UNCHANGED <<files, locks, ghosts, budget>>

FillMark(p) ==
    /\ At(p, "markfill") /\ mark' = Wanted(p) /\ Goto(p, AfterMark(p))
    /\ UNCHANGED <<files, locks, ghosts, budget>>

Unlink(i) ==
    /\ files' = [files EXCEPT ![i] = NoTask]
    /\ claims' = [claims EXCEPT ![i] = {}]

ListRemovals(p) ==
    /\ At(p, "removals")
    /\ procs' = [procs EXCEPT ![p].todo = Existing, ![p].pc = "removing"]
    /\ UNCHANGED <<files, mark, locks, ghosts, budget>>

RemoveNext(p) ==
    /\ At(p, "removing")
    /\ IF procs[p].todo = {}
       THEN Done(p) /\ listLock' = NoAgent /\ UNCHANGED <<files, claims>>
       ELSE /\ \E i \in procs[p].todo :
                 Unlink(i) /\ procs' = [procs EXCEPT ![p].todo = @ \ {i}]
            /\ UNCHANGED listLock
    /\ UNCHANGED <<mark, taskLock, given, deleted, budget>>

DeleteFile(p) ==
    /\ At(p, "unlink")
    /\ IF Exists(procs[p].id)
       THEN Unlink(procs[p].id) /\ Goto(p, "dir")
       ELSE Done(p) /\ UNCHANGED <<files, claims>>
    /\ UNCHANGED <<mark, locks, given, deleted, budget>>

-----------------------------------------------------------------------------
\* The retries of a lock are used up (2.6 s): the operation fails.
Waiting(p) ==
    \/ At(p, "listlock") /\ ~Free(listLock)
    \/ At(p, "tasklock") /\ ~Free(taskLock[Item(p).id])
    \/ At(p, "claimlock") /\ ~Free(taskLock[procs[p].id])

GiveUp(p) ==
    /\ Waiting(p) /\ Done(p)
    /\ UNCHANGED <<files, mark, locks, ghosts, budget>>

Crash(p) ==
    /\ ~At(p, "idle") /\ ~At(p, "crashed") /\ crashes < MaxCrashes
    /\ crashes' = crashes + 1
    /\ Goto(p, "crashed")
    /\ UNCHANGED <<files, mark, locks, ghosts, ops>>

Begins(p) ==
    \/ BeginCreate(p) \/ BeginReset(p) \/ BeginClear(p) \/ BeginClaim(p) \/ BeginUnassign(p)
    \/ \E i \in Ids : BeginEdit(p, i) \/ BeginDelete(p, i)
    \/ \E i, j \in Ids : BeginBlock(p, i, j)

Updates(p) ==
    \/ CheckTask(p) \/ LockTask(p) \/ ReadTask(p) \/ TruncateTask(p) \/ FillTask(p)

Lists(p) ==
    \/ ReadDir(p) \/ \E i \in Ids : ReadFile(p, i)
    \/ ChooseTask(p) \/ PlanDelete(p) \/ PlanBlock(p) \/ PlanUnassign(p) \/ PlanClear(p)
    \/ PlanEdit(p)
    \/ ClaimCheck(p) \/ ClaimLock(p) \/ ClaimRead(p) \/ ClaimDir(p) \/ ClaimDecide(p)

Creates(p) ==
    \/ LockList(p) \/ ScanFiles(p) \/ ScanMark(p) \/ CreateFile(p) \/ CreateFill(p)
    \/ ResetHigh(p) \/ CheckMark(p) \/ TruncateMark(p) \/ FillMark(p)
    \/ ListRemovals(p) \/ RemoveNext(p) \/ DeleteFile(p)

Next == \E p \in Agents :
    Begins(p) \/ Updates(p) \/ Lists(p) \/ Creates(p) \/ GiveUp(p) \/ Crash(p)

Spec == Init /\ [][Next]_vars

-----------------------------------------------------------------------------
Pcs == {"idle", "crashed", "listlock", "dir", "edit", "mark", "files", "check", "tasklock",
        "read", "truncate", "fill", "claimcheck", "claimlock", "claimread", "claimdir",
        "scan", "scanfiles", "scanmark", "create", "created", "high", "marktruncate",
        "markfill", "removals", "removing", "unlink"}

\* What an updateTask changes.
Patch ==
    [status : Status] \cup [owner : Agents \cup {NoAgent}]
    \cup [status : Status, owner : Agents \cup {NoAgent}]
    \cup [blocks : SUBSET Ids] \cup [blockedBy : SUBSET Ids]
    \cup [blocks : SUBSET Ids, blockedBy : SUBSET Ids]

Proc ==
    [op : Op \cup {"none"}, pc : Pcs, id : 0 .. MaxTasks, todo : SUBSET Ids,
     seen : [Ids -> Task \cup {NoTask}], plan : Seq([id : Ids, set : Patch]),
     base : Task \cup {NoTask}, high : 0 .. MaxTasks]

(***************************************************************************)
(* Types: the mark never runs ahead of the ids (tasks.ts:284, 401).        *)
(***************************************************************************)
TypeOK ==
    /\ files \in [Ids -> Task \cup {NoTask} \cup {Torn(p) : p \in Agents}]
    /\ mark \in {TornMark} \cup 0 .. MaxTasks
    /\ listLock \in Agents \cup {NoAgent}
    /\ taskLock \in [Ids -> Agents \cup {NoAgent}]
    /\ procs \in [Agents -> Proc]
    /\ given \in Seq(Ids)
    /\ deleted \subseteq Ids /\ claims \in [Ids -> SUBSET Agents]
    /\ ops \in 0 .. MaxOps /\ crashes \in 0 .. MaxCrashes

(***************************************************************************)
(* An id is given to one task only: what "Update high water mark before    *)
(* deleting to prevent ID reuse" (tasks.ts:400) is for.                    *)
(***************************************************************************)
Fresh == \A m, n \in DOMAIN given : given[m] = given[n] => m = n

(***************************************************************************)
(* Where no task is deleted, ids are given once: resets, a crash in the    *)
(* middle of one and updates that bring a removed file back do not make    *)
(* createTask reuse an id.  deleteTask, which writes the mark without the  *)
(* lock of the list, does.                                                 *)
(***************************************************************************)
IdsFresh == deleted = {} => Fresh

(***************************************************************************)
(* A claim stands (claimTask told the agent the task is its own) until the *)
(* task is removed or somebody changes the owner on purpose: no other      *)
(* claim succeeds, and no update of another field loses the owner.         *)
(***************************************************************************)
ClaimHeld == Fresh =>
    \A i \in Ids : \A p \in claims[i] : files[i].status \in Status => files[i].owner = p

(***************************************************************************)
(* What an update writes back is what the file held: between the read and  *)
(* the write of updateTaskUnsafe nobody else has written it.               *)
(***************************************************************************)
NoLostUpdate == Fresh =>
    \A p \in Agents : At(p, "truncate") => files[Item(p).id] \in {procs[p].base, NoTask}

(***************************************************************************)
(* Whenever somebody waits for a lock, somebody who does not is at work: a *)
(* process that holds a lock never asks for another ("Callers already      *)
(* holding a lock on taskPath must use this to avoid deadlock"), and no    *)
(* return leaves a lock behind.                                            *)
(***************************************************************************)
NoGridlock == (\E p \in Agents : Waiting(p)) =>
    \E q \in Agents : ~At(q, "idle") /\ ~At(q, "crashed") /\ ~Waiting(q)
=============================================================================
