# TLA+ models of the session core

This directory holds TLA+ models of the concurrent core of the command line
assistant in `src/`: how commands of the user, of teammates and of background
tasks become turns, how the tool calls of a turn are run and answered, who
decides whether a tool call may run, and how several agents share one list of
tasks through files.
Every definition is translated from the source (paths below are relative to the
repository); `PROJECT.json` maps each one to its lines, lists every run, every
theorem, every hazard and every disagreement found between the code and what its
comments say.

    tlc -workers 2 -config MCExecutorSafety.cfg MCStreamingToolExecutor
    tlc -workers 2 -config MCDispatchSafety.cfg MCTurnDispatch
    tlc -workers 2 -config MCPermissionQueue.cfg MCPermissionQueue
    tlc -workers 2 -config MCTaskList.cfg MCTaskList
    tlapm StreamingToolExecutorAnswerProofs.tla
    tlapm TurnDispatchQueueProofs.tla

## 1. Inventory

The program is one JavaScript process (plus subprocesses, teammates in other
processes, and servers). Concurrency inside it is that of the event loop: one job
at a time, but every `await`, `yield` and render is a point where everything else
may happen.

| part | source (`src/src/`) | state | operations | what is hard |
|---|---|---|---|---|
| Query guard | `utils/QueryGuard.ts` | idle / dispatching / running, a generation | reserve, cancelReservation, tryStart, end, forceEnd | late `finally` blocks of turns that were cancelled |
| Command queue | `utils/messageQueueManager.ts`, `utils/queueProcessor.ts`, `hooks/useQueueProcessor.ts` | one array for the process, a frozen snapshot for React | enqueue, dequeue, batches by mode, remove by identity, pop for editing | two consumers (between turns and in a turn), a snapshot taken before an `await`, an effect that only runs on a change |
| Prompt dispatch | `utils/handlePromptSubmit.ts`, `screens/REPL.tsx` (`onQuery`, `handleIncomingPrompt`) | the turns under way, the session's abort controller | submit, execute, refuse and re-enqueue, local results | exceptions, dialogs of slash commands, a controller that belongs to another turn |
| Cancellation | `hooks/useCancelRequest.ts`, `REPL.tsx` (`onCancel`) | what was last rendered | ESC, Ctrl+C, stop agents, rewind | acting on stale closures |
| Query loop | `query.ts` | messages, tool_use blocks, recovery counters | request, stream, run tools, drain the queue, recover | aborts and fallbacks in the middle of a stream, unanswered tool_use blocks |
| Streaming tool executor | `services/tools/StreamingToolExecutor.ts` | tracked tools, sibling controller, flags | addTool, processQueue, executeTool, getCompletedResults, getRemainingResults, discard | processing loops suspended half-way, cancellation racing an answer, microtasks against I/O |
| Tool call | `services/tools/toolExecution.ts`, `utils/stream.ts` | one generator per call | progress, one answer, rejection | an answer that comes after the call was cancelled |
| Tool permissions | `hooks/useCanUseTool.tsx`, `hooks/toolPermission/`, `utils/swarm/inProcessRunner.ts`, `hooks/useInboxPoller.ts` | the queue of dialogs, one resolve-once per request, prompts on claude.ai and in a channel | ask, answer, recheck, cancel, relay for teammates and workers | many deciders of one request, a screen that lags behind the queue |
| Orchestration without streaming | `services/tools/toolOrchestration.ts`, `utils/generators.ts` | batches | runTools, `all` with a limit | the same exclusion, written again |
| Shared task list | `utils/tasks.ts` and its callers | JSON files, a list lock, per-task locks, a high water mark | create, update, delete, block, claim, unassign, reset | two kinds of locks, unlocked deletes and reads, several processes, crashes |
| Mailboxes and swarm | `utils/teammateMailbox.ts`, `utils/swarm/`, `hooks/useInboxPoller.ts` | inbox files, AppState inbox | write, read, mark, deliver | a message delivered twice or never |
| Scheduler and consolidation locks | `utils/cronTasksLock.ts`, `utils/cronScheduler.ts`, `services/autoDream/consolidationLock.ts` | lock files | acquire, recover from a dead owner, release | recovery races, crash |
| Compaction, retries | `services/compact/`, `services/api/withRetry.ts` | failure counters, budgets | try, fall back, give up | retries for ever, lost counters |
| Remote control bridge | `bridge/` | transports, flush gate, poll loop | connect, flush, queue, reconnect | order and loss over a replaced transport |
| MCP and LSP clients | `services/mcp/`, `services/lsp/` | connections of external servers | start, crash, restart, reconnect | restart limits, requests in flight |
| Persistence, configuration, authentication | `utils/sessionStorage.ts`, `utils/config.ts`, `utils/auth.ts`, ... | files, caches | read, append, refresh | mostly I/O |
| Tools, permission rules, shell parsing, interface, start-up, plugins, telemetry, vendored code | the rest | | | sequential code, display or generated code: not modelled |

What makes each modelled part correct:

* executor: an exclusive call runs alone, calls start in the order received, every
  block gets exactly one answer whatever is cancelled, draining terminates and
  leaves nothing behind;
* guard and dispatch: the guard always has an owner that gives it back, no command
  is lost, turns follow one another, the user can always interrupt, no command is
  handled twice, the queue drains;
* permissions: a request is decided once and everybody is told the same, a decided
  request blocks nobody, every request gets an answer;
* task list: an id names one task, a claim stands until it is given up, an update
  overwrites only what it has read, nobody waits for ever for a lock.

## 2. The modules

    ToolScheduler                 what the executor promises
       ^ refines
    StreamingToolExecutor         one executor and the query loop that feeds it
       <- MCStreamingToolExecutor,
          StreamingToolExecutorProofs <- StreamingToolExecutorAnswerProofs
    TurnDispatch                  guard, queue, dispatch, cancellation, mid-turn drain
       <- MCTurnDispatch, TurnDispatchProofs <- TurnDispatchQueueProofs
    PermissionQueue               the dialogs for tool permissions and what races them
       <- MCPermissionQueue, PermissionQueueProofs
    TaskList                      the task list in files, used by several processes
       <- MCTaskList, TaskListProofs <- TaskListClaimProofs <- TaskListIdsProofs

The modules meet where the code does: `RejectPermission` and `ToolReturns` of the
executor are the two answers PermissionQueue gives a tool call, its `turn` is the
controller that TurnDispatch keeps, `Cancel` is the `onCancel` that TurnDispatch
has as `OnCancel`. They are checked one by one; each leaves the others' state open
as a choice.

### StreamingToolExecutor

Models one `StreamingToolExecutor` and its consumer in `query.ts`.

* `tools` is `this.tools`; a record holds the status, the concurrency class and the
  state of the closure in `executeTool` (`call` the generator underneath, `updates`
  what it has enqueued and the `for await` has not read, `errored` is
  `thisToolErrored`, `progress` counts `pendingProgress`).
* `hasErrored`, `discarded`, `aborted` are the three sources of `getAbortReason`.
* `loops` are the processQueue loops suspended at `await this.executeTool(tool)`,
  `kicks` the `promise.finally` callbacks that have not run.
* `pc`, `site`, `k`, `waitSet` say where the query loop is suspended: at the
  stream, at the yield of a message, inside one of the three uses of
  `getCompletedResults`, at `await processQueue`, or at the `Promise.race`.

*Microtasks and events.* `Quiet` holds when no microtask is pending. A stream
message, a progress report, an answer, a rejection or ESC is an event of the loop
and waits for it; microtasks run in any order among themselves, and never inside a
synchronous stretch (`InJob`). That is what lets the model tell a loop that waits
from one that spins and starves the event loop.

| action | code |
|---|---|
| `MessageArrives`, `AddTool`, `AddToolStarts`, `DrainStream`, `OtherMessage` | one message of the stream in `query.ts`: yielded first, then (if not aborted by then) its blocks are added and completed results drained |
| `Pull` | the session asks for the next value; results pulled to the end leave `inProgressToolUseIDs` |
| `StreamEnds`, `LoopTop`, `Scan`, `DrainRemaining`, `WakeUp` | `getRemainingResults` |
| `Discard`, `StreamThrows` | fallback; an error that ends the turn and leaves the executor as it is |
| `LoopResumes`, `Kick` | `processQueue` going on after an `await`, and after a completed tool |
| `ToolProgress`, `ToolReturns`, `RejectPermission`, `Deliver`, `Complete` | the call and the collector in `executeTool` |
| `Abort` | ESC, or a 'now' message |

Abstractions: a block is (known, concurrency safe, Bash or not); a message is
`ok`, `err`, a synthetic reason or `note` (an attachment). A message of the stream
carries at most one tool_use block. Two calls never settle in the same event.
`interruptBehavior` is declared by no tool of the repository, so every tool is
'block'. Context modifiers are left out: none is in use.

### ToolScheduler

The same promise without queues, promises and results: a first-in first-out
readers-writer lock over requests. The refinement maps "running" to a
`runToolUse` under way, also when its tool was answered for and the collector has
stopped listening.

### TurnDispatch

* `status`, `generation`: `QueryGuard`. `queue`: the command queue; `copy` tells
  objects with the same text apart, because `remove` compares identities.
* `turns`: the calls of `executeUserInput` and `handleIncomingPrompt`, with their
  stage (processing, querying, attaching, over), their generation and whether
  their controller was aborted.
* `controller`: the React state; `shown`, `seenActive`, `seenPanel`, `seenCancel`,
  `queueDirty`: what the last render saw.
* `panel`, `loading`: the local-jsx dialog there is, and an immediate command that
  is being loaded beside the turn.
* A command is a prompt, one of priority 'now', a bash line, a slash command, a
  notification, one for a subagent, or a hidden prompt ("meta": the prompt of a
  scheduled task, `useScheduledTasks.ts:71-82`, or the result of a forked command).
  Hidden prompts have priority 'later', are not taken back for editing, and are
  dropped by a refused `onQuery`, which enqueues again only the text of messages
  that are not (`REPL.tsx:2896-2907`; `Refused`, `AsPrompts`).
* `handled`, `left`: history, for the properties only. `left` has a pair of id and
  reason for every command that left without being handled: `taken` (back to the
  prompt by the user), `cleared` (when agents are stopped), `failed` (in a dispatch
  that threw), `skipped` (hidden, and refused).

Every action is one event of the loop with all its microtasks: `end()` and
`setAbortController(null)` in `onQuery`, for instance, are separated only by
microtasks in this repository (the hooks between them are stubs). React batches
updates and renders in a later event, and effects of a render caused by an
external store run in the same commit; so `Render` is one action that includes
the effect of `useQueueProcessor` and then the one that aborts for a 'now'
command, in that order.

| action | code |
|---|---|
| `Submit`, `Notify`, `IncomingPrompt` | `handlePromptSubmit`, `enqueue...`, `handleIncomingPrompt` |
| `Render` | `useQueueProcessor`, `processQueueIfReady`, the 'now' effect |
| `BecomesQuery`, `BecomesLocal`, `BecomesNothing`, `Throws` | how `processUserInput` ends, and all of `executeUserInput` after it |
| `QueryEnds` | the `finally` of `onQuery`, then that of `executeUserInput` |
| `TakeSnapshot`, `RemoveConsumed`, `SubagentDrains` | the drain of the queue in `query.ts` |
| `Escape`, `Rewind`, `PopQueue`, `KillAgents` | `handleCancel`, `onCancel`, `popAllEditable`, `handleKillAgents` |
| `RunImmediate`, `ImmediateLoaded`, `CloseImmediate`, `OpenDialog` | immediate commands and the dialogs of slash commands (`setToolJSX`) |

Left out: remote mode and `isExternalLoading`, backgrounding with Ctrl+B, the
automatic restore of a cancelled prompt, speculation, interrupt-on-submit (its
condition is never true, see above). Two further sources of hidden prompts, with
another priority or as a slash command (channel messages,
`useManageMCPConnections.ts:523-527`; proactive ticks and the sleep command), and
prompts of images only, whose refused message has no text. A refused command
comes back as the text that names it; the hidden messages that expand a skill,
which are dropped, are not told from it.

*The initial message is not modelled.* `processInitialMessage`
(`REPL.tsx:3052-3164`, a plan accepted with cleared context, or a prompt of the
command line with images) sees `isLoading` false, awaits, and then replaces the
session's controller and calls `onQuery` without a reservation. A dispatch that
began meanwhile is then refused or runs beside it, and ESC reaches the new
controller only. `OneTurnUncancelled`, `InterruptibleUncancelled` and what rests on
them (`HandledOnce`, and that a hidden prompt is never skipped before a
cancellation) therefore speak of sessions in which it is not under way.

### PermissionQueue

The requests of one session: those of the main agent (`Mains`, all of one turn),
of in-process teammates (`Teammates`) and of worker processes (`Workers`).

* `req[r]` is one call of `canUseTool`: its `stage`, the flag of
  `createResolveOnce` (`claimed`; `decisionMade` of a teammate), what the call was
  told (`decision`), the callbacks that would still be heard (`bridge`, `channel`,
  `hook`, `classifier`, `recheck`), the prompt claude.ai shows (`asking`), what it
  was told (`told`), the checkmark, the leader's answer to a worker (`reply`).
* `queue` is `toolUseConfirmQueue` as the place of each request; `shown` is the
  dialog of the last render, and keys go to it; `typing` is `isPromptInputActive`,
  which hides dialogs.
* `turn` is the controller of the turn: running, aborted, or released when the
  REPL forgot it without aborting it.
* `ruled`: have rules or the mode changed, so that a recheck starts. `dropped`
  is history: requests whose dialog left the queue without an answer.

| action | code |
|---|---|
| `CheckPermission` | `useCanUseTool`: rules, awaited hooks and classifier, exceptions |
| `OpenDialog`, `OpenForWorker` | `handleInteractivePermission` and `createInProcessCanUseTool` up to the queue; `useInboxPoller` for a worker's message |
| `Render`, `Type`, `StopTyping` | what is on the screen, `getFocusedInputDialog` |
| `UserAllows`, `AllowEnds`, `UserRejects`, `UserTouches`, `UserAnswersTeam` | the callbacks of a dialog, each followed by `onDone`, which removes the head of the queue |
| `CheckmarkGoes`, `Cancel` | `onDismissCheckmark` and its timer; `handleCancel` with `onCancel` |
| `HookReturns`, `ClassifierReturns`, `BridgeAnswers`, `ChannelAnswers`, `ModeChanges`, `RecheckBegins`, `RecheckEnds`, `TurnAborts` | what races a dialog of the main agent |
| `KillTeammate`, `WorkerAborts`, `WorkerHears` | how a teammate's or a worker's request ends without, or with, the user |

Abstractions: what rules, hooks, classifier, claude.ai and a channel answer is a
choice at each point where the code waits for them. Both classifier features
are on, so that a request the classifier settles shows the checkmark (with the
transcript classifier off the dialog goes at once, a behaviour the other racers
already have). A mailbox delivers the first answer. Left out: subagents, whose
rejection does not abort the turn; the sandbox, prompt and elicitation dialogs;
the mailbox through which an in-process teammate asks when there is no dialog
queue (`inProcessRunner.ts:336-451`); feedback texts; the return of queued commands to the prompt in `onReject`, which
is `PopQueue` of TurnDispatch.

### TaskList

One task list used by several processes, which may crash.

* `files` are the JSON files: a task, `NoTask` (no file), or `Torn(p)` between
  the truncation and the end of a `writeFile` of p. `Read` is `getTask`, which
  returns null for the last two. `mark` is `.highwatermark`; torn, it reads as 0.
* `listLock`, `taskLock` are proper-lockfile's locks. A lock whose holder crashed
  is stale and may be taken. A process gives up waiting when its retries are used.
* `procs[p]` is the operation p is in the middle of: its place (`pc`), what it has
  read (`seen`, `base`, `high`), what is left to read or remove (`todo`), and the
  `updateTask` calls it still makes (`plan`).
* `given`, `deleted`, `claims` are history, for the properties.

Each step is one call of the file system or of the lock, or the computation
between two of them.

| actions | code |
|---|---|
| `BeginX` | `TaskCreate`, `TeamCreate`, the timer of `useTasksV2`, `tryClaimNextTask`, `useInboxPoller`, `TaskUpdate` |
| `CheckTask`, `LockTask`, `ReadTask`, `TruncateTask`, `FillTask` | `updateTask` and `updateTaskUnsafe` |
| `ReadDir`, `ReadFile` | `listTasks`; also the two reads of `blockTask` |
| `ChooseTask`, `ClaimCheck`, `ClaimLock`, `ClaimRead`, `ClaimDir`, `ClaimDecide` | `findAvailableTask`, `claimTask`, and the update that follows it |
| `PlanDelete`, `PlanBlock`, `PlanUnassign`, `PlanClear`, `PlanEdit` | what the callers do with what they have read |
| `LockList`, `ScanFiles`, `ScanMark`, `CreateFile`, `CreateFill` | `createTask` with `findHighestTaskId` |
| `ResetHigh`, `CheckMark`, `TruncateMark`, `FillMark`, `ListRemovals`, `RemoveNext`, `DeleteFile` | `resetTaskList` and `deleteTask` |
| `GiveUp`, `Crash` | a lock that fails; the death of a process |

Left out: `claimTaskWithBusyCheck` and `getAgentStatuses`, whose option no caller
sets; subjects, descriptions and metadata; errors of the file system other than a
missing file; hooks that veto as such: a vetoed `TaskUpdate` is one that is not begun,
and a vetoed `TaskCreate`, which creates the task and then deletes it
(`TaskCreateTool.ts:110-112`), is a create and a delete of the same process; the two ways a process finds the list's id
(a teammate of `inProcessRunner.ts` passes the session's id where `getTaskListId`
uses the team's name, so that the two may look at different lists).

## 3. What is checked

All bounds are constants of the modules: `MaxTools`, `MaxProgress`, `MaxCommands`,
`MaxCancels`, `MaxTypings`, `MaxTasks`, `MaxOps`, `MaxCrashes`. `CHECK_DEADLOCK
FALSE` everywhere: a turn ends, and a session may be left alone.

| run | question | bounds |
|---|---|---|
| MCExecutorSafety | exclusion, order of starts, no lost wake-up, one answer per finished tool, answers that stay whole, clean end, refinement of ToolScheduler | 3 blocks of 4 kinds, 1 progress message |
| MCExecutorLiveness | every tool given to the executor is answered | 2 blocks of the 3 known kinds, fairness |
| MCDispatchSafety | the guard is owned, no command is lost; before any cancellation no two turns at once, always interruptible, nothing handled twice | 3 commands of 7 kinds, 1 cancellation, immediate commands, exceptions, keys racing renders |
| MCDispatchLiveness | the queue drains, the guard is released | 3 commands, 1 cancellation, exceptions, no immediate commands, fairness |
| MCPermissionQueue | claude.ai and the call are told the same, settled requests leave no dialog and no prompt behind, every request is answered | 1 request of each kind, every racer, Esc, the user types once, fairness |
| MCTaskList | ids are given once, claims stand, updates overwrite what they read, no gridlock | 2 processes, 2 ids, any 3 operations, 1 crash at any step |

Why these bounds are enough for the interesting cases: three blocks give a running
call, a queued one and one behind it, hence loops suspended at different positions,
a sibling cancelled while running and one cancelled in the queue; one progress
message gives both wake-ups of the race. Three commands and one cancellation give a
dispatch that ends late, the one that replaced it and a third beside them, and the
same for two consumers of the queue. A property that needs a second cancellation to
fail would not be found by TLC; that there is none among the safety properties is
what the proofs of section 4 add, for these and for all other bounds. Three
permission requests, one of each kind, let a settled dialog of any kind stand before
and behind one of any other. Three operations let two overlap while the third has
changed what they read, or let one follow a crashed one while the other still runs;
two ids are one task that refers to another, or one that was removed and one that
follows it.

`ClaimHeld` and `NoLostUpdate` are stated for lists in which no id was given twice
(`Fresh`), and `IdsFresh` for lists from which nothing was deleted: with a deletion
the code does give an id twice (below), and then two tasks share a file. Within
these bounds three operations are enough to break `Fresh` (MCTaskListIds), so the
condition is needed, and deletions, resets and crashes without a reused id are
inside the properties.

`ClaimHeld` protects a claim against other claims and against updates of other
fields, also stale ones. A write of the owner that is not a claim ends it for the
property, whoever makes it: unassigning, and the automatic owner of `TaskUpdate`
(below).

`AnswerWhole` is an action property: `results` and the messages still unread are
one sequence that no step changes once its beginning is kept. What could break it
is the error of a Bash call, which sets `hasErrored` between two messages of its
own answer, and the late answer of a call that was answered for.

`NoCommandLost` says where a command may go unhandled. The text of a prompt never
does but by the user or with an exception of its dispatch, whatever is refused or
cancelled. A hidden prompt is skipped when `onQuery` refuses it; the property
holds this to be a consequence of a cancellation, since without one nothing is
refused.

`OneTurnUncancelled`, `InterruptibleUncancelled` and `HandledOnce` speak of the
states before the first cancellation: after one the unconditional forms do not
hold (next section; for HandledOnce see the hazards).
`GuardReleased` is checked without immediate commands for a like reason: an
immediate command whose dialog appears while a slash command shows its own takes
that dialog away (`setToolJSX`, `clearLocalJSX` in `REPL.tsx`), and the dispatch of
the slash command then waits for an answer that can not come, until ESC.

*Fairness.* Executor: pending microtasks run (weak); the session pulls what is
yielded, the model's stream ends and every call answers. The last two are events
of the outside world that microtasks may keep out time and again, so they need
strong fairness, the weakest assumption under which starvation is visible as
such. None for aborts, progress or fallbacks. Dispatch: React renders what has
changed, processUserInput and queries end (the user answers a dialog that is
shown), attachments are built, panels are closed. None for keys, new commands or
subagents: the queue must drain of commands for the main thread whatever
subagents do. Permissions: React renders; what a request has begun ends (the
rules are checked, the dialog is queued, rules are saved, the checkmark's timer
fires, a worker polls its mailbox); the user stops typing and answers a dialog
that stays on the screen without a checkmark. Nothing is assumed of hooks,
classifier, claude.ai, channel or rechecks, so the answer never depends on them.

### Disagreements between the code and its comments

Each has a run that finds the behaviour; the quotes are in `PROJECT.json`.

| run | property | what happens |
|---|---|---|
| MCExecutorUnknown | EveryToolAnswered | a call to an unknown tool behind an exclusive call makes `getRemainingResults` spin in microtasks; the exclusive call never gets to answer |
| MCExecutorSkipped | EveryBlockAnswered | a block yielded just before an abort gets no tool_result |
| MCDispatchOverlap | OneTurn | a late `cancelReservation` releases the reservation of another dispatch, and turns overlap |
| MCDispatchInterrupt | Interruptible | a late `setAbortController(null)` takes away the controller of the running turn |
| MCPermissionFloor | DialogIsFloor | a second key to a dialog that was just answered removes the next request from the queue, which nobody was shown |
| MCTaskListIds | Fresh | `deleteTask` raises the mark beside a `createTask` that has read it, and the id of the deleted task is given again |

Other places where the models showed a comment to say more than the code does, each
with its line under `hazards`, and not kept as runs:

* results may leave the executor out of the order of the blocks, although its
  header says they are emitted in the order received: the drain stops only at an
  executing exclusive tool (`StreamingToolExecutor.ts:436`);
* a prompt of a scheduled task that is refused after a cancellation is lost, the
  task having fired (`REPL.tsx:2899`: what its comment says of hidden messages,
  although these are commands of their own);
* an exception in `processUserInput` loses the commands of its batch, and leaves a live controller in the session at
  the idle prompt (`handlePromptSubmit.ts:597-609`, against `REPL.tsx:3012-3015`);
* a batch takes the commands of one mode past older commands of the same priority
  (`queueProcessor.ts:77-80`, against `messageQueueManager.ts:50`), and in the order
  of the array (`messageQueueManager.ts:244-266`, against 241);
* with immediate commands a guard may stay reserved (above);
* Esc empties the queue of dialogs undecided (`useCancelRequest.ts:99`,
  `REPL.tsx:2162`): the requests of teammates and workers behind the first one
  wait for their own abort (`dropped`);
* Esc at a teammate's, a worker's or a settled dialog releases the controller of
  the main turn without aborting it (`turn` is `"released"`);
* the rules and the interrupt of a hook take effect although the user's answer
  came first (`PermissionContext.ts:233`);
* the leader does not answer a worker's request for a tool it does not know
  (`useInboxPoller.ts:271`), and keeps the dialog of a worker that was aborted;
* a claim reads its blockers without their locks: a blocker whose file is being
  written reads as none, and the blocked task may be claimed (`tasks.ts:585`);
* `TaskUpdate` makes the agent the owner of a task that had none when it was read,
  and so may take a claimed task (`TaskUpdateTool.ts:188-199`);
* an update under way brings back a file that was unlinked (`tasks.ts:365` against
  411), and the timer of a completed list removes tasks created meanwhile
  (`useTasksV2.ts:161-166`);
* ids do not start at 1 after a reset, as `tasks.ts:144` says: the mark that the
  same function writes prevents it.

## 4. What is proved

For every value of the constants that satisfies the named assumptions
(`KindsAssumption`, `BoundsAssumption`, `ScopeAssumption`, `FlagsAssumption`,
`TypingsAssumption`, `AgentsAssumption`, evaluated by TLC in every run):

| theorem | statement |
|---|---|
| `TypeCorrect` | `Spec => []TypeOK` for the executor |
| `ExclusiveAccess` | `Spec => []Exclusive` |
| `StartsInOrder` | `Spec => []StartOrder` |
| `ImplementsScheduler` | `Spec => SchedulerSpec` |
| `WakeupsKept`, `AnsweredOnce` (StreamingToolExecutorAnswerProofs) | `Spec => []NoLostWakeup`, `[]OneAnswer` |
| `AnswersKeptWhole`, `EndsClean` (the same) | `Spec => AnswerWhole`, `[]CleanEnd` |
| `GuardAlwaysOwned` | `Spec => []GuardOwned` for the dispatch |
| `DispatchTypeCorrect`, `CommandsKept` (TurnDispatchQueueProofs) | `Spec => []TypeOK`, `[]NoCommandLost` |
| `OneTurnAtATime`, `TurnInterruptible`, `CommandsHandledOnce` (the same) | `Spec => []OneTurnUncancelled`, `[]InterruptibleUncancelled`, `[]HandledOnce` |
| `TypeCorrect` (PermissionQueueProofs) | `Spec => []TypeOK` for the permission queue |
| `AnswersAgree`, `NoDialogStale`, `NoPromptStale` | `Spec => []AnswerAgrees`, `[]NoStaleDialog`, `[]NoStalePrompt` |
| `TypeCorrect` (TaskListProofs) | `Spec => []TypeOK` for the task list |
| `NeverGridlocked` | `Spec => []NoGridlock` |
| `UpdatesKept`, `ClaimsStand` (TaskListClaimProofs) | `Spec => []NoLostUpdate`, `Spec => []ClaimHeld` |
| `IdsGivenOnce` (TaskListIdsProofs) | `Spec => []IdsFresh` |

*Executor.* `Exclusive` speaks of calls under way, the code of statuses. Two facts
connect them: a live call belongs to a tool that is executing or that was
answered for while its call goes on, and a tool can be answered for early only
when `getAbortReason` has a reason, which every later start then sees as well, so
that nothing is started beside such a call. Reasons only accumulate. The inductive
invariant adds these facts about the records to the type invariant, and keeps that
executing tools are pairwise compatible. `StartOrder` is inductive with the fact
that a loop never stands behind a queued tool it could have started: `Startable(p)`
takes the first queued tool at or after p, and tools before a loop's position have
begun. `ImplementsScheduler` maps every action to a step of the lock or to a
stutter and uses both invariants for the guard of `Start` and `Skip`.

*Answers.* `OneAnswer` is a race: the collector of `executeTool` looks at
`getAbortReason` before each update it reads, and its tool's real answer and a
synthetic one must never both be kept. `Fits` lists what a record can look like:
waiting, calling with nothing read, or answered. A call that answers enqueues its
result and sometimes a `note` behind it, and the race is lost if something cancels
the tool between the two. `Undisturbed` says nothing does: while such an answer is
read, nothing has cancelled the tool, no other answer is being read, and after an
interrupt, which makes a tool that starts answer at once, no tool can start. That no
tool can start needs `NoLostWakeup`: in a quiet state no loop and no callback is
left, so a queued tool is one that may not start. This is why the two are proved
together. `NoLostWakeup` itself rests on what `CanExecuteTool` looks at: a tool can
become startable only when another one completes, and then a callback of
`promise.finally` is pending, or when it is added. `AnswerWhole` follows from the same
invariant, step by step: reading a message moves it from the unread to the kept;
what cancels a tool finds no answer half read, since one that is no error is
`Undisturbed` and the tool of one that is an error is `errored`, so that its
collector reads on; and a tool that was answered for has nothing left to read. `EndInv` follows the final drain: what is in progress is
executing, completed, or the result being yielded, and the last site of the loop is
reached only when all tools were yielded.

*Dispatch.* `QueryGuard.end` compares generations only. So `GuardInv` says, beside
`GuardOwned`, that the generation of every turn is at most the current one, that a
query has a generation of its own and that no two queries share one; `forceEnd`
and `tryStart` make the current generation fresh, and with it a late `finally` is
recognised as such.

*Queue.* The types come first. A batch is what a filter leaves of the queue, and
nothing can be proved about `SelectSeq` (its definition is recursive and the library
has no theorem about it), so `Only` says the same by ranks: the n-th element kept is
the one with n of them up to it. `RankBijection` shows that it keeps each matching
place once and no other. Every action is then described once by its effect on the
sets of elements (the lemmas named `...Facts`), and the later proofs use only these.
`CommandsKept` needs beside the types that a snapshot taken before an `await` is
removed by identity: `Accounted` says where each command is, and `Keeps`, proved for
each action, that what leaves the queue or a dispatch is handled, enqueued again or
entered in `left`. `Single` says what one turn at a time comes to: until something
is cancelled, a turn that is not over has the session's controller, and the guard is
idle, dispatching or running as that turn is absent, processing, or at its query.
So nothing is refused before a cancellation, and no hidden prompt is skipped
(`SkippedLate`, the last conjunct of `CommandsKept`).
With it and `GuardInv`, `OneTurnAtATime` and `TurnInterruptible` are immediate, and
the runs MCDispatchOverlap and MCDispatchInterrupt show that it does not survive a
cancellation. `Books` keeps the accounts of `HandledOnce`: a command that waits in
the queue is there once and was not handled; one that is processed is not in the
queue; one in a snapshot was not handled, and what has its id in the queue is the
same object, so that removing it by identity removes all there is of it.

*Permissions.* The properties speak of one request at a time, so the inductive
invariant does too: `Coherent` of a record says which flags may be set together
(claude.ai and the channel are open only before the claim; a claim without a
decision is an `onAllow` under way; claude.ai is told only by the one who claimed)
and that a settled request of this process is in the queue only with its
checkmark. What is not local is the queue itself. The hard case is
`onDone`, which removes the head whatever was answered: the user's own answer
must take its own dialog away, so the invariant adds that what is on the screen,
if it is still in the queue, is its head.

*Task list.* `Typed` adds to the types that what an operation is in the middle of
fits together (`Fit`: an update has a plan, it writes what it has read). `Locked`
says that a live process holds exactly the locks its place in the code says:
`HoldsList`, `HoldsTask`. It needs no order of locks because no place holds two:
a process that waits holds none, so the holder of the lock it waits for, being
alive, is at work. Crashed processes are exempt; whoever finds a lock of one takes
it over, which is why `TaskTaken` and `ListTaken` ask that the former holder is
not alive.

*Claims and updates.* `ClaimInv` adds what the holder of a task's lock knows of
the file (`Writes`): what it has read is still there or the file is gone; once it
has truncated the file, the claims that stand speak of the owner it is about to
write; a task it is about to claim is nobody else's. Locks alone do not give this:
`createTask` writes under the lock of the list, not of the task. But while ids are
given once its id is in no file (`AllKnown`) and in no update (`FileKnown`), so
nobody is at work on that file. `PlanOK` says that only the first update of a
claim sets the owner to the claimer, which `claimTask` makes without giving the
lock back. One lemma, `WriteClaims`, covers every step that writes or removes a
file. Without `Fresh` the invariant says only what does not depend on it.

*Ids.* Every id that was given is at most the mark or at most the id of some file
(`Covered`); this survives a crash between the two writes of the mark, because
files are removed only after the mark holds its number. Between its reads and
writes the holder of the list's lock knows more (`Found`): after reading the
files, ids above its number are at most the mark; after reading the mark, at most
a file; when it creates, none is above; while it writes the mark, the highest task
is still there. An update may bring a removed file back at any time, so `Found`
never says that a file is absent. Where something was deleted nothing is claimed:
`deleteTask` raises the mark and removes the file without the list's lock.

Model-checked only: the liveness properties `EveryToolAnswered`, `QueueDrains`,
`GuardReleased` and `AllAnswered`. They rest on fairness, hence on ENABLED, which
the prover does not support. Every safety property of a passing run is proved.

## 5. Not modelled

* *The messages of a whole turn* (`query.ts` beyond the executor's consumer and the
  drain of the queue: executors replaced by fallbacks, withheld errors, recovery
  counters, stop hooks), the orchestration without streaming, and the headless
  session that drives the same loop. A module of them is the next in the plan.
* *The initial message* (section 2, TurnDispatch) and the other ways into a turn
  listed there.
* *Locks of the scheduler and of memory consolidation*: small and self-contained;
  the races at `cronTasksLock.ts:165` and `consolidationLock.ts:74` are listed as
  hazards.
* *Inbox files of teammates*: PermissionQueue assumes of them that the first answer
  arrives. Also the fallback of in-process teammates to them.
* *Remote control bridge, remote sessions, MCP and LSP servers, the API client*:
  one side of each protocol is not in the repository, and what the other side may
  do would be an invention. Their effect on the parts above is a choice there.
* *Permission rules, shell parsing, compaction's summaries, tools and commands*:
  sequential code over strings, or answers of a model; unit tests reach them.
* *Transcript, configuration, credentials, file history*: I/O of one process.
* *Interface, start-up, plugins, telemetry, vendored code*: display and loading.

## 6. Plan

The order is by what a fault would cost the user.

1. *Done.* ToolScheduler, StreamingToolExecutor, TurnDispatch, PermissionQueue,
   TaskList, their runs, and the theorems of section 4.
2. *Done.* Proofs of all safety properties the passing runs check.
3. `QueryTurn`: a whole turn of `query.ts`, composing the executor by its contract:
   the messages sent next have exactly one tool_result per tool_use.
4. `ToolOrchestration`: `runTools` and `all`, shown to implement ToolScheduler too.
5. `SchedulerLock` and `ConsolidationLock`: acquire, recovery from a dead owner,
   release, crash. Abstract specification: at most one live holder.
6. `Mailbox`, then `FlushGate` with its transports.

Each component has one safety run and shares the liveness question with the others
where it has one, so that a complete check stays short enough to be run on every
change.
