# Leroy: TLA+ models of the build server

Leroy (`src/server/`) is an agent server: a project manager or a dashboard
submits a specification, the server turns it into a task, queues it, runs a
Claude process for it on a machine with a free slot, follows the task through a
state machine, retries or escalates it when it fails, tells the people involved
over a message bus, and persists the outcome to an external knowledge store.
Around the server run programs that poll it (the monitors of the PM and of Codex,
the worker of the second machine), clients of the PM's sessions, and tools that
make content.  This directory holds TLA+ models of the server and of these
programs, the TLC configurations that check them, and TLAPS proofs about the
modules at the core and about four of the others.

## 1. The system

| Part | Source | State it keeps | Operations |
|---|---|---|---|
| task queue | `task_queue.py` | heap of waiting entries, a set of occupied slots per machine, wake-up event | enqueue, dispatcher pass, claim, release, stop |
| executor | `execution.py` | `_active_pids`, `_cancelled`, worktrees | execute, run one Claude process, time out, cancel |
| state machine | `state_machine.py` | `v2_state`, `status`, `v2_history` of each task | initialize, transition, handlers |
| retry budget, failure taxonomy | `retry_budget.py`, `failure_taxonomy.py` | retry counters in the task | classify, check, consume, reset |
| task events | `task_events.py` | none (handlers of the state machine) | notify, consume the budget, escalate, persist |
| dispatcher, slicer | `dispatcher.py`, `spec_slicer.py` | per-container locks | slice, dispatch, vehicle completed / failed / blocked, reconverge |
| container store | `container_store.py` | containers: status, vehicles, dependency graph, retry counts | create, update, increment retry |
| task database | `task_db.py` | SQLite tables, write-through caches | task dictionary, subtasks, messages, agents, activity, proposals, plans |
| message bus, webhooks | `agent_bus.py`, `pm_webhook.py` | messages, registrations, delivery queue | send, respond, mark read, deliver |
| persistence manager | `persist_manager.py` | queue file, dead-letter file, circuit breaker | persist, flush, retry loop, reset |
| autonomy of the PM | `pm_autonomy.py` | pending actions | classify, record, evaluate |
| stuck-task detector | `server.py` | none | sweep over tasks, processes, containers |
| HTTP routes | `routes_*.py` | none | accept, cancel, complete, force-fail, review, archive, delete, ... |
| remote worker | `kush_worker.py` | process-local | poll, accept, run, report |
| monitor of the PM | `monitor/pm_monitor.py` | state file: seen messages, task statuses, sessions of the last hour, handled triggers | poll, collect triggers, start headless PM sessions, save |
| Codex daemon and session | `monitor/codex_monitor.py`, `mcp/codex_bus.py` | state file: handled and ignored messages | list unread, review, reply, mark read |
| MCP client of a PM session | `mcp/leroy_client.py` | spec files, plans (in the task database) | gates, plan, file, post, link; close a spec |
| daily media agent, content server, publisher | `agent/`, `content/server/`, `content/post_to_platforms.py` | the day's draft file; the server's rows | draft, parse, approve, publish, mark |
| training videos | `content/training/pipeline.py`, `produce.py` | pictures, voices and the video in one directory | draw, speak, join, validate |
| dashboard | `dashboard/` | none that others rely on | shows the server's lists |

How they interact.  HTTP handlers run on an asyncio loop and write the shared
task dictionary directly; the dispatcher coroutine of the queue runs on the same loop.
The stuck detector is a daemon thread (`server.py:866`).  Every execution runs
`_run_claude_sync` in a worker thread, which writes the same dictionary and calls
the dispatcher's vehicle handlers under the container's lock.  State-machine handlers run in the
thread that made the transition and start further threads (persistence,
notification).  The persistence manager has threads of its own and a lock for
its files.  The dictionary has a lock for its cache and writes to SQLite outside
that lock.  The daemons and clients are processes of their own: they call the
routes, any call may fail before or after the server has carried it out, each may
die between two steps, and what they remember is in a file written at the end of a
cycle.  Several clients, and a second worker, may run side by side.  The content
programs share files, and nothing locks those.

What is hard.  Threads against the loop (wake-ups, limits); read-modify-write of
whole task records by several threads; transitions that are refused because
another actor moved first; sweeps that act on old observations; retries of work
that is still running; flushes that overwrite what came in meanwhile; restarts
between two writes; lost answers, state files that are stale or torn, marks made
before or after the deed they stand for; two processes that choose the same file
name.  Each such place is in `PROJECT.json` under "hazards".

## 2. Components and what makes each correct

| Component | Modelled in | What has to hold |
|---|---|---|
| task queue | `TaskQueue`, `TaskQueueOnce`, `SlotScheduler` | limits, no leaked slot, no lost wake-up, nothing dropped, priorities, every entry launched |
| persistence manager | `PersistManager` | bounded queue, honest attempt counts, a breaker that agrees with its count and closes again, nothing stored twice, nothing lost |
| message bus, message store, webhooks | `AgentBus` | rows agree with memory, acknowledged changes are kept, every push ends, order, answers survive a restart |
| dispatcher, container store, vehicle side of executor, state machine, retry budget and detector | `Container` | a container leaves "dispatched", its books agree with its vehicles', what needs a human gets there unless a request bypassed the dispatcher, retries do not pile processes up |
| standalone task: executor, state machine, task dictionary, routes, validation, detector | `TaskLifecycle` | no completion without evidence, no offer accepted twice (unless the task was archived), a running builder can be stopped, force-failed stays so, an answer releases its task |
| monitor of the PM | `PMMonitor` | no more sessions in an hour than allowed, none twice for a trigger, an approved proposal that the server lists runs in the end |
| Codex daemon and session | `CodexMonitor` | what is marked read was replied to, one reply, every request that the bus lists is replied to |
| remote worker | `KushWorker` | no task run twice, none left "working" in nobody's hands unless given up, an output is not replaced by an excuse, every task ends |
| MCP client: sending and closing specs | `SpecPipeline` | every task can be closed through its file, no saved spec overwritten, plans follow what the handlers see of their tasks |
| spec slicer | `SpecSlicer` | the vehicles make up the spec, no vehicle without criteria, neighbours that share files do not run at once |
| autonomy of the PM | `PMAutonomy` | a human's word stands; good decisions are promoted (they are not) |
| daily media agent, content server, publisher | `ContentDesk` | nothing published twice, nothing marked posted untried, the dashboard shows the file |
| training videos | `TrainingPipeline` | a video called finished is the module: its slides, its narration, the present edition |
| task dictionary and its rows | `TaskStore` | a restart finds a task as the readers saw it, or finds it deleted (two threads at once break that) |

`PROJECT.json` lists every other part of the repository with the reason why it
is not modelled: the dashboard is a client of the HTTP API; reports,
notifications and configuration keep no state that another part relies on.

## 3. Modules

### TaskQueue, TaskQueueOnce, SlotScheduler (`task_queue.py`)

`TaskQueue` has one action per atomic step of the queue.  An enqueueing thread
pushes (`Push`, under `_heap_lock`) and signals (`Signal`,
`call_soon_threadsafe`) in two steps; the loop delivers the wake-up
(`DeliverWakeup`), runs the dispatcher (`Scan`, `Launch`, `EndPass`, `Wake`,
`WaitTimesOut`, `ExitLoop`) and the ends of runs (`Finish`).  A pass takes what
could be launched out of the heap (`Scan`) and claims slots entry by entry,
putting back what no longer fits (`Claim`, `PutBack`), during which threads may
push but no other callback of the loop may run: `LoopIsFree`.  An entry is
identified by the time stamped on it; a stamp is used once, and its set bounds
the number of pushes.  The heap is a set and its order is `Before`.  `active` is
a set of task ids per machine, as in the code, not a count.

`TaskQueueOnce` restricts the callers to what `LeroyExecutor.execute` does, one
entry per task at a time, and maps the queue to `SlotScheduler`, the abstract
promise: jobs wait, at most `Limit` of them execute on a machine, each ends once.

### PersistManager (`persist_manager.py`)

Every call of `persist_task` is a thread going through `PersistTask` (breaker),
`PersistHealth`, `PersistAttempt` and `PersistEnqueue`; one flush at a time goes
through `FlushBegin` (load the file), `FlushCheck`, `FlushHealth`, `FlushSend`
once per entry, and `FlushSave` (overwrite the file).  The breaker is a record
`[state, failures, cooled]` changed by `CheckCircuit` and `Record`.  The store
behind it is external: it is up, down, or answers the health check and fails
sends, before or after keeping the record (`Outcomes`).  `Crash` keeps the queue
file and the dead letters and loses threads, breaker and flush.

### AgentBus (`agent_bus.py`, message store of `task_db.py`)

`SendStore`, `SendWrite` and `SendNotify` are the three steps of `send`, which
any thread may be in: memory under the lock, the row outside it, the webhook
queue.  `Respond` and `MarkRead` change memory under the lock and copy the
message; `WriteUpdate` writes the copy; being requests of the event loop
without an await, they do not overlap (`LoopIsFree`).  The delivery thread takes
the queue (`TakeBatch`), chooses the next webhook (`PickTarget`) and posts
(`PushSucceeds`, `PushFails`), a failed post having been received or not.
`Restart` loads the rows.  A registration and its row change in one step; a
message is reduced to the flags "responded" and "read", because an answer is
never changed to something that a property would tell apart.  The model holds the
messages to one recipient and that recipient's webhooks: recipients do not share
state except the delivery queue, whose order is per entry.

### Container (`dispatcher.py`, vehicle side of `execution.py`, detector of `server.py`)

One container.  `Dispatch` makes its vehicles; `LaunchVehicle` and `FinishVehicle`
are what the queue does (with the set of ids as slots, as in `TaskQueue`); each run of a
vehicle is a worker thread going through `RunStart`, `RunReportsBlock`,
`RunExits`, `RunCompletes` or `RunFails`, then the dispatcher's handler
(`HandleVehicle...`, under the container's lock, one step) and the budget
(`ChargeBudget`).  A run may also let go of a process that lives: it closed its
streams and did not end within thirty seconds (`RunGivesUp`), or something was
raised after the spawn (`RunBreaks`, whose process stays in `_active_pids`).
`strays` counts such processes and `stale` says whose id is still noted; they end
when they like (`StrayEnds`).  `Transition` is `StateMachine.transition` with the
legacy status its callers fall back to.  The detector is a thread without a lock:
`DetectDeadProcess`, `DetectOrphan`, `DetectOrphanedParent`, and the recovery of
dispatched containers (`SweepBegin` decides, `SweepEnqueue` acts later,
`SweepGivesUp`).  `Restart` empties queue, slots and threads; builders, which have
sessions of their own, outlive it.  A vehicle may have several runs (`Copy`),
because it is retried and the detector can enqueue it again.

`Requests` are the routes that write a vehicle's record, or that of the
container's own task, and tell the dispatcher nothing: a message that requires a
response and its answer (`MessageBlocks`, `AnswerReleases`), a report of completion
or for review, a cancel (`CompleteVehicle`, `PutAside`), a force-fail of a vehicle
or of the container with all its vehicles (`ForceFailVehicle`,
`ForceFailContainer`), and the same for the container's task (`ParentRequest`).
`overruled` is the set of vehicles that a request has blocked or escalated.  Left
out for vehicles: the detector's check of subtasks, an accept by a remote worker,
validation, review, deletion and archiving.

The classification of a failure (infrastructure or not, timeout or not) is a
nondeterministic choice.  Reconvergence is in the model (`container =
"completed"`) but cannot be reached, since `IsDone` is never true in the code
(section 7).

A vehicle's record is written atomically here; what happens when writes of whole
records overlap is the subject of `TaskLifecycle`.

### TaskLifecycle (`execution.py`, `state_machine.py`, `task_db.py`, `routes_*.py`, detector of `server.py`)

One standalone task from submission to its end.  A local one is started by the
queue (`Launch`) in a worker thread that goes through `Spawn`, `Track` (its id
gets into `_active_pids`), `NoteActivity` and `ReportBlock`, and one of the ends
`Reap` + `RunCompletes`/`RunFails`, `TimesOut`, `GiveUp`, `RunBreaks`.  One for
another machine, or an idea made into a task (`CreateIdea`, `Promote`), waits
until it is accepted (`Accept`) and reported (`Complete`, `AskForReview`).  The
PM and the operator answer, review, validate, cancel, archive and force-fail; the
detector reads the record (`SweepBegin`) and acts on it later (`SweepResolve`,
`SweepDead`, `SweepOrphan`).

The heart of the module is how the record is written.  `task_meta[id]["f"] = x`
copies the record, changes the copy and puts the whole copy back
(`task_db.py:54`, `:229`), and three threads do so: the event loop, the worker
thread and the detector.  A handler is therefore a guard and a list of updates it
leaves its thread to do (`todo`), and each update is two steps, `Read` (copy and
change) and `Write` (put back); what another thread writes in between is lost.  An
update is a transition of the state machine, which holds the machine's lock over
both steps, is refused when illegal (`Refuse`, with the fallback of its caller)
and may be followed by the transition that the validation inside it makes
(`Verdict`); a plain status (`Set`); or both fields at once (`Put`, what force-fail
does).  The loop serves one request at a time between two awaits (`LoopIsFree`);
checks made before an await are steps of their own (`PromoteBegin`,
`ReviewBegin`).  Archiving writes a field of a record of any status from the loop
(`Archive`), so it may put back an old status, "pending" too: `restored` counts
that.  Subtasks have all ended when each is completed or failed, which the model
keeps apart and the detector does not.

Abstractions: several writes of fields of one copy are one write; fields other
than state and status are one (`Touch`), written while output is read, and what
is written after a run's report is left out, as is the failure category; the
pop of the process id is one step with the report that follows; a status
check and the request it guards are one step when no await separates them; the age
of an observation is a nondeterministic choice.  A killed process that nobody
has waited for still exists (`ProcessIsGone`).

### TaskStore (`task_db.py`, `task_delete`)

The records in memory and the rows.  Every write is `WriteMemory` (within
`Create`, `Change`, `Delete`) and, the lock released, `WriteRow`; `Fetch` gives a
thread a copy, which it may go on writing after the record has changed or is
gone.  `Reload` is a new process, at any moment.  What a record says is the number
of the write that made it.  `clash` is the set of tasks that two threads wrote at
once and that nobody has written alone since.  What one field's write does to
another's is in `TaskLifecycle`; `SQLiteTaskStore` would write the same rows, but
the agent answers with messages, so the A2A library has no task to save.

### PMMonitor (`monitor/pm_monitor.py`)

A cycle goes through the checks in their order (`CheckPendingMessages`,
`CheckUnreadMessages`, `CheckTaskChanges`, `CheckApprovedProposals`), each of
which adds triggers, and works the triggers off: `QueueForBrad` leaves a note,
`SpawnHeadlessPM` starts a session, `RateLimited` drops this trigger and all that
follow it, `SpawnFails` leaves a note and no mark.  `SaveState` writes the file.
`mem` and `file` have the fields of the program's state; the hour of the rate
limit is counted in `Tick`s.  `Die` may fall anywhere, and in the middle of the
write, which leaves a file that reads as empty.  `Start` takes what a first run
finds as old (`SnapshotTasks`, `SnapshotMessages`).  The server is reduced to
what is polled; of the approved proposals it lists the newest (`NewestApproved`,
`ProposalLimit`), and executed ones stay approved.  Whether a message is for Brad is chosen once (`tier2`).

### CodexMonitor (`monitor/codex_monitor.py`, `mcp/codex_bus.py`)

`FetchUnread` lists the newest unread messages (`IsListed` says which those are at
any moment), `PassOver` skips what is handled
or no request, and a request goes through `RunReview`, `Reply`, `MarkRead`; a call
that raises was carried out or not (`GiveUpHead`).  The interactive session marks
messages of the same inbox read (`SessionReads`).

### KushWorker (`kush_worker.py`, routes it calls)

A worker is in one of the states idle, accept, run, report, excuse, notify; every
call may be lost on the way there or back (`Mislaid`), the process may die, and a
second process may run beside the first.  The server's side is the status and the
result of each task and the routes' guards: only a pending task can be accepted
(`Acceptable`), and a completion looks at nothing (`Completes`).  The message routes
(`routes_messages.py:217`, `:289`), which could still change the status of a task
that has ended, are not among the server's steps here; they are in `TaskLifecycle`
and `Container`.

### SpecPipeline (`mcp/leroy_client.py`, `task_db.py`, `task_events.py`)

A send is `RetroGate`, `OtherGates`, `CreatePlan`, `ChooseName`, `SaveFile`,
`PostSpec`, `LinkPlan`, `LinkFile`, in that order, by any of several clients at
once; `UpdateSpec` closes a task through the file that has its id.  The server
takes tasks up and ends them, and its handlers write into the plans (`TaskEnds`).
Whatever ends a task past those handlers leaves its plan alone: `EndsPast` stands
for a force-fail, a cancel, a completion that the state machine refuses, a request
for QA review, the end of a run that was blocked, and a container's failure.  Names
are pairs of a day's slug and a counter, compared as the directory sorts them.  Which
gates stop a send is a choice, except the two whose state is modelled: the
retro of the latest files, and a task with the same subject.

### SpecSlicer (`spec_slicer.py`, `Dispatcher.dispatch`)

A spec is chosen initially: how many sections each way of looking finds, the
files each mentions, the section each criterion belongs to.  `FindSections`,
`Distribute`, `Merge` (a cursor over the sections) and `BuildVehicles` are the
steps of `slice_spec`; `StartVehicle` and `VehicleCompletes` are the order the
dependencies allow (`Container` has what the dispatcher makes of them).

### PMAutonomy (`pm_autonomy.py`, `task_events.py`)

The handler of an ended build runs in the build's thread in four steps (`Record`,
`SendWord`, `UpdateAction`, `WritePlan`); in the loop, meanwhile, decisions are judged
(`Outcome`), plans closed (`ClosePlan`), old proposals approved (`AutoApprove`)
and tiers evaluated (`Evaluate`).  `ClosePlan` does not look at the build, as
`leroy_update_spec` does not.  `Is` is Python's `is` on what the database
returns.  A decision that was judged or closed before its build had ended and its handler
was through is `hasty`.

### ContentDesk (`daily_media_agent.py`, `content/server`, `post_to_platforms.py`)

One day's draft file: angles with a mark, and a modification time.  The agent has
it written and retries (`AgentStarts`, `SkillWrites`, `SkillEnds`); the content
server parses it when its time has changed (`LoadBrief`, which may be cut short)
and keeps the verdicts by position (`Verdict`, `MarkPosted`); the publisher reads
it once, goes through the platforms of each approved angle and marks the block
(`ParseDraftFile`, one action per platform, then `ReadDraftFile` and
`UpdateDraftFile`, which writes back what was read).  What arrives on a
platform is not known to the program, and is a choice (`Arrives`).  There is one publisher at a
time.  A file whose time differs by at most 0.01 s from the stored one is not
parsed (`content_server.py:82`): that is a step the dashboard does not take, so no
property says when it catches up.

### TrainingPipeline (`content/training/pipeline.py`, `produce.py`)

Both programs draw, speak, join and check over one directory that keeps what
earlier runs left.  A picture or a voice is the edition of the source it was made
from, 0 when there is none; a video is the sequence of its segments.  The author edits
between runs, not during one, and slides are numbered from 1 without a gap.

### Module structure

    SlotScheduler <--INSTANCE-- TaskQueueOnce --EXTENDS--> TaskQueue
    X <--EXTENDS-- XProofs        for X in TaskQueue, TaskQueueOnce,
                                  PersistManager, AgentBus, TaskLifecycle
    MCDaemons <--EXTENDS-- DaemonsProofs
    MCTools <--EXTENDS-- ToolsProofs
    MCServer, TaskQueueProofs <--EXTENDS-- ContainerProofs
    X <--EXTENDS-- MCX            constants for TLC
    PMMonitor, CodexMonitor, KushWorker <--EXTENDS-- MCDaemons
    SpecPipeline, SpecSlicer, PMAutonomy, ContentDesk, TrainingPipeline, TaskStore
                                        <--EXTENDS-- MCTools
    TaskQueue, Container <--EXTENDS-- MCServer

`MCDaemons`, `MCTools` and `MCServer` are unions: the parts in one of them share no
variable, so a behaviour of all of them is an interleaving of behaviours of each, and a
property of one is checked when that one is explored and the others stay as they
began.  A choice made initially says which; fairness is asked of that one only.

## 4. Runs

| Run | Instance | Properties |
|---|---|---|
| `server` | queue: 3 tasks, 2 machines (limits 2 and 1), an unknown target, 2 priorities, 3 pushes; container: 2 independent vehicles, 2 runs each, 1 restart; again one of the two alone, with 2 requests or restarts and up to 3 processes let go of | `ServerTypeOK`, `NoLostWakeup`, `NothingDropped`, `NoOvertaking`, `BudgetBehind`, `AttentionReachesContainer`, `ProcessesAreFew`, `NoVehicleLost` |
| `task_queue_once` | 2 tasks, 2 machines (limits 2 and 1), 3 pushes, tasks enqueued once | `ImplementsScheduler` (refinement), `EveryEntryLaunched` by wake-ups alone unless the queue is stopped |
| `persist_manager` | 3 calls, queue of 2, 2 attempts, threshold 2, 1 crash | `TypeOK`, `StoredOnce`, `QueueDrains`: when the store stays up the queue empties, again and again |
| `persist_context_lost` (violated) | 3 calls, queue of 3 | `NoContextLost`: an entry queued during a flush is overwritten |
| `agent_bus` | 2 messages, 2 webhooks (one wants both messages), 2 posts, 1 restart | `TypeOK`, `Durable`, `NoPushLost`, `InOrder`, `PushesSettle` |
| `container_live` | 2 independent vehicles with 1 run each, 1 slot, detector may enqueue once, and one restart, request or process let go of | `Settles`: a container of independent vehicles leaves "dispatched" |
| `container_chain_settles` (violated) | a chain of 2 vehicles | `Settles`: a container with a dependency never leaves "dispatched" |
| `task_lifecycle` | 1 task, 1 question, 3 requests, of which a restart may take the place of one | `TypeOK`, `AcceptedPerOffer`, `CompletionEarned`, `BuilderCanBeStopped` |
| `daemons` | monitor: a message, a task and 2 proposals, two of the four at a time, lists of 1 proposal, 1 session an hour, 1 remembered trigger, 1 trouble; Codex: 2 requests, 2 notes, lists of 2, 1 mishap; worker: 2 tasks, 2 processes, 2 losses | `DaemonsTypeOK`, `SpawnDiscipline`, `RepliesAndMarks`, `RunsAccountedFor`, `ApprovalsRun`, `EveryReviewReplied`, `EveryTaskEnds` |
| `tools` | client: 2 of them, 2 slugs, 2 sends, a window of 1, 1 mishap, the first task ended past its handlers or not; slicer: up to 3 sections, 3 criteria, 2 files; autonomy: 2 builds, one a vehicle, 3 calls; desk: 2 angles whose titles begin alike, 3 writes, 2 attempts, 1 mishap; training: 2 slides, 2 editions, 1 failure; table: 2 tasks, 2 threads, 4 writes, 1 restart | `ToolsTypeOK`, `TasksAreFiled`, `SpecKept`, `SpecIsWhole`, `NeighboursApart`, `HumanWordStands`, `PublishedOnce`, `DashboardShowsFile`, `FinishedIsTheModule`, `RowsCurrent` |
| `store_writes_persist` (violated) | 1 task, 2 threads, 4 writes | `WritesPersist`: the row is left with the earlier of two records |
| `autonomy_promotes` (violated) | 2 builds, 2 judgements needed, 3 calls | `GoodIsPromoted`: a kind judged right often enough keeps its tier |

What the modules state beyond that is proved for every value of the constants
(section 6) and not checked again on an instance: `SlotBound`, `SlotsHaveRuns`,
`ConcurrencyLimit`, `QueueBound`, `CircuitMatchesFailures`, `OpenKeepsOut`,
`QueuedOnce`, `AttemptsHonest`, `PushedIsStored`, `AckedKept`, `EscalatedStays`, and
the inductive invariants themselves.

Why the bounds are enough.  *Queue*: two slots on one machine and one on the
other, with three entries, are the least with which one pass takes more than it
can claim, an entry is put back while another machine still has room, and a
third entry arrives during the pass; a further entry waits like one of those.
`Stamp` bounds pushes, not passes, wake-ups or run ends.  *Persistence*: three
payloads overflow a queue of two and leave an entry after the one whose send
fails; two attempts and a threshold of two separate "first" from "last"; two
calls let through before the breaker trips report after it.  The attempt limit
is ten and the depth a hundred in the code, where each only serves as the other
end of a comparison.  *Bus*: order needs two messages to one webhook, and
independence two webhooks for one message; the second of two posts is both the
retry and the last.  *Container*: two runs of a vehicle are needed for a retry
that starts before the failing run has ended, and the recovery (with
`MaxQueued = 1`) in the live run.  `MaxQueued = 0` in `server` keeps the
detector from enqueueing again, which is the premise of `ProcessesAreFew`; the
retries themselves are not bounded by it.  Two vehicles show what their handlers do
to one container; requests and processes let go of are explored for one vehicle
beside one that stays in the queue, since no action about one vehicle reads
another's record but the recovery, the completion handler and the container's
force-fail.  Three processes
let go of are one more than the property allows, so the bound does not make it
true; two requests, or a request and a restart, are a block and its answer, or a
write before and one after a handler.  In `container_live` the three disturbances
come one at a time, which is a limit to what it shows: a process that lives on under
a noted id, with three requests that keep the vehicle's status at "working", keeps a
container dispatched for as long as the process lives.  With `Copy = {1}` a retry
starts when the failing run is over.  The exploration ends when the container's task
is no longer dispatched, as it then never is again.
*Task*: the record, its three writers
and the detector's sweeps are not bounded; only HTTP requests and restarts are, three together.  Three of them,
beside the run and the sweep, are the least for check, await and act with another
request in between (`PromoteBegin`, `Cancel`, `Promote`), and for accept, report
and a repeated report, or archive, accept and accept; a restart may fall between any
two steps.  *Daemons*: two matters, of
a message, a task and two proposals, are more than one session an hour, so a trigger
is dropped behind a limited one; two proposals and a list of one push the older off
the list; with one handled trigger remembered the
second pushes the first off the list; one trouble is a death, a failed request, a
failed session or a failed save, anywhere.  Two requests and two ignored notes with lists of two
keep a request off the list, for good if both notes are newer.  What is numbered
appears in the order of its numbers, as proposals, requests and notes are each
interchangeable.  Two workers and two losses are a lost accept beside a running task,
and a lost report followed by a lost second report.  *Tools*: two sends by two
clients meet on one name or on two, of which only the window's one is looked at; the
clients being alike, the first send is always the same one's (`FirstSends`), and only
the first task may be ended past its handlers (`FirstEndsPast`).
Three sections are the least with a first, a middle and a last to be merged.  Two
builds are one that the handler sees and one it leaves to the dispatcher; three
calls are a judgement, a verdict and a restart or an evaluation.  Two titles, one
of which begins with the other, are all that marking by prefix can confuse, and
three writes are a draft, an edit and a mark.  Two slides and two editions show a
picture at the wrong place or of the wrong edition.  Two threads and four writes are a
creation, two changes that overlap and one write alone after them.

Deadlock is not checked: every instance comes to rest when all pushes, calls,
messages, requests or runs of its bound are used up.

Every property of a passing run has a mutant in `PROJECT.json`: a variant of one
definition, kept in the module under "Variants" or marked as a variant with a bug,
under which the run must find the property violated.

## 5. Fairness

*Queue*: the threads between push and signal, the dispatcher and the callbacks
of the loop go on; asyncio runs every ready callback once per iteration, hence
strong fairness for `DeliverWakeup` and for each run's end, and a run ends
because `_run_claude_sync` has timeouts (between two lines: its `readline`, line 426,
has none).  The five-second timeout of the
dispatcher is deliberately not fair.  *Persistence*: the retry thread wakes
every five minutes and time passes; nobody has to call `persist_task` or reset
the breaker.  *Bus*: the delivery thread runs and each of its posts has a
timeout; nothing is assumed of senders, requests or restarts.  *Container*:
threads go on and processes that a run follows end; the queue serves its entries;
the detector runs every minute.  Nothing is asked of a process that was let go of,
or of requests.  A run that only prints [BLOCKED] for ever is not a fair run, as its
inactivity and total timeouts end it.  *Daemons*: the monitor's loop and the Codex
daemon's never stop by themselves, catch what a cycle raises, and launchd starts
them again, hence weak fairness of `Cycle` and `Daemon`; time passes (`Tick`); a
worker polls every thirty seconds, its calls time out and a silent run is killed
(`Works(w)`).  `EveryTaskEnds` leans on the latter: the worker's `readline`
(`kush_worker.py:232`) and its `proc.wait()` (246, 257) have no timeout of their own,
so fairness also says that a builder finishes a line it has begun, ends after it has
closed its output, and does not print for ever.  Nothing is assumed of the server, of the Codex session or of those
who submit, approve and cancel; deaths and lost calls are bounded, not fair.  The
tools state no liveness: somebody starts each of them.  `TaskLifecycle` states no liveness: its
`Spec` has no fairness, since the steps of its three writers and of the run would
each need one, and the state graph of the smallest interesting instance is then
out of TLC's reach.

## 6. Proofs

`TaskQueueProofs`, `TaskQueueOnceProofs`, `PersistManagerProofs`,
`AgentBusProofs`, `ContainerProofs`, `TaskLifecycleProofs`, `DaemonsProofs` and
`ToolsProofs` prove, for every value of the constants that satisfies the ASSUME of
the module, what the runs check on their instances.
Each has the same plan: `TypeCorrect`; a lemma per action (or one per group) that
it keeps the inductive invariant; the invariant; then the properties as
consequences, and the action properties from the invariant.  Nothing is assumed
beyond the named assumptions on the constants.  Every invariant and every action
property of a passing run is a theorem, so is the refinement, and so are the
inductive invariants, which the runs do not check.

- **Queue.**  `SlotBound` and `SlotsHaveRuns` are nearly inductive; finiteness of
  the slot sets has to be carried along, since the machine's limit says nothing
  of an infinite set's `Cardinality`.  `NoLostWakeup` needs two more conjuncts in
  `QueueInv`: during a pass, what stayed in the heap either has no capacity or
  came after the pass began, and outside a pass a launchable entry has a wake-up
  on its way.  `NoOvertaking` and `NothingDropped` follow from it for each step.
- **Queue implements the scheduler.**  With one entry per task (`OnceInv`) the
  ids in the slots are those of the runs, so `Cardinality(active[m])` counts
  executions and a `Claim` is a `Launch`; every other step is a `Submit`, an
  `End` or a stutter.
- **Persistence manager.**  `StoredOnce` needs to know that nothing in the
  flush's snapshot from `next` on, and nothing queued outside the snapshot, has
  been stored (`Unsent`).  `WellFormed` says of queue, snapshot and kept entries
  alike that ids are unique and counts honest, and `FlushPhases` that a flush
  keeps at most one entry.
- **Bus.**  `Durable` needs that there is one update at a time and that it carries
  what memory says (`OneUpdate`), and that a row is never ahead of memory
  (`RowsBehind`).  `InOrder` needs that the thread's batch followed by the queue
  is the end of the log, in its order, and that nothing behind the delivery in
  progress has been received (`InLogOrder`).
- **Container.**  `BudgetBehind` and `ProcessesAreFew` need a count of tokens: a
  vehicle the detector has not enqueued again has one entry or one run that may
  still lead to a retry (`OneToken`), a run about to charge the budget has
  been counted (`Counted`), and processes let go of are no more than the failures
  counted, and one more while a failing run is not counted yet (`Few`); as only the
  first failure is retried, two is the most.  `AttentionReachesContainer` is inductive
  because a request that blocks or escalates adds to `overruled`, and none writes
  "dispatched".  `NoVehicleLost` needs more than that something is left
  of every vehicle: a run whose own failure is refused ends in silence, so a
  vehicle whose failure stands must have an entry, a run that starts afresh or a run
  whose handler is still to come (`Kept`); that a run that is past its start has
  put its vehicle into a state is `Begun`.
- **Task.**  `CompletionEarned` looks at the record, but any of three threads may be
  about to put back a copy of an older one, or to make a transition decided long
  ago.  `LifecycleInv` therefore gives evidence to what is going to be written as
  well: every update a thread has still to do is in `HonestUpdates`, every copy it
  holds in `HonestRecords`, and both sets only grow as evidence comes in
  (`EvidenceStays`: a process that exited with 0 stays so, a report stays
  reported).  With that, `Read`, `Refuse` and `Write` are handled once for all
  writers (`ReadKeeps`, `RefuseKeeps`, `WriteKeeps`), and a handler only has to
  show that the updates it hands out are honest (`UpdatesTaken`).  `Reviewed` is
  needed because an approval in progress rests on a status read before an await;
  `Fresh` says that a record that does not exist yet has no actors; `Orderly`, that
  a thread in a phase between two reports has nothing left to write.
  `EscalatedStays` follows from the type invariant: an escalated record can only
  be changed by a copy, and copies are made of it.
  `AcceptedPerOffer` is the argument of `OffersInv`: only a promotion makes a task
  pending again, only the loop makes promotions, one update at a time
  (`OnlyPromotionOffers`), and a run of the task excludes both an idea and a
  promotion (`RunsAlone`), so unless the task was archived a touch cannot put
  "pending" back (`Started`).  Archiving is a touch of the loop, which may copy
  "pending" and put it back, or have the run's touch put back its own; each time is
  counted (`restored`).  Whoever finds the task pending finds an offer nobody has taken, or a
  loop that is just taking it.  A restart may bring one back, hence its share.
- **Monitor.**  `SpawnDiscipline` is a bound and a memory.  For the bound, what
  counts against this life's sessions includes them and neither state, in memory or
  on disk, counts more than allowed (`Counted`).  For the memory, a trigger that
  started a session is among the handled ones of whichever state will be read next,
  or was forgotten (`Remembering`); and the triggers in hand are different ones,
  not handled, of the checks made so far (`Outstanding`), which is where the order
  of the checks in a cycle is used.
- **Codex daemon.**  `RepliesAndMarks` needs that a message that was replied to
  without a mishap cannot come back (`Settled`): it is the one about to be marked,
  or it is read, and while a list that was fetched before still has it, memory
  knows it as handled.
- **Worker.**  `RunsAccountedFor` needs that a task that was started is never
  pending again (`StartedLeft`), which is why an accept counts to one; that a worker
  has a submitted task in hand (`InHand`), without which not even the type is
  inductive; and that a second report follows a lost answer (`ExcuseUnsure`).
  `HandsKeep` treats all steps after the accept at once: the task stays in the
  worker's hands, is completed, or is given up in the open.
- **Rows.**  `RowsCurrent` needs that a task outside `clash` has at most one row
  still to be written, and that this row is what memory says (`StoreInv`); the
  first half of every write is one lemma (`MemoryKeeps`), the second another.
- **Decisions.**  `HumanWordStands` needs that nothing is decided about a build
  that has not ended (`UntouchedBefore`), so that an end cannot contradict anybody,
  and that the handler of a build judged in peace is through (`HandlerThrough`).
  `TiersNeverMove` is the finding of `autonomy_promotes` for every MinInstances.
- **Slicer.**  `SliceInv` says that the vehicles are built from the sections as
  they were when they began to run, that what runs had its dependencies completed
  and that nothing runs that has ended; most of its proof is that merging keeps a
  sequence of sections.  `SpecIsWhole` needs `WholeInv`: the sections lie as they lay
  in the spec and hold the criteria that belong to them, through every merge
  (`Parted`); what the cursor has passed has criteria if anything has
  (`PassedHaveCriteria`), which is why one pass of merging suffices; and criteria
  that fit nowhere were dropped only if no section was bare.
- **Spec files.**  `SpecKept` needs that a name about to be saved is free
  (`NameIsFree`), which another client's save could undo, so that a name in two hands
  must be one that clashed (`OneHand`).  `TasksAreFiled` adds that each client has a
  send of its own (`OneSendEach`) and each send at most one task, which its client
  knows from the post on (`OneTaskEach`); that the file of a send is still the one
  its client saved (`Saved`); and that the plan is linked by nobody but its client,
  which is what a task that ends in between is too early for (`PlansOfTasks`).  A task
  that was ended past its handlers is exempt from the plan's part of it.
- **Drafts.**  `PublishedOnce` accounts for every published draft (`OnceInv`): it is
  torn, or marked and not to be published, or the one in hand; and the copy that is about
  to be written back has the marks of the file (`HeldInv`).  `DashboardShowsFile`
  only needs that verdicts and rows belong together (`ShownInv`).  Both hold for
  every relation of titles that may begin alike.
- **Training videos.**  `FinishedIsTheModule` is shown for either program from what
  it has done so far: `ProduceInv` says that drawings, voices and segments are of
  this edition up to the place the program has reached, `UnspoiltInv` the same of
  `pipeline.py` as long as nothing failed and nothing strange lies about.  A video
  tells a set of slides if its segments are theirs, each once and in order; that one
  more slide keeps it so is `TellsNext`, and that the pictures counted by position
  are the slides' own, when there are no others, is `PictureOfSlide`.
- **Unions.**  The parts of `MCServer`, `MCDaemons` and `MCTools` share no state, so a
  behaviour of the union is one of each part (`PartsRunAlone`, `ToolsRunAlone`; for
  the daemons the invariants are joined).  With that the type invariants of the parts
  give `ServerTypeOK`, `DaemonsTypeOK` and `ToolsTypeOK`, and what is proved of a part
  holds of the specification the run checks (`ServerCorrect`, `DaemonsCorrect`,
  `ToolsCorrect`).

Only model-checked: the liveness properties (`EveryEntryLaunched`, `QueueDrains`,
`PushesSettle`, `Settles`, `ApprovalsRun`, `EveryReviewReplied`, `EveryTaskEnds`),
since the prover does not handle ENABLED under fairness.

## 7. What the models found

- `dispatcher.py:370` compares states in capitals with states in lower case:
  vehicles that depend on others are never released and containers never
  reconverge (run `container_chain_settles`).
- `server.py:343` reads `_DONE_STATES` from the dispatcher object: with a blocked
  vehicle the recovery that would repair such containers raises (same run).
- `persist_manager.py:565-568`: a flush saves what it kept of its snapshot, over
  what was queued meanwhile and over what it had not tried (run
  `persist_context_lost`).
- `task_db.py:232`: of two threads that write one task the later in memory may be the
  earlier in the table, and stays so until the next write (run `store_writes_persist`).
- `pm_autonomy.py:332` asks whether SQLite's 1 "is" True: no judgement is ever
  counted and no tier ever moves (run `autonomy_promotes`, theorem
  `TiersNeverMove`).

The following have no run of their own; they show in the traces of the modules, or
are what a module's histories exempt from its properties.

*Server.*  `dispatcher.py:731` enqueues a retry while the failing run holds the slot;
when the retry is claimed first, the slot they share is freed under it, and three
processes run on two slots.  `task_db.py:360` looks for answers in a field that is
not written, so they cannot be polled after a restart.  `task_db.py:229`: the worker
thread's activity write puts back the record it read before the PM's answer; the
task stays "waiting_for_pm" with no question open.  A thread that
read a record before its task was deleted puts the task back into memory and table
(`TaskStore`).  `task_events.py:138` asks
`is_infra_failure` about one category where it wants a list, which is never true;
and updating a decision's status wipes its outcome (`UpdateStatus`).

`server.py:128` counts failed subtasks among those that are done, and the task is
then set to completed, while the comment at `server.py:150-153` says "All subtasks
finished successfully": `CompletionEarned` takes subtasks that have ended as evidence,
whether they failed or not.  `routes_tasks.py:444` and `:460`: archiving copies and
puts back the whole record, so an offer that was accepted in between is offered again.

*Requests and vehicles.*  `task_events.py:221` says "Vehicle blocked bypass -- dispatcher
handles block at container level", but only a [BLOCKED] of the builder reaches the
dispatcher (`execution.py:490`): a blocking message about a vehicle, and a force-fail of
one, leave the container as it is (`overruled`).  A process that was let go of may live
beside its retry (`execution.py:548`, `:713`).

*Daemons.*  The server lists the newest fifty approved proposals, and executed ones stay
approved: one that is approved behind fifty newer ones never runs.  A rate limit or a failed session loses the trigger of a question or of
an ended task, which was marked as seen when it was collected; only proposals come
back.  What was spawned is written at the end of a cycle: a death before, or a torn
write, starts a session again for an approved proposal.  A first start takes
waiting messages for old.  Approving and rejecting a proposal look at no status.
The Codex daemon lists the newest unread messages only, and ignored ones stay
unread: when there are as many of them as the list holds, an older request is never
seen; `EveryReviewReplied` speaks of a request as long as it is listed.  `kush_worker.py:316`,
"Try to mark as failed", posts a completion; a lost answer to an accept leaves a
task "working" for ever, since nothing on either side takes it up again.

*Client.*  What ends a task past the handlers of the state machine leaves its plan
"sent" (`routes_tasks.py:60-69`, `:346-354`; `EndsPast`).  `leroy_update_spec` closes the
plan of a build that goes on.  `leroy_client.py:492` imports `json` inside the function, which makes the
use of `json` at line 375 raise: no plan is made for a spec with preflight checks;
line 398 passes a parameter `update_outcome` does not have.  The retro gate is
passed as long as the PM closes nothing.  Two clients that choose a name before
either has saved overwrite each other.

*Slicer.*  Only a dependency between two vehicles that follow each other is ever
removed or kept: when the second is apart from the first and the third, the first
and the third may run at once although they share a file.  Criteria that fit no
section are dropped when every section has one of its own.

*Content.*  The content server stores the file's time before its angles, so a load that is
cut short is not repeated.  The publisher marks a block after all its platforms: a
death in between publishes twice, and a block is marked posted although every
platform failed; LinkedIn and Instagram report success without having seen it, and a
title marks every block whose title begins with it; and what was written to the file
between its reading and its writing back is lost (`post_to_platforms.py:615-637`).  Verdicts belong to a position in
the file, so they pass to another angle when the file is rewritten.
`training/pipeline.py` pairs voices and pictures by position among all files that lie
there, does not look at what ffmpeg returned, and says "ALL OUTPUTS OK" of an old
video.

*Container.*  The detector's recovery counts every vehicle that is not pending, working or
blocked as lost (`server.py:382-390`): a container whose vehicles have all
completed is given up as failed, because of the first item, and so is one whose
only vehicle waits in the queue for its silent retry, since its status still
says failed.  And the recovery enqueues a vehicle in status "pending" although
it may be queued already (`server.py:361-376`), so that two of its runs share
one slot.

`TaskLifecycle` shows more of what reports do to a task that has ended: a builder
that exits with 0 after a cancel makes the task completed, one that is killed by
the detector after its subtasks were done makes it failed again, a cancelled task
is still started when its turn in the queue comes, and one that was forgotten by
a restart waits for ever.  `execution.py:62` says that "tasks in these states will
never transition again".

Outside the models: the start-up sweep over containers never runs, as its call
passes arguments it does not take (`server.py:608`).

## 8. Not modelled

Logging, metrics, activity events, SSE broadcasts, worktrees, prompts and the
text of messages.  `wait_for_response` and its `threading.Event`s: nobody calls
it.  `recovery_sweep_containers`: its only call fails.  The webhook
counters.  Time, except as "old enough" flags (`aged`, `cooled`) and timeouts
that may fire at any moment.  SQLite is a table whose writes are atomic and
durable.  Memory of one process is sequentially consistent, as it is under the
interpreter's lock.

Of the server: the agents' heartbeats, activity and lists; `knowledge_governance.py`,
`improvement_engine.py` and `task_analytics.py` (sequential reports); notifications,
whose results are ignored; the canary; subtasks, except what the detector makes of
them; and, for vehicles, what section 3 names.  Of the
clients: tools that forward one call, and the scores.  Of the monitors: notes,
heartbeats and activity posts.  Of the content tools: PDFs, history pages, and the
text of drafts, slides and narration.  The dashboard, the personas and the process
documents keep no state that a property could be about.

## 9. Plan

1. `TaskStore` composed with `TaskLifecycle`: its `Restart` over rows that may be
   behind, and deletion of a task whose builder runs.
2. Theorems for the compositions of 1 and 3, on top of the invariants of their parts.
3. `KushWorker` composed with `TaskLifecycle` through the task's record, in place of
   its status; a smaller instance of `TaskLifecycle` for liveness.
4. `Container`: an instance for the recovery with `MaxQueued > 0`.

Runs are kept few: a new question joins the run of its module where the instance
allows it.
