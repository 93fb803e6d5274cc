------------------------------ MODULE Container ------------------------------
(***************************************************************************)
(* One container of vehicles: a large specification sliced into vehicles,  *)
(* held back until what they depend on is done, run by the task queue,     *)
(* retried once, given up after the second failure, and watched by the     *)
(* stall detector (src/server/dispatcher.py, container_store.py, the       *)
(* vehicle side of execution.py and the dispatched recovery of server.py). *)
(*                                                                         *)
(* The queue is what TaskQueue shows it to be: entries wait and are        *)
(* launched when the machine has a free slot, and slots are a set of task  *)
(* ids.  Every run is a worker thread of its own; it may let go of its     *)
(* process while that is alive.  The dispatcher's handlers hold the        *)
(* container's lock from their first read to their last write; the         *)
(* detector is a thread that holds nothing, so what it has seen may be old *)
(* when it acts.  Requests about a vehicle or about the container's own    *)
(* task (routes_messages.py, routes_tasks.py) change the record and tell   *)
(* the dispatcher nothing.                                                 *)
(***************************************************************************)
EXTENDS Integers, FiniteSets

CONSTANTS
    Vehicle,      \* the vehicles the slicer made
    DependsOn,    \* the vehicles a vehicle depends on
    Copy,         \* bound: how many runs one vehicle may have at a time
    MaxQueued,    \* bound: how many entries of one vehicle may wait
    Slots,        \* slots of the machine
    MaxStrays,    \* bound: how many processes of one vehicle runs may let go of
    MaxRequests,  \* bound on the requests explored
    MaxRestarts   \* bound on the restarts explored

ASSUME ContainerAssumption ==
    /\ DependsOn \in [Vehicle -> SUBSET Vehicle]
    /\ Vehicle # {} /\ IsFiniteSet(Copy)
    /\ Slots \in Nat /\ MaxQueued \in Nat
    /\ MaxStrays \in Nat /\ MaxRequests \in Nat /\ MaxRestarts \in Nat

VARIABLES
    container,    \* status of the row in the container store
    parent,       \* status of the container's own task
    aged,         \* the container is older than the stall threshold
    pending,      \* pending_vehicle_ids: vehicles held back
    retry_counts, \* the store's retry count of each vehicle; 2 means two or more
    v2_state,     \* each vehicle's state; "unset" before its first transition
    status,       \* each vehicle's legacy status
    retry_used,   \* each vehicle's retry budget used; 2 means all of it
    waiting,      \* entries of each vehicle in the queue
    slots,        \* the queue's slots
    vehicle_runs, \* where each run of each vehicle is
    strays,       \* live processes of each vehicle that no run follows any more
    stale,        \* vehicles whose id in _active_pids is that of a stray
    sweep,        \* vehicles the detector has decided to enqueue and has not yet
    resubmitted,  \* history: vehicles the detector has enqueued
    detected,     \* history: vehicles the detector has failed
    overruled,    \* history: vehicles a request has blocked or escalated
    requests,     \* requests so far
    restarts      \* restarts so far

rows == <<container, parent, aged, pending, retry_counts>>
queue == <<waiting, slots>>
meta == <<v2_state, status, retry_used>>
detector == <<sweep, resubmitted, detected, restarts>>
aside == <<strays, stale, overruled, requests>>
containerVars ==
    <<container, parent, aged, pending, retry_counts, v2_state, status, retry_used,
      waiting, slots, vehicle_runs, strays, stale, sweep, resubmitted, detected,
      overruled, requests, restarts>>

\* launched: slot claimed; working: process alive, blocking: it reported a block;
\* exited_*: process gone, outcome unreported; completed, failed, crashed:
\* reported, the dispatcher's handler not yet called; counting: budget not yet
\* charged; over: about to free the slot.
Phase == {"none", "launched", "working", "blocking", "exited_ok", "exited_bad",
          "exited_crashed", "completed", "failed", "crashed", "counting", "over"}
State == {"unset", "running", "blocked", "failed_retryable", "completed_unverified",
          "escalated"}
Status == {"blocked", "pending", "working", "failed", "completed", "waiting_for_pm",
           "qa_review", "cancelled"}
TerminalStatus == {"failed", "completed", "cancelled"}

ContainerTypeOK ==
    /\ container \in {"none", "in_flight", "needs_decision", "completed"}
    /\ parent \in {"pending", "dispatched", "waiting_for_pm", "working", "qa_review",
                  "failed", "completed"}
    /\ aged \in BOOLEAN
    /\ pending \subseteq Vehicle /\ slots \subseteq Vehicle /\ sweep \subseteq Vehicle
    /\ resubmitted \subseteq Vehicle /\ detected \subseteq Vehicle
    /\ stale \subseteq Vehicle /\ overruled \subseteq Vehicle
    /\ strays \in [Vehicle -> Nat]
    /\ retry_counts \in [Vehicle -> 0 .. 2]
    /\ retry_used \in [Vehicle -> 0 .. 2]
    /\ v2_state \in [Vehicle -> State]
    /\ status \in [Vehicle -> Status]
    /\ waiting \in [Vehicle -> Nat]
    /\ vehicle_runs \in [Vehicle -> [Copy -> Phase]]
    /\ requests \in 0 .. MaxRequests /\ restarts \in 0 .. MaxRestarts

ContainerInit ==
    /\ container = "none" /\ parent = "pending" /\ aged = FALSE
    /\ pending = {} /\ slots = {} /\ sweep = {}
    /\ retry_counts = [v \in Vehicle |-> 0]
    /\ retry_used = [v \in Vehicle |-> 0]
    /\ v2_state = [v \in Vehicle |-> "unset"]
    /\ status = [v \in Vehicle |-> "pending"]
    /\ waiting = [v \in Vehicle |-> 0]
    /\ vehicle_runs = [v \in Vehicle |-> [c \in Copy |-> "none"]]
    /\ strays = [v \in Vehicle |-> 0]
    /\ stale = {} /\ overruled = {} /\ resubmitted = {} /\ detected = {}
    /\ requests = 0 /\ restarts = 0

-----------------------------------------------------------------------------
(* Variants with one plausible bug each, used to test the properties.      *)

HandleVehicleFailedUncounted(v, c) ==
    /\ \E next \in {<<"failed", "counting">>, <<"crashed", "over">>} :
          /\ vehicle_runs[v][c] = next[1]
          /\ vehicle_runs' = [vehicle_runs EXCEPT ![v][c] = next[2]]
    /\ waiting' = [waiting EXCEPT ![v] = @ + 1]
    /\ retry_counts[v] = 0
    /\ UNCHANGED <<rows, slots, meta, detector, aside>>

HandleVehicleFailedUnqueued(v, c) ==
    /\ \E next \in {<<"failed", "counting">>, <<"crashed", "over">>} :
          /\ vehicle_runs[v][c] = next[1]
          /\ vehicle_runs' = [vehicle_runs EXCEPT ![v][c] = next[2]]
    /\ retry_counts' = [retry_counts EXCEPT ![v] = IF @ = 2 THEN 2 ELSE @ + 1]
    /\ container' = IF retry_counts[v] = 0 THEN container ELSE "needs_decision"
    /\ parent' = IF retry_counts[v] = 0 THEN parent ELSE "failed"
    /\ UNCHANGED <<aged, pending, queue, meta, detector, aside>>

HandleVehicleBlockedUnseen(v, c) ==
    /\ vehicle_runs[v][c] = "blocking"
    /\ vehicle_runs' = [vehicle_runs EXCEPT ![v][c] = "working"]
    /\ UNCHANGED <<rows, queue, meta, detector, aside>>

HandleVehicleFailedThrice(v, c) ==
    /\ \E next \in {<<"failed", "counting">>, <<"crashed", "over">>} :
          /\ vehicle_runs[v][c] = next[1]
          /\ vehicle_runs' = [vehicle_runs EXCEPT ![v][c] = next[2]]
    /\ retry_counts' = [retry_counts EXCEPT ![v] = IF @ = 2 THEN 2 ELSE @ + 1]
    /\ IF retry_counts[v] < 2
       THEN /\ waiting' = [waiting EXCEPT ![v] = @ + 1]
            /\ UNCHANGED <<container, parent>>
       ELSE /\ container' = "needs_decision"
            /\ parent' = "failed"
            /\ UNCHANGED waiting
    /\ UNCHANGED <<aged, pending, slots, meta, detector, aside>>

SweepGivesUpOnFailures ==
    /\ sweep = {} /\ aged /\ parent = "dispatched"
    /\ \A v \in Vehicle : status[v] \notin {"working", "blocked", "pending"}
    /\ \E v \in Vehicle : status[v] = "failed"
    /\ parent' = "failed"
    /\ UNCHANGED <<container, aged, pending, retry_counts, queue, meta, vehicle_runs,
                   detector, aside>>

-----------------------------------------------------------------------------
(* The state machine, as far as a vehicle goes through it.  A vehicle is   *)
(* never initialised: transition takes a missing state for "new".          *)

Legal(v, to) ==
    CASE to = "running" -> v2_state[v] \in {"unset", "blocked", "failed_retryable"}
      [] to = "blocked" -> v2_state[v] = "running"
      [] to = "completed_unverified" -> v2_state[v] = "running"
      [] to = "failed_retryable" ->
             v2_state[v] \in {"running", "blocked", "completed_unverified"}
      [] to = "escalated" -> v2_state[v] = "failed_retryable"

LegacyStatus(to) ==
    CASE to \in {"running", "blocked"} -> "working"
      [] to \in {"failed_retryable", "escalated"} -> "failed"
      [] to = "completed_unverified" -> "completed"

\* transition, or the legacy status its callers fall back to when it is refused.
Transition(v, to, fallback) ==
    /\ v2_state' = [v2_state EXCEPT ![v] = IF Legal(v, to) THEN to ELSE @]
    /\ status' = [status EXCEPT ![v] = IF Legal(v, to) THEN LegacyStatus(to) ELSE fallback]

-----------------------------------------------------------------------------
(* Dispatcher.dispatch, called on the loop, before any run can start.      *)

Ready == {v \in Vehicle : DependsOn[v] = {}}

Dispatch ==
    /\ container = "none"
    /\ container' = "in_flight"
    /\ parent' = "dispatched"
    /\ pending' = Vehicle \ Ready
    /\ status' = [v \in Vehicle |-> IF v \in Ready THEN "pending" ELSE "blocked"]
    /\ waiting' = [v \in Vehicle |-> IF v \in Ready THEN 1 ELSE 0]
    /\ UNCHANGED <<aged, retry_counts, v2_state, retry_used, slots, vehicle_runs, detector,
                   aside>>

Age ==
    /\ container # "none"
    /\ ~aged
    /\ aged' = TRUE
    /\ UNCHANGED <<container, parent, pending, retry_counts, queue, meta, vehicle_runs,
                   detector, aside>>

-----------------------------------------------------------------------------
(* The queue.                                                              *)

LaunchVehicle(v, c) ==
    /\ waiting[v] > 0
    /\ vehicle_runs[v][c] = "none"
    /\ Cardinality(slots) < Slots
    /\ waiting' = [waiting EXCEPT ![v] = @ - 1]
    /\ slots' = slots \cup {v}
    /\ vehicle_runs' = [vehicle_runs EXCEPT ![v][c] = "launched"]
    /\ UNCHANGED <<rows, meta, detector, aside>>

FinishVehicle(v, c) ==
    /\ vehicle_runs[v][c] = "over"
    /\ vehicle_runs' = [vehicle_runs EXCEPT ![v][c] = "none"]
    /\ slots' = slots \ {v}
    /\ UNCHANGED <<rows, meta, waiting, detector, aside>>

-----------------------------------------------------------------------------
(* _run_claude_sync, in a worker thread.                                   *)

Step(v, c, from, to) ==
    /\ vehicle_runs[v][c] = from
    /\ vehicle_runs' = [vehicle_runs EXCEPT ![v][c] = to]

\* The runs that follow a live process.
Processes(v) == {c \in Copy : vehicle_runs[v][c] \in {"working", "blocking"}}

RunStart(v, c) ==
    /\ Step(v, c, "launched", "working")
    /\ Transition(v, "running", "working")
    /\ stale' = stale \ {v}
    /\ UNCHANGED <<rows, retry_used, queue, detector, strays, overruled, requests>>

\* The builder prints [BLOCKED].
RunReportsBlock(v, c) ==
    /\ Legal(v, "blocked")
    /\ Step(v, c, "working", "blocking")
    /\ Transition(v, "blocked", "working")
    /\ overruled' = overruled \ {v}
    /\ UNCHANGED <<rows, retry_used, queue, detector, strays, stale, requests>>

RunExits(v, c) ==
    /\ \E outcome \in {"exited_ok", "exited_bad", "exited_crashed"} :
          Step(v, c, "working", outcome)
    /\ UNCHANGED <<rows, meta, queue, detector, aside>>

LetGo(v) ==
    /\ strays[v] < MaxStrays
    /\ strays' = [strays EXCEPT ![v] = @ + 1]

\* The streams are closed and the process is not: thirty seconds later it is sent
\* SIGTERM and left, without an exit code.
RunGivesUp(v, c) ==
    /\ Step(v, c, "working", "exited_bad")
    /\ LetGo(v)
    /\ UNCHANGED <<rows, meta, queue, detector, stale, overruled, requests>>

\* Anything else is raised after the spawn: the run fails at once, and its process
\* lives on under the id in _active_pids.
RunBreaks(v, c) ==
    /\ \E from \in {"working", "blocking"} :
          Step(v, c, from, IF Legal(v, "failed_retryable") THEN "crashed" ELSE "over")
    /\ Transition(v, "failed_retryable", "failed")
    /\ LetGo(v)
    /\ stale' = stale \cup {v}
    /\ UNCHANGED <<rows, retry_used, queue, detector, overruled, requests>>

\* A process without a run has no timeout: it ends when it likes.
StrayEnds(v) ==
    /\ strays[v] > 0
    /\ strays' = [strays EXCEPT ![v] = @ - 1]
    /\ UNCHANGED <<rows, meta, queue, vehicle_runs, detector, stale, overruled, requests>>

RunCompletes(v, c) ==
    /\ Step(v, c, "exited_ok", "completed")
    /\ Transition(v, "completed_unverified", "completed")
    /\ UNCHANGED <<rows, retry_used, queue, detector, aside>>

\* A refused transition raises past the dispatcher's handler and the budget.
RunFails(v, c) ==
    /\ \/ Step(v, c, "exited_bad", IF Legal(v, "failed_retryable") THEN "failed" ELSE "over")
       \/ Step(v, c, "exited_crashed", IF Legal(v, "failed_retryable") THEN "crashed" ELSE "over")
    /\ Transition(v, "failed_retryable", "failed")
    /\ UNCHANGED <<rows, retry_used, queue, detector, aside>>

\* consume_retry, and the escalation when nothing is left of the budget.  After a
\* timeout an infrastructure failure is not exempt from the escalation.
ChargeBudget(v, c) ==
    /\ Step(v, c, "counting", "over")
    /\ \E infra, timeout \in BOOLEAN :
          LET used == IF infra \/ retry_used[v] = 2 THEN retry_used[v] ELSE retry_used[v] + 1
          IN  /\ retry_used' = [retry_used EXCEPT ![v] = used]
              /\ IF used = 2 /\ (timeout \/ ~infra)
                 THEN /\ Transition(v, "escalated", "failed")
                      /\ overruled' = IF Legal(v, "escalated") THEN overruled \ {v} ELSE overruled
                 ELSE UNCHANGED <<v2_state, status, overruled>>
    /\ UNCHANGED <<rows, queue, detector, strays, stale, requests>>

-----------------------------------------------------------------------------
(* The dispatcher's handlers, under the container's lock.                  *)

NeedsDecision ==
    /\ container' = "needs_decision"
    /\ parent' = "failed"

HandleVehicleBlocked(v, c) ==
    /\ Step(v, c, "blocking", "working")
    /\ NeedsDecision
    /\ UNCHANGED <<aged, pending, retry_counts, queue, meta, detector, aside>>

\* The first failure is retried silently, the next one needs a human.
HandleVehicleFailed(v, c) ==
    /\ \/ Step(v, c, "failed", "counting")
       \/ Step(v, c, "crashed", "over")
    /\ retry_counts' = [retry_counts EXCEPT ![v] = IF @ = 2 THEN 2 ELSE @ + 1]
    /\ IF retry_counts[v] = 0
       THEN /\ waiting' = [waiting EXCEPT ![v] = @ + 1]
            /\ UNCHANGED <<container, parent>>
       ELSE /\ NeedsDecision
            /\ UNCHANGED waiting
    /\ UNCHANGED <<aged, pending, slots, meta, detector, aside>>

\* The dispatcher's _DONE_STATES and what it compares them with: it spells the
\* states in capitals, the state machine does not.
DoneStates == {"COMPLETED_UNVERIFIED", "COMPLETED_VERIFIED", "PERSISTED", "ARCHIVED"}
StateOf(v) == IF v2_state[v] # "unset" THEN v2_state[v] ELSE status[v]
IsDone(v) == StateOf(v) \in DoneStates

Released(v) == {w \in pending : v \in DependsOn[w] /\ \A d \in DependsOn[w] : IsDone(d)}

\* Releases what waited for v; reconverges when every vehicle is done.
HandleVehicleCompleted(v, c) ==
    /\ Step(v, c, "completed", "over")
    /\ pending' = pending \ Released(v)
    /\ waiting' = [w \in Vehicle |-> IF w \in Released(v) THEN waiting[w] + 1 ELSE waiting[w]]
    /\ IF \A w \in Vehicle : IsDone(w)
       THEN container' = "completed" /\ parent' = "completed"
       ELSE UNCHANGED <<container, parent>>
    /\ UNCHANGED <<aged, retry_counts, slots, meta, detector, aside>>

-----------------------------------------------------------------------------
(* The stuck-task detector.                                                *)

Gone(v) ==
    \E c \in Copy : vehicle_runs[v][c] \in {"exited_ok", "exited_bad", "exited_crashed"}

\* Check 2: the process is gone and the thread has not said so yet, or it let go of
\* it.  The status the detector then assigns goes to a copy of the record and is
\* lost.
DetectDeadProcess(v) ==
    /\ sweep = {}
    /\ status[v] = "working"
    /\ Gone(v) \/ (v \in stale /\ strays[v] = 0)
    /\ Transition(v, "failed_retryable", status[v])
    /\ stale' = stale \ {v}
    /\ detected' = detected \cup {v}
    /\ UNCHANGED <<rows, retry_used, queue, vehicle_runs, sweep, resubmitted, restarts,
                   strays, overruled, requests>>

\* Check 3: "working" without a process, as after a restart.  The dispatcher is
\* not told.
DetectOrphan(v) ==
    /\ sweep = {}
    /\ status[v] = "working"
    /\ v \notin stale /\ \A c \in Copy : vehicle_runs[v][c] = "none"
    /\ Transition(v, "failed_retryable", "failed")
    /\ detected' = detected \cup {v}
    /\ UNCHANGED <<rows, retry_used, queue, vehicle_runs, sweep, resubmitted, restarts, aside>>

\* The same, when an answer has made the container's own task "working".
DetectOrphanedParent ==
    /\ sweep = {}
    /\ parent = "working" /\ aged
    /\ parent' = "failed"
    /\ UNCHANGED <<container, aged, pending, retry_counts, queue, meta, vehicle_runs,
                   detector, aside>>

Stalled ==
    /\ sweep = {}
    /\ parent = "dispatched"
    /\ aged
    /\ \A v \in Vehicle : status[v] # "working"

Idle == {v \in Vehicle : status[v] = "pending"}

\* With a blocked vehicle the detector reads _DONE_STATES of the dispatcher
\* object, which has no such attribute: the sweep ends there.
SweepBegin ==
    /\ Stalled
    /\ \A v \in Vehicle : status[v] # "blocked"
    /\ Idle # {}
    /\ sweep' = Idle
    /\ UNCHANGED <<rows, queue, meta, vehicle_runs, resubmitted, detected, restarts, aside>>

SweepEnqueue(v) ==
    /\ v \in sweep
    /\ waiting[v] < MaxQueued
    /\ sweep' = sweep \ {v}
    /\ waiting' = [waiting EXCEPT ![v] = @ + 1]
    /\ resubmitted' = resubmitted \cup {v}
    /\ UNCHANGED <<rows, slots, meta, vehicle_runs, detected, restarts, aside>>

SweepGivesUp ==
    /\ Stalled
    /\ \A v \in Vehicle : status[v] # "blocked"
    /\ Idle = {}
    /\ parent' = "failed"
    /\ UNCHANGED <<container, aged, pending, retry_counts, queue, meta, vehicle_runs,
                   detector, aside>>

-----------------------------------------------------------------------------
(* Requests, on the loop.  None of them calls the dispatcher.              *)

Request ==
    /\ container # "none"
    /\ requests < MaxRequests
    /\ requests' = requests + 1

\* A message about the vehicle that requires a response; its transition may be
\* refused, the status is written all the same.
MessageBlocks(v) ==
    /\ Request
    /\ v2_state' = [v2_state EXCEPT ![v] = IF Legal(v, "blocked") THEN "blocked" ELSE @]
    /\ status' = [status EXCEPT ![v] = "waiting_for_pm"]
    /\ overruled' = IF Legal(v, "blocked") THEN overruled \cup {v} ELSE overruled
    /\ UNCHANGED <<rows, retry_used, queue, vehicle_runs, detector, strays, stale>>

AnswerReleases(v) ==
    /\ Request
    /\ status[v] = "waiting_for_pm"
    /\ Transition(v, "running", "working")
    /\ UNCHANGED <<rows, retry_used, queue, vehicle_runs, detector, strays, stale, overruled>>

\* A report of completion, or for review, and a cancellation.
CompleteVehicle(v) ==
    /\ Request
    /\ Transition(v, "completed_unverified", "completed")
    /\ UNCHANGED <<rows, retry_used, queue, vehicle_runs, detector, strays, stale, overruled>>

PutAside(v) ==
    /\ Request
    /\ \/ status' = [status EXCEPT ![v] = "qa_review"]
       \/ status[v] \in {"pending", "working"} /\ status' = [status EXCEPT ![v] = "cancelled"]
    /\ UNCHANGED <<rows, v2_state, retry_used, queue, vehicle_runs, detector, strays, stale,
                   overruled>>

\* Processes are sent SIGTERM, and their runs go on until they have ended.
ForceFailed(S) ==
    /\ v2_state' = [v \in Vehicle |-> IF v \in S THEN "escalated" ELSE v2_state[v]]
    /\ status' = [v \in Vehicle |-> IF v \in S THEN "failed" ELSE status[v]]
    /\ overruled' = overruled \cup S
    /\ stale' = stale \ S

ForceFailVehicle(v) ==
    /\ Request
    /\ ForceFailed({v})
    /\ UNCHANGED <<rows, retry_used, queue, vehicle_runs, detector, strays>>

ForceFailContainer ==
    /\ Request
    /\ parent' = "failed"
    /\ ForceFailed({v \in Vehicle : status[v] \notin TerminalStatus})
    /\ UNCHANGED <<container, aged, pending, retry_counts, retry_used, queue, vehicle_runs,
                   detector, strays>>

\* The same requests about the container's own task.
ParentRequest ==
    /\ Request
    /\ \/ parent' \in {"waiting_for_pm", "qa_review", "completed"}
       \/ parent = "waiting_for_pm" /\ parent' = "working"
    /\ UNCHANGED <<container, aged, pending, retry_counts, queue, meta, vehicle_runs,
                   detector, strays, stale, overruled>>

-----------------------------------------------------------------------------
\* The server is restarted: tables survive, the queue and the threads do not, and
\* builders, which have sessions of their own, go on.
Restart ==
    /\ restarts < MaxRestarts
    /\ restarts' = restarts + 1
    /\ waiting' = [v \in Vehicle |-> 0]
    /\ slots' = {}
    /\ strays' = [v \in Vehicle |-> strays[v] + Cardinality(Processes(v))]
    /\ vehicle_runs' = [v \in Vehicle |-> [c \in Copy |-> "none"]]
    /\ sweep' = {} /\ stale' = {}
    /\ UNCHANGED <<rows, meta, resubmitted, detected, overruled, requests>>

Run(v, c) ==
    \/ RunStart(v, c) \/ RunReportsBlock(v, c) \/ RunExits(v, c)
    \/ RunGivesUp(v, c) \/ RunBreaks(v, c)
    \/ RunCompletes(v, c) \/ RunFails(v, c) \/ ChargeBudget(v, c)
    \/ HandleVehicleBlocked(v, c) \/ HandleVehicleFailed(v, c)
    \/ HandleVehicleCompleted(v, c)

Detector ==
    \/ \E v \in Vehicle : DetectDeadProcess(v) \/ DetectOrphan(v) \/ SweepEnqueue(v)
    \/ DetectOrphanedParent
    \/ SweepBegin
    \/ SweepGivesUp

Requests ==
    \/ \E v \in Vehicle : \/ MessageBlocks(v) \/ AnswerReleases(v) \/ CompleteVehicle(v)
                         \/ PutAside(v) \/ ForceFailVehicle(v)
    \/ ForceFailContainer
    \/ ParentRequest

ContainerNext ==
    \/ Dispatch
    \/ Age
    \/ \E v \in Vehicle, c \in Copy : LaunchVehicle(v, c) \/ Run(v, c) \/ FinishVehicle(v, c)
    \/ \E v \in Vehicle : StrayEnds(v)
    \/ Detector
    \/ Requests
    \/ Restart

ContainerSpec == ContainerInit /\ [][ContainerNext]_containerVars

(* Threads go on, every process a run follows ends (its timeouts see to    *)
(* that), the queue serves its entries by age, and the detector looks      *)
(* again every minute.  Nothing is asked of strays or requests.            *)
ContainerFairness ==
    /\ WF_containerVars(Dispatch) /\ WF_containerVars(Age)
    /\ WF_containerVars(SweepBegin) /\ WF_containerVars(SweepGivesUp)
    /\ \A v \in Vehicle :
          /\ SF_containerVars(\E c \in Copy : LaunchVehicle(v, c))
          /\ WF_containerVars(SweepEnqueue(v)) /\ WF_containerVars(DetectOrphan(v))
          /\ \A c \in Copy :
                /\ WF_containerVars(Run(v, c) /\ ~RunReportsBlock(v, c))
                /\ WF_containerVars(FinishVehicle(v, c))

ContainerFairSpec == ContainerSpec /\ ContainerFairness

-----------------------------------------------------------------------------
(* Properties.                                                             *)

\* Two books agree: the retry budget in a vehicle's record and the retry count in
\* the container store are charged by different steps of a failing run, and the
\* budget is never ahead, so it cannot run out before the container knows.
BudgetBehind == \A v \in Vehicle : retry_used[v] <= retry_counts[v]

\* What needs a human reaches the container: when its run or its budget has blocked
\* or escalated a vehicle, and the handler has run, the container needs a decision and
\* its task no longer passes for dispatched, whatever requests change meanwhile.  Only
\* a restart between the two can keep a block from it.  What a request blocks or
\* escalates never gets there: the dispatcher is not told (overruled).
AttentionReachesContainer ==
    \A v \in Vehicle \ overruled :
        \/ v2_state[v] \notin {"blocked", "escalated"}
        \/ /\ v2_state[v] = "blocked"
           /\ restarts > 0 \/ \E c \in Copy : vehicle_runs[v][c] = "blocking"
        \/ container = "needs_decision" /\ parent # "dispatched"

\* A vehicle the detector has not enqueued again has at most one process that a run
\* follows, and at most two in all: a retry may run beside the process its first run
\* let go of, but a second failure, whatever it leaves alive, is not retried.
ProcessesAreFew ==
    \A v \in Vehicle \ resubmitted :
        /\ \A c, d \in Processes(v) : c = d
        /\ strays[v] <= IF Processes(v) = {} THEN 2 ELSE 1

\* Inductive, with ContainerTypeOK, and stronger than the three properties above: a vehicle
\* has one entry or one run that may still need a retry, and no more strays than
\* failures; a second failure is in the container's books; a run that is about to
\* charge the budget has been counted.
MayRetry == {"launched", "working", "blocking", "exited_ok", "exited_bad",
             "exited_crashed", "failed", "crashed"}
Retriable(v) == {c \in Copy : vehicle_runs[v][c] \in MayRetry}
Counting(v) == {c \in Copy : vehicle_runs[v][c] = "counting"}

OneToken(v) ==
    /\ waiting[v] <= 1
    /\ waiting[v] = 1 => Retriable(v) = {}
    /\ \A c, d \in Retriable(v) : c = d

LeftOne == {"exited_bad", "failed", "crashed"}

Few(v) ==
    /\ strays[v] <= 2
    /\ waiting[v] = 1 => strays[v] <= retry_counts[v] /\ retry_counts[v] <= 1
    /\ \A c \in Retriable(v) :
          /\ retry_counts[v] <= 1
          /\ strays[v] <= retry_counts[v] + (IF vehicle_runs[v][c] \in LeftOne THEN 1 ELSE 0)

Counted(v) ==
    /\ retry_counts[v] = 0 => retry_used[v] = 0 /\ Counting(v) = {}
    /\ retry_counts[v] = 1 => \/ retry_used[v] = 0 /\ \A c, d \in Counting(v) : c = d
                              \/ retry_used[v] = 1 /\ Counting(v) = {}
    /\ retry_counts[v] = 2 => container = "needs_decision"

ContainerInv ==
    /\ container = "none" =>
          /\ parent = "pending" /\ sweep = {}
          /\ \A v \in Vehicle : /\ waiting[v] = 0 /\ strays[v] = 0
                               /\ \A c \in Copy : vehicle_runs[v][c] = "none"
    /\ container = "needs_decision" => parent \notin {"pending", "dispatched"}
    /\ \A v \in Vehicle : Counted(v)
    /\ \A v \in Vehicle \ resubmitted : OneToken(v) /\ Few(v)
    /\ AttentionReachesContainer

\* While its container is in flight a vehicle that may run waits, runs or has
\* completed: no order of failure, handler, budget and request drops it.  A restart
\* can, and so can the detector when it reports a failure before the run does, and a
\* request that blocks or escalates it.
NoVehicleLost ==
    (parent = "dispatched" /\ restarts = 0) =>
        \A v \in Vehicle \ (pending \cup detected \cup overruled) :
            \/ waiting[v] > 0
            \/ \E c \in Copy : vehicle_runs[v][c] # "none"
            \/ v2_state[v] = "completed_unverified"

\* Inductive with ContainerInv, and stronger than NoVehicleLost: what keeps a vehicle
\* is an entry, a run whose outcome may still enqueue it, or its completion; and a
\* vehicle whose failure stands has an entry, a run that starts afresh, or a run
\* whose handler is still to come, so that a second run of it, whose own failure
\* is refused, may end in silence.
Begun(v) == v2_state[v] = "unset" => \A c \in Copy : vehicle_runs[v][c] \in {"none", "launched"}

Kept(v) ==
    /\ waiting[v] > 0 \/ Retriable(v) # {} \/ v2_state[v] = "completed_unverified"
    /\ v2_state[v] = "failed_retryable" =>
          \/ waiting[v] > 0
          \/ \E c \in Copy : vehicle_runs[v][c] \in {"launched", "failed", "crashed"}

KeptInv ==
    /\ \A v \in Vehicle : Begun(v)
    /\ parent = "dispatched" /\ restarts = 0 =>
          \A v \in Vehicle \ (pending \cup detected \cup overruled) : Kept(v)

\* "This block detects and recovers those stalls" (server.py:277): the task
\* of a container does not stay dispatched.
Settles == parent = "dispatched" ~> parent # "dispatched"

=============================================================================
