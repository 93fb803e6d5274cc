------------------------------ MODULE TaskQueue ------------------------------
(***************************************************************************)
(* The concurrency-controlled task queue (src/server/task_queue.py): a     *)
(* heap of waiting entries, one set of occupied slots per machine, the     *)
(* dispatcher coroutine that moves entries from the heap into slots, and   *)
(* the coroutine _run_and_release that runs one entry and frees its slot.  *)
(*                                                                         *)
(* Two kinds of process share it.  Threads call enqueue: they push under   *)
(* _heap_lock and then schedule the wake-up, two separate steps.  The      *)
(* asyncio loop runs the dispatcher, the scheduled wake-ups and the ends   *)
(* of the runs; only one of them at a time, and the dispatcher gives the   *)
(* loop back only where it awaits.                                         *)
(*                                                                         *)
(* An entry is identified by its enqueue_time.  time.time() can be set     *)
(* back and two threads can stamp in one order and push in the other, so a *)
(* push may carry any stamp not used before.  Nothing stops a caller from  *)
(* pushing a task that is queued or running already, as enqueue checks     *)
(* nothing of the kind.                                                    *)
(***************************************************************************)
EXTENDS Integers, FiniteSets

CONSTANTS
    Task,            \* task ids
    Machine,         \* keys of _concurrency
    Target,          \* target names a caller may pass
    DefaultMachine,  \* "haze": stands in for an unknown target
    Priority,        \* PRIORITY_MAP's values
    Stamp,           \* the readings of time.time(); its size bounds the pushes
    Limit            \* _concurrency (an override below zero acts as zero)

ASSUME ConstantsAssumption ==
    /\ DefaultMachine \in Machine
    /\ Priority \subseteq Int
    /\ Stamp \subseteq Int
    /\ Limit \in [Machine -> Nat]

VARIABLES
    heap,            \* entries in _heap
    batch,           \* to_dispatch, what is left of it in this pass
    active,          \* _active: the task ids that occupy a machine's slots
    runs,            \* entries whose _run_and_release has not ended
    unsignalled,     \* entries pushed by a thread that has not yet signalled
    wakeups,         \* a call_soon_threadsafe(_wake_event.set) is pending
    wake_event,      \* _wake_event is set
    running,         \* _running
    pc,              \* where the dispatcher coroutine is
    dispatched_any,  \* the dispatcher's local of that name
    stamps,          \* history: stamps already used
    late             \* history: entries pushed since the current pass began

vars == <<heap, batch, active, runs, unsignalled, wakeups, wake_event, running,
          pc, dispatched_any, stamps, late>>

Entry == [task : Task, target : Machine, priority : Priority, enqueue_time : Stamp]

\* The order of the dataclass QueueEntry: priority first, then age.
Before(e, f) ==
    \/ e.priority < f.priority
    \/ e.priority = f.priority /\ e.enqueue_time < f.enqueue_time

Waiting == heap \cup batch

\* The loop can run another callback only where the dispatcher awaits.
LoopIsFree == pc \in {"starting", "asleep", "stopped"}

TypeOK ==
    /\ heap \subseteq Entry
    /\ batch \subseteq Entry
    /\ runs \subseteq Entry
    /\ unsignalled \subseteq Entry
    /\ late \subseteq Entry
    /\ active \in [Machine -> SUBSET Task]
    /\ stamps \subseteq Stamp
    /\ wakeups \in BOOLEAN
    /\ wake_event \in BOOLEAN
    /\ running \in BOOLEAN
    /\ dispatched_any \in BOOLEAN
    /\ pc \in {"off", "starting", "scan", "launch", "asleep", "stopped"}

Init ==
    /\ heap = {} /\ batch = {} /\ runs = {} /\ unsignalled = {} /\ late = {}
    /\ active = [m \in Machine |-> {}]
    /\ stamps = {}
    /\ wakeups = FALSE /\ wake_event = FALSE
    /\ running = FALSE
    /\ pc = "off"
    /\ dispatched_any = FALSE

-----------------------------------------------------------------------------
(* Variants with one plausible bug each, used to test the properties.      *)

ResolveNothing(target) == target

SignalForgotten(e) ==
    /\ e \in unsignalled
    /\ unsignalled' = unsignalled \ {e}
    /\ UNCHANGED <<heap, batch, active, runs, wakeups, wake_event, running, pc,
                   dispatched_any, stamps, late>>

NextToLaunchByAge(S) == {e \in S : \A f \in S : e.enqueue_time <= f.enqueue_time}

PutBackForgotten(e) ==
    /\ pc = "launch"
    /\ batch' = batch \ {e}
    /\ UNCHANGED <<heap, active, runs, unsignalled, wakeups, wake_event, running,
                   pc, dispatched_any, stamps, late>>

FinishWithoutWakeup(e) ==
    /\ LoopIsFree
    /\ e \in runs
    /\ runs' = runs \ {e}
    /\ active' = [active EXCEPT ![e.target] = @ \ {e.task}]
    /\ UNCHANGED <<heap, batch, unsignalled, wakeups, wake_event, running, pc,
                   dispatched_any, stamps, late>>

-----------------------------------------------------------------------------
(* enqueue, called from any thread.                                        *)

\* An unknown target is given to the default machine.
Resolve(target) == IF target \in Machine THEN target ELSE DefaultMachine

Push(task, target, priority, time) ==
    /\ time \notin stamps
    /\ LET e == [task |-> task, target |-> Resolve(target),
                 priority |-> priority, enqueue_time |-> time]
       IN  /\ heap' = heap \cup {e}
           /\ unsignalled' = unsignalled \cup {e}
           /\ late' = late \cup {e}
    /\ stamps' = stamps \cup {time}
    /\ UNCHANGED <<batch, active, runs, wakeups, wake_event, running, pc,
                   dispatched_any>>

\* Before start() there is no event and no loop: nothing to signal.
Signal(e) ==
    /\ e \in unsignalled
    /\ unsignalled' = unsignalled \ {e}
    /\ wakeups' = (wakeups \/ pc # "off")
    /\ UNCHANGED <<heap, batch, active, runs, wake_event, running, pc,
                   dispatched_any, stamps, late>>

-----------------------------------------------------------------------------
(* start, stop and the loop's callbacks.                                   *)

Start ==
    /\ pc = "off"
    /\ running' = TRUE
    /\ pc' = "starting"
    /\ UNCHANGED <<heap, batch, active, runs, unsignalled, wakeups, wake_event,
                   dispatched_any, stamps, late>>

Stop ==
    /\ pc # "off"
    /\ running
    /\ running' = FALSE
    /\ wake_event' = TRUE
    /\ UNCHANGED <<heap, batch, active, runs, unsignalled, wakeups, pc,
                   dispatched_any, stamps, late>>

DeliverWakeup ==
    /\ LoopIsFree
    /\ wakeups
    /\ wakeups' = FALSE
    /\ wake_event' = TRUE
    /\ UNCHANGED <<heap, batch, active, runs, unsignalled, running, pc,
                   dispatched_any, stamps, late>>

-----------------------------------------------------------------------------
(* _dispatcher: one pass takes every entry whose machine has capacity out  *)
(* of the heap, then claims slots for them in heap order.                  *)

HasCapacity(m) == Cardinality(active[m]) < Limit[m]

Scan ==
    /\ pc \in {"starting", "scan"}
    /\ running
    /\ batch' = {e \in heap : HasCapacity(e.target)}
    /\ heap' = {e \in heap : ~HasCapacity(e.target)}
    /\ dispatched_any' = FALSE
    /\ pc' = "launch"
    /\ late' = {}
    /\ UNCHANGED <<active, runs, unsignalled, wakeups, wake_event, running, stamps>>

ExitLoop ==
    /\ pc \in {"starting", "scan"}
    /\ ~running
    /\ pc' = "stopped"
    /\ UNCHANGED <<heap, batch, active, runs, unsignalled, wakeups, wake_event,
                   running, dispatched_any, stamps, late>>

NextToLaunch(S) == {e \in S : \A f \in S : ~Before(f, e)}

\* _claim_slot succeeds: the id joins the set (again, if it is there already).
Claim(e) ==
    /\ pc = "launch"
    /\ HasCapacity(e.target)
    /\ batch' = batch \ {e}
    /\ active' = [active EXCEPT ![e.target] = @ \cup {e.task}]
    /\ runs' = runs \cup {e}
    /\ dispatched_any' = TRUE
    /\ UNCHANGED <<heap, unsignalled, wakeups, wake_event, running, pc, stamps, late>>

\* _claim_slot fails: earlier claims of this pass filled the machine.
PutBack(e) ==
    /\ pc = "launch"
    /\ ~HasCapacity(e.target)
    /\ batch' = batch \ {e}
    /\ heap' = heap \cup {e}
    /\ UNCHANGED <<active, runs, unsignalled, wakeups, wake_event, running, pc,
                   dispatched_any, stamps, late>>

\* After a pass that launched nothing the event is cleared and awaited.
EndPass ==
    /\ pc = "launch"
    /\ batch = {}
    /\ pc' = IF dispatched_any THEN "scan" ELSE "asleep"
    /\ wake_event' = (wake_event /\ dispatched_any)
    /\ UNCHANGED <<heap, batch, active, runs, unsignalled, wakeups, running,
                   dispatched_any, stamps, late>>

Wake ==
    /\ pc = "asleep"
    /\ wake_event
    /\ pc' = "scan"
    /\ UNCHANGED <<heap, batch, active, runs, unsignalled, wakeups, wake_event,
                   running, dispatched_any, stamps, late>>

\* The periodic check: wait_for gives up after five seconds.
WaitTimesOut ==
    /\ pc = "asleep"
    /\ pc' = "scan"
    /\ UNCHANGED <<heap, batch, active, runs, unsignalled, wakeups, wake_event,
                   running, dispatched_any, stamps, late>>

-----------------------------------------------------------------------------
(* _run_and_release: however the execution ends, the slot is released and  *)
(* the dispatcher woken.                                                   *)

Finish(e) ==
    /\ LoopIsFree
    /\ e \in runs
    /\ runs' = runs \ {e}
    /\ active' = [active EXCEPT ![e.target] = @ \ {e.task}]
    /\ wakeups' = TRUE
    /\ UNCHANGED <<heap, batch, unsignalled, wake_event, running, pc,
                   dispatched_any, stamps, late>>

-----------------------------------------------------------------------------
Enqueue ==
    \E task \in Task, target \in Target, priority \in Priority, time \in Stamp :
        Push(task, target, priority, time)

Launch == \E e \in NextToLaunch(batch) : Claim(e) \/ PutBack(e)

Dispatcher == Scan \/ ExitLoop \/ Launch \/ EndPass \/ Wake \/ WaitTimesOut

\* Everything but the arrival of new entries.
Serve ==
    \/ \E e \in unsignalled : Signal(e)
    \/ Start
    \/ Stop
    \/ DeliverWakeup
    \/ Dispatcher
    \/ \E e \in runs : Finish(e)

Next == Enqueue \/ Serve

Spec == Init /\ [][Next]_vars

(* Threads and the dispatcher keep going; the loop runs every ready        *)
(* callback once per iteration, so a callback that is ready again and      *)
(* again is run; every execution ends, as run_claude_sync bounds it.  The  *)
(* five-second timeout is left unfair: the wake-ups alone must do.         *)
Fairness ==
    /\ WF_vars(Start)
    /\ WF_vars(\E e \in unsignalled : Signal(e))
    /\ WF_vars(Scan \/ Launch \/ EndPass \/ Wake)
    /\ SF_vars(DeliverWakeup)
    /\ \A time \in Stamp : SF_vars(\E e \in runs : e.enqueue_time = time /\ Finish(e))

FairSpec == Spec /\ Fairness

-----------------------------------------------------------------------------
(* Properties.                                                             *)

\* A machine never has more occupied slots than its limit (_claim_slot checks
\* and adds under one lock), however many entries one pass took.
SlotBound == \A m \in Machine : Cardinality(active[m]) <= Limit[m]

\* No slot leaks: an occupied slot belongs to a run that has not ended, so it
\* will be released, also when a task was queued twice or given to the default
\* machine.
SlotsHaveRuns ==
    \A m \in Machine : \A t \in active[m] : \E e \in runs : e.task = t /\ e.target = m

\* No wake-up is lost: when the dispatcher sleeps with nothing to wake it - no
\* event, no scheduled callback, no thread about to schedule one - then no entry
\* in the heap could be launched (task_queue.py clears the event after a pass).
NoLostWakeup ==
    (pc = "asleep" /\ ~wake_event /\ ~wakeups /\ unsignalled = {})
        => \A e \in heap : ~HasCapacity(e.target)

\* An entry leaves the heap or the pass only by being launched: neither the
\* take-all-and-put-back of a pass nor a failed claim drops one.
NothingDropped == [][Waiting \ (heap' \cup batch') \subseteq runs']_vars

\* Priorities hold across passes: an entry may be launched before a more urgent
\* one of the same machine only if that one was pushed during the same pass.
NoOvertaking ==
    [][\A e \in runs' \ runs : \A f \in Waiting :
          (f.target = e.target /\ Before(f, e)) => f \in late]_vars

\* Inductive, and stronger than the invariants above: during a pass what is left
\* in the heap is late or has no capacity, and whatever could be launched when
\* the dispatcher falls asleep has a wake-up on its way.
QueueInv ==
    /\ SlotBound
    /\ SlotsHaveRuns
    /\ \A m \in Machine : IsFiniteSet(active[m])
    /\ pc = "launch" => \A e \in heap \ late : ~HasCapacity(e.target)
    /\ pc # "launch" => batch = {}
    /\ \/ pc \in {"off", "starting", "scan", "stopped"}
       \/ pc = "launch" /\ dispatched_any
       \/ pc = "asleep" /\ wake_event
       \/ wakeups
       \/ \A e \in heap : HasCapacity(e.target) => e \in unsignalled

\* Every entry is launched in the end, unless the queue is stopped; without help
\* from the five-second timeout.
EveryEntryLaunched ==
    \A time \in Stamp :
        (\E e \in Waiting : e.enqueue_time = time)
            ~> (~running \/ \E e \in runs : e.enqueue_time = time)

=============================================================================
