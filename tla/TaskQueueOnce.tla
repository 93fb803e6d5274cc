---------------------------- MODULE TaskQueueOnce ----------------------------
(***************************************************************************)
(* The task queue as LeroyExecutor.execute uses it (src/server/execution.py*)
(* lines 757-872): every task has an id of its own and is enqueued once    *)
(* while it waits or runs.  Under this discipline the slots count the      *)
(* executions, and the queue implements SlotScheduler.  The callers that   *)
(* enqueue a task a second time are in Container.                          *)
(***************************************************************************)
EXTENDS TaskQueue

(* Variants with one plausible bug each, used to test the properties.      *)

EnqueueUnlessWaiting ==
    \E task \in Task, target \in Target, priority \in Priority, time \in Stamp :
        /\ task \notin {e.task : e \in Waiting}
        /\ Push(task, target, priority, time)

-----------------------------------------------------------------------------
InFlight == {e.task : e \in Waiting \cup runs}

EnqueueFresh ==
    \E task \in Task, target \in Target, priority \in Priority, time \in Stamp :
        task \notin InFlight /\ Push(task, target, priority, time)

OnceNext == EnqueueFresh \/ Serve

OnceSpec == Init /\ [][OnceNext]_vars

OnceFairSpec == OnceSpec /\ Fairness

-----------------------------------------------------------------------------
(* The mapping to the abstract specification: an entry of the heap or of   *)
(* the pass waits, a run that has not released its slot executes.          *)

TargetOf(e) == e.target
LimitOf(m) == Limit[m]

Scheduler == INSTANCE SlotScheduler WITH
    Job <- Entry, MachineOf <- TargetOf, Capacity <- LimitOf,
    waiting <- Waiting, executing <- runs

-----------------------------------------------------------------------------
(* Properties.                                                             *)

RunsOn(m) == {e \in runs : e.target = m}

\* "Respects machine concurrency limits" (task_queue.py:3-4): the executions in
\* progress on a machine, not only its occupied slots, stay within the limit.
ConcurrencyLimit == \A m \in Machine : Cardinality(RunsOn(m)) <= Limit[m]

\* The books agree: the ids in a machine's slots are those of its executions.
SlotsAreRuns == \A m \in Machine : active[m] = {e.task : e \in RunsOn(m)}

\* No task is queued and running at once, or twice in either place.
OneEntryPerTask ==
    \A e, f \in Waiting \cup runs : e.task = f.task => e = f

\* The queue keeps its promise.
ImplementsScheduler == Scheduler!Spec

\* The strengthening that is inductive: the books agree, tasks have one entry,
\* and nothing waits and runs at once.
OnceInv ==
    /\ SlotBound
    /\ SlotsAreRuns
    /\ OneEntryPerTask
    /\ heap \cap batch = {}
    /\ Waiting \cap runs = {}
    /\ \A e \in Waiting \cup runs : e.enqueue_time \in stamps
=============================================================================
