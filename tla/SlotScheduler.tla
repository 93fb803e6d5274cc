---------------------------- MODULE SlotScheduler ----------------------------
(***************************************************************************)
(* What the task queue promises its callers (src/server/task_queue.py,     *)
(* lines 3-4 and 15-17): a submitted job waits, is launched when its       *)
(* machine has fewer executions in progress than its limit, and ends once. *)
(* No slots, passes, events or wake-ups: only jobs.                        *)
(***************************************************************************)
EXTENDS Integers, FiniteSets

CONSTANTS
    Job,           \* what is submitted
    MachineOf(_),  \* the machine a job runs on
    Capacity(_)    \* how many jobs a machine may run at once

VARIABLES
    waiting,       \* jobs submitted and not launched
    executing      \* jobs launched and not ended

jobs == <<waiting, executing>>

Init == waiting = {} /\ executing = {}

OnMachine(m) == {k \in executing : MachineOf(k) = m}

Submit(j) ==
    /\ j \notin waiting \cup executing
    /\ waiting' = waiting \cup {j}
    /\ UNCHANGED executing

Launch(j) ==
    /\ j \in waiting
    /\ Cardinality(OnMachine(MachineOf(j))) < Capacity(MachineOf(j))
    /\ waiting' = waiting \ {j}
    /\ executing' = executing \cup {j}

End(j) ==
    /\ j \in executing
    /\ executing' = executing \ {j}
    /\ UNCHANGED waiting

Next == \E j \in Job : Submit(j) \/ Launch(j) \/ End(j)

Spec == Init /\ [][Next]_jobs
=============================================================================
