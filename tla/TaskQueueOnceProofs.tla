------------------------- MODULE TaskQueueOnceProofs -------------------------
(***************************************************************************)
(* With every task in flight at most once, the queue implements            *)
(* SlotScheduler and keeps the executions of a machine within its limit,   *)
(* for every set of tasks, machines, limits and stamps.                    *)
(***************************************************************************)
EXTENDS TaskQueueOnce, TaskQueueProofs, FunctionTheorems

-----------------------------------------------------------------------------
(* What the discipline inherits: it only removes behaviours.               *)

LEMMA OnceIsStep == OnceNext => Next
BY DEF OnceNext, Next, EnqueueFresh, Enqueue

LEMMA OnceInherits == OnceSpec => [](TypeOK /\ QueueInv)
<1>1. TypeOK /\ [OnceNext]_vars => TypeOK'
  BY OnceIsStep, StepTypeOK
<1>2. TypeOK /\ QueueInv /\ [OnceNext]_vars => QueueInv'
  BY OnceIsStep, StepQueueInv
<1>3. QED
  BY <1>1, <1>2, InitTypeOK, InitQueueInv, PTL DEF OnceSpec

-----------------------------------------------------------------------------
(* The inductive invariant.                                                *)

LEMMA InitOnceInv == Init => OnceInv
<1> SUFFICES ASSUME Init
             PROVE  OnceInv
  OBVIOUS
<1>1. SlotBound
  BY InitQueueInv DEF QueueInv
<1>2. QED
  BY <1>1 DEF Init, OnceInv, SlotsAreRuns, RunsOn, OneEntryPerTask, Waiting

\* A fresh task gets the only entry of that task.
LEMMA PushKeepsOnce ==
    ASSUME TypeOK, OnceInv, EnqueueFresh
    PROVE  SlotsAreRuns' /\ OneEntryPerTask' /\ (heap \cap batch = {})'
             /\ (Waiting \cap runs = {})' /\ (\A e \in Waiting \cup runs : e.enqueue_time \in stamps)'
<1>1. PICK task \in Task, target \in Target, priority \in Priority, time \in Stamp :
          task \notin InFlight /\ Push(task, target, priority, time)
  BY DEF EnqueueFresh
<1> DEFINE e == [task |-> task, target |-> Resolve(target),
                 priority |-> priority, enqueue_time |-> time]
<1>2. /\ heap' = heap \cup {e} /\ batch' = batch /\ runs' = runs /\ active' = active
      /\ stamps' = stamps \cup {time} /\ time \notin stamps
  BY <1>1 DEF Push
<1>3. e.task = task /\ e.enqueue_time = time
  OBVIOUS
<1>4. \A f \in Waiting \cup runs : f.task # task
  BY <1>1 DEF InFlight
<1>5. e \notin Waiting \cup runs
  BY <1>3, <1>4
<1> HIDE DEF e
<1>6. QED
  BY <1>2, <1>3, <1>4, <1>5
     DEF OnceInv, SlotsAreRuns, RunsOn, OneEntryPerTask, Waiting

LEMMA StepOnceInv ==
    TypeOK /\ QueueInv /\ QueueInv' /\ OnceInv /\ [OnceNext]_vars => OnceInv'
<1> SUFFICES ASSUME TypeOK, QueueInv, QueueInv', OnceInv, [OnceNext]_vars
             PROVE  OnceInv'
  OBVIOUS
<1>0. SlotBound'
  BY DEF QueueInv
<1> USE DEF OnceInv, SlotsAreRuns, RunsOn, OneEntryPerTask, Waiting
<1>1. CASE EnqueueFresh
  BY <1>0, <1>1, PushKeepsOnce
<1>2. CASE Start \/ Stop \/ DeliverWakeup \/ ExitLoop \/ EndPass \/ Wake \/ WaitTimesOut
             \/ UNCHANGED vars
  BY <1>0, <1>2
     DEF Start, Stop, DeliverWakeup, ExitLoop, EndPass, Wake, WaitTimesOut, vars
<1>3. CASE \E e \in unsignalled : Signal(e)
  BY <1>0, <1>3 DEF Signal
<1>4. CASE Scan
  <2>1. batch = {}
    BY <1>4 DEF Scan, QueueInv
  <2>2. /\ heap' \cup batch' = heap \cup batch
        /\ heap' \cap batch' = {}
        /\ UNCHANGED <<active, runs, stamps>>
    BY <1>4, <2>1 DEF Scan, HasCapacity
  <2>3. QED
    BY <1>0, <2>2
<1>5. ASSUME NEW e \in batch, Claim(e)  PROVE OnceInv'
  <2>1. e \in Entry /\ e.target \in Machine
    BY DEF TypeOK, Entry
  <2>2. /\ batch' = batch \ {e} /\ heap' = heap /\ runs' = runs \cup {e}
        /\ stamps' = stamps
        /\ active' = [active EXCEPT ![e.target] = @ \cup {e.task}]
    BY <1>5 DEF Claim
  <2>3. SlotsAreRuns'
    BY <2>1, <2>2 DEF TypeOK
  <2>4. QED
    BY <1>0, <2>2, <2>3
<1>6. ASSUME NEW e \in batch, PutBack(e)  PROVE OnceInv'
  BY <1>0, <1>6 DEF PutBack
<1>7. ASSUME NEW e \in runs, Finish(e)  PROVE OnceInv'
  <2>1. e \in Entry /\ e.target \in Machine
    BY DEF TypeOK, Entry
  <2>2. /\ batch' = batch /\ heap' = heap /\ runs' = runs \ {e} /\ stamps' = stamps
        /\ active' = [active EXCEPT ![e.target] = @ \ {e.task}]
    BY <1>7 DEF Finish
  <2>3. \A f \in runs : f.task = e.task => f = e
    OBVIOUS
  <2>4. ASSUME NEW m \in Machine  PROVE active'[m] = {f.task : f \in {g \in runs' : g.target = m}}
    <3>1. CASE m = e.target
      BY <2>1, <2>2, <2>3, <3>1 DEF TypeOK
    <3>2. CASE m # e.target
      BY <2>1, <2>2, <3>2 DEF TypeOK
    <3>3. QED
      BY <3>1, <3>2
  <2>5. QED
    BY <1>0, <2>2, <2>4
<1>8. QED
  BY <1>1, <1>2, <1>3, <1>4, <1>5, <1>6, <1>7
     DEF OnceNext, Serve, Dispatcher, Launch, NextToLaunch

\* Slots and executions stay in step, and every task has one entry at most.
THEOREM OnceCorrect == OnceSpec => []OnceInv
BY OnceInherits, InitOnceInv, StepOnceInv, PTL DEF OnceSpec

-----------------------------------------------------------------------------
(* The concurrency limit.                                                  *)

\* The ids in a machine's slots count its executions.
LEMMA SlotsCountRuns ==
    ASSUME TypeOK, QueueInv, OnceInv, NEW m \in Machine
    PROVE  Cardinality(RunsOn(m)) = Cardinality(active[m])
<1> DEFINE f == [t \in active[m] |-> CHOOSE e \in RunsOn(m) : e.task = t]
<1>1. \A t \in active[m] : f[t] \in RunsOn(m) /\ f[t].task = t
  BY DEF OnceInv, SlotsAreRuns
<1>2. \A e \in RunsOn(m) : e.task \in active[m] /\ f[e.task] = e
  BY <1>1 DEF OnceInv, SlotsAreRuns, OneEntryPerTask, RunsOn
<1>3. f \in [active[m] -> RunsOn(m)]
  BY <1>1
<1> HIDE DEF f
<1>4. f \in Bijection(active[m], RunsOn(m))
  BY <1>1, <1>2, <1>3 DEF Bijection, Injection, Surjection, IsInjective
<1>5. ExistsBijection(active[m], RunsOn(m))
  BY <1>4 DEF ExistsBijection
<1>6. IsFiniteSet(active[m])
  BY DEF QueueInv
<1>7. QED
  BY <1>5, <1>6, FS_Bijection

\* The executions of a machine stay within its limit: what the docstring of
\* task_queue.py promises, for callers that enqueue a task once.
THEOREM LimitRespected == OnceSpec => []ConcurrencyLimit
<1>1. TypeOK /\ QueueInv /\ OnceInv => ConcurrencyLimit
  BY SlotsCountRuns DEF ConcurrencyLimit, OnceInv, SlotBound
<1>2. QED
  BY <1>1, OnceInherits, OnceCorrect, PTL

-----------------------------------------------------------------------------
(* Refinement.                                                             *)

\* Both modules count with the Cardinality of FiniteSets.
LEMMA SameCardinality == \A S : Scheduler!Cardinality(S) = Cardinality(S)
BY DEF Scheduler!Cardinality, Cardinality

LEMMA InitMaps == Init => Scheduler!Init
BY DEF Init, Waiting, Scheduler!Init

LEMMA StepMaps ==
    TypeOK /\ QueueInv /\ OnceInv /\ [OnceNext]_vars
        => [Scheduler!Next]_<<Waiting, runs>>
<1> SUFFICES ASSUME TypeOK, QueueInv, OnceInv, [OnceNext]_vars
             PROVE  Scheduler!Next \/ UNCHANGED <<Waiting, runs>>
  OBVIOUS
<1>1. CASE EnqueueFresh
  <2>1. PICK task \in Task, target \in Target, priority \in Priority, time \in Stamp :
          Push(task, target, priority, time)
    BY <1>1 DEF EnqueueFresh
  <2> DEFINE e == [task |-> task, target |-> Resolve(target),
                   priority |-> priority, enqueue_time |-> time]
  <2>2. e \in Entry
    BY ResolveType DEF Entry
  <2>3. e \notin Waiting \cup runs
    BY <2>1 DEF Push, OnceInv
  <2>4. Waiting' = Waiting \cup {e} /\ runs' = runs
    BY <2>1 DEF Push, Waiting
  <2>5. Scheduler!Submit(e)
    BY <2>3, <2>4 DEF Scheduler!Submit
  <2>6. QED
    BY <2>2, <2>5 DEF Scheduler!Next
<1>2. CASE Start \/ Stop \/ DeliverWakeup \/ ExitLoop \/ EndPass \/ Wake \/ WaitTimesOut
             \/ UNCHANGED vars
  BY <1>2
     DEF Start, Stop, DeliverWakeup, ExitLoop, EndPass, Wake, WaitTimesOut, vars, Waiting
<1>3. CASE \E e \in unsignalled : Signal(e)
  BY <1>3 DEF Signal, Waiting
<1>4. CASE Scan
  BY <1>4 DEF Scan, Waiting, HasCapacity, QueueInv
<1>5. ASSUME NEW e \in batch, Claim(e)  PROVE Scheduler!Next
  <2>1. e \in Entry /\ e.target \in Machine
    BY DEF TypeOK, Entry
  <2>2. Cardinality(RunsOn(e.target)) < Limit[e.target]
    BY <1>5, <2>1, SlotsCountRuns DEF Claim, HasCapacity
  <2>3. RunsOn(e.target) = Scheduler!OnMachine(e.target)
    BY DEF RunsOn, Scheduler!OnMachine, TargetOf
  <2>4. Waiting' = Waiting \ {e} /\ runs' = runs \cup {e} /\ e \in Waiting
    BY <1>5 DEF Claim, Waiting, OnceInv
  <2>5. Scheduler!Launch(e)
    BY <2>2, <2>4, SameCardinality DEF Scheduler!Launch, Scheduler!OnMachine, RunsOn, TargetOf, LimitOf
  <2>6. QED
    BY <2>1, <2>5 DEF Scheduler!Next
<1>6. ASSUME NEW e \in batch, PutBack(e)  PROVE UNCHANGED <<Waiting, runs>>
  BY <1>6 DEF PutBack, Waiting
<1>7. ASSUME NEW e \in runs, Finish(e)  PROVE Scheduler!Next
  <2>1. e \in Entry
    BY DEF TypeOK
  <2>2. Scheduler!End(e)
    BY <1>7 DEF Finish, Waiting, Scheduler!End
  <2>3. QED
    BY <2>1, <2>2 DEF Scheduler!Next
<1>8. QED
  BY <1>1, <1>2, <1>3, <1>4, <1>5, <1>6, <1>7
     DEF OnceNext, Serve, Dispatcher, Launch, NextToLaunch

\* Every behaviour of the queue under the discipline is a behaviour of the
\* abstract scheduler.
THEOREM Refinement == OnceSpec => ImplementsScheduler
BY OnceInherits, OnceCorrect, InitMaps, StepMaps, PTL
   DEF OnceSpec, ImplementsScheduler, Scheduler!Spec, Scheduler!jobs
=============================================================================
