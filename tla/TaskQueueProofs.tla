--------------------------- MODULE TaskQueueProofs ---------------------------
(***************************************************************************)
(* Proofs about TaskQueue for every set of tasks, machines, limits and     *)
(* stamps.  QueueInv is the inductive invariant: its conjuncts about a pass*)
(* and about sleep are what NoOvertaking and NoLostWakeup rest on.         *)
(***************************************************************************)
EXTENDS TaskQueue, FiniteSetTheorems, TLAPS

-----------------------------------------------------------------------------
\* What every step of the specification is, one disjunct per action.
QueueStep ==
    \/ \E task \in Task, target \in Target, priority \in Priority, time \in Stamp :
          Push(task, target, priority, time)
    \/ \E e \in unsignalled : Signal(e)
    \/ Start
    \/ Stop
    \/ DeliverWakeup
    \/ Scan
    \/ ExitLoop
    \/ \E e \in NextToLaunch(batch) : Claim(e)
    \/ \E e \in NextToLaunch(batch) : PutBack(e)
    \/ EndPass
    \/ Wake
    \/ WaitTimesOut
    \/ \E e \in runs : Finish(e)

LEMMA NextIsStep == Next <=> QueueStep
BY DEF Next, QueueStep, Enqueue, Serve, Dispatcher, Launch

-----------------------------------------------------------------------------
(* Type correctness.                                                       *)

\* enqueue resolves any target name to a machine the queue knows.
LEMMA ResolveType == \A target : Resolve(target) \in Machine
BY ConstantsAssumption DEF Resolve

LEMMA InitTypeOK == Init => TypeOK
BY DEF Init, TypeOK

LEMMA StepTypeOK == TypeOK /\ [Next]_vars => TypeOK'
<1> SUFFICES ASSUME TypeOK, [Next]_vars
             PROVE  TypeOK'
  OBVIOUS
<1> USE DEF TypeOK
<1>1. ASSUME NEW task \in Task, NEW target \in Target, NEW priority \in Priority,
             NEW time \in Stamp, Push(task, target, priority, time)
      PROVE  TypeOK'
  BY <1>1, ResolveType DEF Push, Entry
<1>2. ASSUME NEW e \in unsignalled, Signal(e)  PROVE TypeOK'
  BY <1>2 DEF Signal
<1>3. CASE Start
  BY <1>3 DEF Start
<1>4. CASE Stop
  BY <1>4 DEF Stop
<1>5. CASE DeliverWakeup
  BY <1>5 DEF DeliverWakeup
<1>6. CASE Scan
  BY <1>6 DEF Scan
<1>7. CASE ExitLoop
  BY <1>7 DEF ExitLoop
<1>8. ASSUME NEW e \in NextToLaunch(batch), Claim(e)  PROVE TypeOK'
  BY <1>8 DEF Claim, NextToLaunch, Entry
<1>9. ASSUME NEW e \in NextToLaunch(batch), PutBack(e)  PROVE TypeOK'
  BY <1>9 DEF PutBack, NextToLaunch
<1>10. CASE EndPass
  BY <1>10 DEF EndPass
<1>11. CASE Wake
  BY <1>11 DEF Wake
<1>12. CASE WaitTimesOut
  BY <1>12 DEF WaitTimesOut
<1>13. ASSUME NEW e \in runs, Finish(e)  PROVE TypeOK'
  BY <1>13 DEF Finish
<1>14. CASE UNCHANGED vars
  BY <1>14 DEF vars
<1>15. QED
  BY <1>1, <1>2, <1>3, <1>4, <1>5, <1>6, <1>7, <1>8, <1>9, <1>10, <1>11, <1>12,
     <1>13, <1>14, NextIsStep DEF QueueStep

\* Type correctness of the queue: in particular every entry carries a machine
\* the queue knows, whatever target its caller named.
THEOREM TypeCorrect == Spec => []TypeOK
BY InitTypeOK, StepTypeOK, PTL DEF Spec

-----------------------------------------------------------------------------
(* The inductive invariant.                                                *)

\* Taking a slot never makes room, and an occupied slot is a finite matter.
LEMMA ClaimFills ==
    ASSUME TypeOK, QueueInv, NEW e \in batch, Claim(e)
    PROVE  /\ \A m \in Machine : IsFiniteSet(active'[m])
           /\ \A m \in Machine : Cardinality(active'[m]) <= Limit[m]
           /\ \A m \in Machine : ~HasCapacity(m) => ~HasCapacity(m)'
<1>1. e.target \in Machine /\ e.task \in Task
  BY DEF TypeOK, Entry
<1>2. active'[e.target] = active[e.target] \cup {e.task}
  BY <1>1 DEF Claim, TypeOK
<1>3. \A m \in Machine : m # e.target => active'[m] = active[m]
  BY DEF Claim, TypeOK
<1>4. /\ IsFiniteSet(active[e.target])
      /\ Cardinality(active[e.target]) \in Nat
  BY <1>1, FS_CardinalityType DEF QueueInv
<1>5. /\ IsFiniteSet(active'[e.target])
      /\ \/ Cardinality(active'[e.target]) = Cardinality(active[e.target])
         \/ Cardinality(active'[e.target]) = Cardinality(active[e.target]) + 1
  <2> DEFINE S == active[e.target]
             x == e.task
  <2>1. IsFiniteSet(S)
    BY <1>4
  <2> HIDE DEF S
  <2>2. /\ IsFiniteSet(S \cup {x})
        /\ Cardinality(S \cup {x}) = IF x \in S THEN Cardinality(S) ELSE Cardinality(S) + 1
    BY <2>1, FS_AddElement
  <2>3. active'[e.target] = S \cup {x}
    BY <1>2 DEF S
  <2>4. QED
    BY <2>2, <2>3 DEF S
<1>6. /\ Limit[e.target] \in Nat
      /\ Cardinality(active[e.target]) < Limit[e.target]
  BY <1>1, ConstantsAssumption DEF Claim, HasCapacity
<1>7. QED
  BY <1>3, <1>4, <1>5, <1>6 DEF QueueInv, SlotBound, HasCapacity

\* Releasing a slot keeps every machine's slots finite and within the limit.
LEMMA FinishFrees ==
    ASSUME TypeOK, QueueInv, NEW e \in runs, Finish(e)
    PROVE  /\ \A m \in Machine : IsFiniteSet(active'[m])
           /\ \A m \in Machine : Cardinality(active'[m]) <= Limit[m]
<1> SUFFICES ASSUME NEW m \in Machine
             PROVE  IsFiniteSet(active'[m]) /\ Cardinality(active'[m]) <= Limit[m]
  OBVIOUS
<1>1. active'[m] \subseteq active[m]
  BY DEF Finish, TypeOK
<1>2. IsFiniteSet(active[m]) /\ Cardinality(active[m]) <= Limit[m]
  BY DEF QueueInv, SlotBound
<1>3. /\ IsFiniteSet(active'[m])
      /\ Cardinality(active'[m]) <= Cardinality(active[m])
  BY <1>1, <1>2, FS_Subset
<1>4. Cardinality(active'[m]) \in Nat /\ Cardinality(active[m]) \in Nat
  BY <1>2, <1>3, FS_CardinalityType
<1>5. QED
  BY <1>2, <1>3, <1>4, ConstantsAssumption

LEMMA InitQueueInv == Init => QueueInv
<1> SUFFICES ASSUME Init
             PROVE  QueueInv
  OBVIOUS
<1>1. \A m \in Machine : active[m] = {}
  BY DEF Init
<1>2. \A m \in Machine : IsFiniteSet(active[m]) /\ Cardinality(active[m]) <= Limit[m]
  BY <1>1, FS_EmptySet, ConstantsAssumption
<1>3. QED
  BY <1>1, <1>2 DEF Init, QueueInv, SlotBound, SlotsHaveRuns

LEMMA StepQueueInv == TypeOK /\ QueueInv /\ [Next]_vars => QueueInv'
<1> SUFFICES ASSUME TypeOK, QueueInv, [Next]_vars
             PROVE  QueueInv'
  OBVIOUS
<1> USE DEF QueueInv, SlotBound, SlotsHaveRuns, HasCapacity
<1>1. ASSUME NEW task \in Task, NEW target \in Target, NEW priority \in Priority,
             NEW time \in Stamp, Push(task, target, priority, time)
      PROVE  QueueInv'
  BY <1>1 DEF Push
<1>2. ASSUME NEW e \in unsignalled, Signal(e)  PROVE QueueInv'
  BY <1>2 DEF Signal
<1>3. CASE Start
  BY <1>3 DEF Start
<1>4. CASE Stop
  BY <1>4 DEF Stop
<1>5. CASE DeliverWakeup
  BY <1>5 DEF DeliverWakeup, LoopIsFree
<1>6. CASE Scan
  BY <1>6 DEF Scan
<1>7. CASE ExitLoop
  BY <1>7 DEF ExitLoop
<1>8. ASSUME NEW e \in NextToLaunch(batch), Claim(e)  PROVE QueueInv'
  <2>1. e \in batch
    BY DEF NextToLaunch
  <2>2. /\ \A m \in Machine : IsFiniteSet(active'[m])
        /\ \A m \in Machine : Cardinality(active'[m]) <= Limit[m]
        /\ \A m \in Machine : ~HasCapacity(m) => ~HasCapacity(m)'
    BY <1>8, <2>1, ClaimFills
  <2>3. SlotsHaveRuns'
    BY <1>8, <2>1 DEF Claim, TypeOK, Entry
  <2>4. \A f \in heap' \ late' : ~HasCapacity(f.target)'
    BY <1>8, <2>2 DEF Claim, TypeOK, Entry
  <2>5. QED
    BY <1>8, <2>2, <2>3, <2>4 DEF Claim
<1>9. ASSUME NEW e \in NextToLaunch(batch), PutBack(e)  PROVE QueueInv'
  BY <1>9 DEF PutBack
<1>10. CASE EndPass
  BY <1>10 DEF EndPass, TypeOK
<1>11. CASE Wake
  BY <1>11 DEF Wake
<1>12. CASE WaitTimesOut
  BY <1>12 DEF WaitTimesOut
<1>13. ASSUME NEW e \in runs, Finish(e)  PROVE QueueInv'
  <2>1. /\ \A m \in Machine : IsFiniteSet(active'[m])
        /\ \A m \in Machine : Cardinality(active'[m]) <= Limit[m]
    BY <1>13, FinishFrees
  <2>2. SlotsHaveRuns'
    BY <1>13 DEF Finish, TypeOK, Entry
  <2>3. pc' # "launch"
    BY <1>13 DEF Finish, LoopIsFree
  <2>4. QED
    BY <1>13, <2>1, <2>2, <2>3 DEF Finish
<1>14. CASE UNCHANGED vars
  BY <1>14 DEF vars
<1>15. QED
  BY <1>1, <1>2, <1>3, <1>4, <1>5, <1>6, <1>7, <1>8, <1>9, <1>10, <1>11, <1>12,
     <1>13, <1>14, NextIsStep DEF QueueStep

\* The invariant the results below rest on.
THEOREM QueueCorrect == Spec => []QueueInv
BY TypeCorrect, InitQueueInv, StepQueueInv, PTL DEF Spec

\* No machine ever has more occupied slots than its limit.
THEOREM SlotsBounded == Spec => []SlotBound
<1>1. QueueInv => SlotBound
  BY DEF QueueInv
<1>2. QED
  BY <1>1, QueueCorrect, PTL

\* An occupied slot always has a run that will release it.
THEOREM NoSlotLeaks == Spec => []SlotsHaveRuns
<1>1. QueueInv => SlotsHaveRuns
  BY DEF QueueInv
<1>2. QED
  BY <1>1, QueueCorrect, PTL

\* The dispatcher never sleeps on work it could launch with nothing to wake it.
THEOREM WakeupsNotLost == Spec => []NoLostWakeup
<1>1. QueueInv => NoLostWakeup
  BY DEF QueueInv, NoLostWakeup
<1>2. QED
  BY <1>1, QueueCorrect, PTL

-----------------------------------------------------------------------------
(* Action properties.                                                      *)

\* No step of the queue drops an entry.
THEOREM EntriesAreKept == Spec => NothingDropped
<1>1. QueueInv /\ [Next]_vars => [Waiting \ (heap' \cup batch') \subseteq runs']_vars
  <2> SUFFICES ASSUME QueueInv, Next, NEW e \in Waiting
               PROVE  e \in heap' \cup batch' \cup runs'
    OBVIOUS
  <2>1. CASE Start \/ Stop \/ DeliverWakeup \/ ExitLoop \/ EndPass \/ Wake \/ WaitTimesOut
    BY <2>1 DEF Start, Stop, DeliverWakeup, ExitLoop, EndPass, Wake, WaitTimesOut, Waiting
  <2>2. CASE Enqueue
    BY <2>2 DEF Enqueue, Push, Waiting
  <2>3. CASE Scan
    BY <2>3 DEF Scan, Waiting, QueueInv, HasCapacity
  <2>4. CASE Launch
    BY <2>4 DEF Launch, Claim, PutBack, Waiting
  <2>5. CASE \E f \in unsignalled : Signal(f)
    BY <2>5 DEF Signal, Waiting
  <2>6. CASE \E f \in runs : Finish(f)
    BY <2>6 DEF Finish, Waiting
  <2>7. QED
    BY <2>1, <2>2, <2>3, <2>4, <2>5, <2>6 DEF Next, Serve, Dispatcher
<1>2. QED
  BY <1>1, QueueCorrect, PTL DEF Spec, NothingDropped

\* A less urgent entry overtakes a more urgent one of its machine only when the
\* urgent one came during the pass.
THEOREM PrioritiesAreKept == Spec => NoOvertaking
<1> DEFINE Kept == \A e \in runs' \ runs : \A f \in Waiting :
                      (f.target = e.target /\ Before(f, e)) => f \in late
<1>1. TypeOK /\ QueueInv /\ [Next]_vars => [Kept]_vars
  <2> SUFFICES ASSUME TypeOK, QueueInv, Next,
                      NEW e \in runs' \ runs, NEW f \in Waiting,
                      f.target = e.target, Before(f, e), f \notin late
               PROVE  FALSE
    OBVIOUS
  <2>1. e \in NextToLaunch(batch) /\ Claim(e)
    BY NextIsStep DEF QueueStep, Push, Signal, Start, Stop, DeliverWakeup, Scan,
       ExitLoop, Claim, PutBack, EndPass, Wake, WaitTimesOut, Finish
  <2>2. f \notin batch
    BY <2>1 DEF NextToLaunch
  <2>3. f \in heap \ late
    BY <2>2 DEF Waiting
  <2>4. ~HasCapacity(f.target)
    BY <2>1, <2>3 DEF QueueInv, Claim
  <2>5. QED
    BY <2>1, <2>4 DEF Claim
<1>2. QED
  BY <1>1, TypeCorrect, QueueCorrect, PTL DEF Spec, NoOvertaking
=============================================================================
