--------------------------- MODULE ContainerProofs ---------------------------
(***************************************************************************)
(* Proofs about Container: its types, and an inductive invariant from      *)
(* which it follows that the retry budget never runs ahead of the          *)
(* container's retry counts, that escalations and blocks reach the         *)
(* container, and that a vehicle the detector leaves alone never has more  *)
(* than two processes; and a second invariant, from which no vehicle of a  *)
(* container in flight is lost - for every set of vehicles, every          *)
(* dependency relation and any number of slots, whatever requests come.  And the types of the queue and the   *)
(* container together.                                                     *)
(***************************************************************************)
EXTENDS MCServer, TaskQueueProofs

\* What a transition leaves behind is a state and a status, whichever it was.
LEMMA TransitionTypes ==
    ASSUME ContainerTypeOK, NEW v \in Vehicle, NEW to \in State \ {"unset"}, NEW fallback \in Status,
           Transition(v, to, fallback)
    PROVE  /\ v2_state' \in [Vehicle -> State]
           /\ status' \in [Vehicle -> Status]
<1>1. LegacyStatus(to) \in Status
  BY DEF LegacyStatus, State, Status
<1> QED
  BY <1>1 DEF ContainerTypeOK, Transition

LEMMA StepTypes ==
    ASSUME ContainerTypeOK, NEW v \in Vehicle, NEW c \in Copy, NEW from, NEW to \in Phase,
           Step(v, c, from, to)
    PROVE  vehicle_runs' \in [Vehicle -> [Copy -> Phase]]
BY DEF ContainerTypeOK, Step

\* No vehicle is ever done in the dispatcher's spelling: its release and its
\* reconvergence are dead code.
LEMMA NeverDone ==
    ASSUME ContainerTypeOK, NEW v \in Vehicle
    PROVE  ~IsDone(v)
<1>1. StateOf(v) \in State \cup Status
  BY DEF ContainerTypeOK, StateOf
<1> QED
  BY <1>1 DEF IsDone, DoneStates, State, Status

LEMMA NothingReleased ==
    ASSUME ContainerTypeOK, NEW v \in Vehicle
    PROVE  Released(v) = {}
BY NeverDone, ContainerAssumption DEF Released, ContainerTypeOK

\* A completion handler changes nothing but the place of its run.
LEMMA CompletedIsQuiet ==
    ASSUME ContainerTypeOK, NEW v \in Vehicle, NEW c \in Copy, HandleVehicleCompleted(v, c)
    PROVE  /\ Step(v, c, "completed", "over")
           /\ UNCHANGED <<rows, queue, meta, detector, aside>>
<1>1. Released(v) = {}
  BY NothingReleased
<1>2. ~ \A w \in Vehicle : IsDone(w)
  BY NeverDone, ContainerAssumption
<1>3. waiting' = waiting
  BY <1>1 DEF HandleVehicleCompleted, ContainerTypeOK
<1> QED
  BY <1>1, <1>2, <1>3 DEF HandleVehicleCompleted, rows, queue, meta, detector

\* The runs of a vehicle are finitely many, and so are its live processes.
LEMMA ProcessesCounted ==
    ASSUME NEW v \in Vehicle
    PROVE  /\ Cardinality(Processes(v)) \in Nat
           /\ Processes(v) = {} => Cardinality(Processes(v)) = 0
           /\ (\A c, d \in Processes(v) : c = d) => Cardinality(Processes(v)) <= 1
<1>1. IsFiniteSet(Processes(v))
  BY ContainerAssumption, FS_Subset DEF ContainerAssumption, Processes
<1>2. ASSUME \A c, d \in Processes(v) : c = d, Processes(v) # {}
      PROVE  Cardinality(Processes(v)) = 1
  <2>1. PICK c : c \in Processes(v)
    BY <1>2
  <2>2. Processes(v) = {c}
    BY <1>2, <2>1
  <2> QED
    BY <2>2, FS_Singleton
<1> QED
  BY <1>1, <1>2, FS_CardinalityType, FS_EmptySet

\* A request leaves entries, runs and books alone, comes after the dispatch, and
\* either overrules a vehicle or moves it no further than to a run or a completion.
LEMMA RequestsAreQuiet ==
    ASSUME ContainerTypeOK, Requests
    PROVE  /\ UNCHANGED <<container, aged, pending, retry_counts, retry_used, queue,
                          vehicle_runs, detector, strays>>
           /\ container # "none"
           /\ parent' \in {parent, "waiting_for_pm", "working", "qa_review", "failed", "completed"}
           /\ v2_state' \in [Vehicle -> State] /\ status' \in [Vehicle -> Status]
           /\ overruled \subseteq overruled' /\ overruled' \subseteq Vehicle
           /\ stale' \subseteq stale /\ requests' = requests + 1 /\ requests < MaxRequests
           /\ \A w \in Vehicle \ overruled' :
                 \/ v2_state'[w] = v2_state[w]
                 \/ v2_state'[w] = "running" /\ v2_state[w] # "completed_unverified"
                 \/ v2_state'[w] = "completed_unverified"
<1>1. ASSUME NEW v \in Vehicle, MessageBlocks(v) \/ PutAside(v) PROVE
           /\ v2_state' \in [Vehicle -> State] /\ status' \in [Vehicle -> Status]
           /\ \A w \in Vehicle \ overruled' : v2_state'[w] = v2_state[w]
  <2>1. CASE MessageBlocks(v)
    BY <2>1 DEF MessageBlocks, ContainerTypeOK, State, Status
  <2>2. CASE PutAside(v)
    BY <2>2 DEF PutAside, ContainerTypeOK, State, Status
  <2> QED
    BY <1>1, <2>1, <2>2
<1>2. ASSUME NEW v \in Vehicle, AnswerReleases(v) \/ CompleteVehicle(v) PROVE
           /\ v2_state' \in [Vehicle -> State] /\ status' \in [Vehicle -> Status]
           /\ \A w \in Vehicle \ overruled' :
                 \/ v2_state'[w] = v2_state[w]
                 \/ v2_state'[w] = "running" /\ v2_state[w] # "completed_unverified"
                 \/ v2_state'[w] = "completed_unverified"
  <2>1. v2_state' \in [Vehicle -> State] /\ status' \in [Vehicle -> Status]
    BY <1>2, TransitionTypes DEF AnswerReleases, CompleteVehicle, State, Status
  <2> QED
    BY <1>2, <2>1 DEF AnswerReleases, CompleteVehicle, Transition, Legal, ContainerTypeOK
<1>3. ASSUME NEW S \in SUBSET Vehicle, ForceFailed(S) PROVE
           /\ v2_state' \in [Vehicle -> State] /\ status' \in [Vehicle -> Status]
           /\ \A w \in Vehicle \ overruled' : v2_state'[w] = v2_state[w]
           /\ overruled \subseteq overruled' /\ overruled' \subseteq Vehicle /\ stale' \subseteq stale
  BY <1>3 DEF ForceFailed, ContainerTypeOK, State, Status
<1>4. ASSUME NEW v \in Vehicle,
             \/ MessageBlocks(v) \/ AnswerReleases(v) \/ CompleteVehicle(v)
             \/ PutAside(v) \/ ForceFailVehicle(v)
      PROVE  /\ overruled \subseteq overruled' /\ overruled' \subseteq Vehicle /\ stale' \subseteq stale
             /\ UNCHANGED <<rows, retry_used, queue, vehicle_runs, detector, strays>> /\ Request
  <2>1. CASE MessageBlocks(v) \/ AnswerReleases(v) \/ CompleteVehicle(v) \/ PutAside(v)
    BY <2>1 DEF MessageBlocks, AnswerReleases, CompleteVehicle, PutAside, ContainerTypeOK
  <2>2. CASE ForceFailVehicle(v)
    BY <2>2, <1>3 DEF ForceFailVehicle
  <2> QED
    BY <1>4, <2>1, <2>2
<1>5. CASE \E v \in Vehicle : \/ MessageBlocks(v) \/ AnswerReleases(v) \/ CompleteVehicle(v)
                              \/ PutAside(v) \/ ForceFailVehicle(v)
  BY <1>1, <1>2, <1>3, <1>4, <1>5 DEF ForceFailVehicle, Request, rows
<1>6. CASE ForceFailContainer
  <2> DEFINE S == {v \in Vehicle : status[v] \notin TerminalStatus}
  <2>1. ForceFailed(S) /\ S \in SUBSET Vehicle
    BY <1>6 DEF ForceFailContainer
  <2> HIDE DEF S
  <2> QED
    BY <1>6, <2>1, <1>3 DEF ForceFailContainer, Request
<1>7. CASE ParentRequest
  BY <1>7 DEF ParentRequest, Request, meta, ContainerTypeOK
<1> QED
  BY <1>5, <1>6, <1>7 DEF Requests

LEMMA TypeStep == ContainerTypeOK /\ [ContainerNext]_containerVars => ContainerTypeOK'
<1> SUFFICES ASSUME ContainerTypeOK, [ContainerNext]_containerVars PROVE ContainerTypeOK'
  OBVIOUS
<1> USE ContainerAssumption
<1>1. CASE Dispatch
  BY <1>1 DEF Dispatch, ContainerTypeOK, Ready, Status, detector, aside
<1>2. CASE Age
  BY <1>2 DEF Age, ContainerTypeOK, queue, meta, detector, aside
<1>3. ASSUME NEW v \in Vehicle, NEW c \in Copy, LaunchVehicle(v, c) PROVE ContainerTypeOK'
  BY <1>3 DEF LaunchVehicle, ContainerTypeOK, Phase, rows, meta, detector, aside
<1>4. ASSUME NEW v \in Vehicle, NEW c \in Copy, FinishVehicle(v, c) PROVE ContainerTypeOK'
  BY <1>4 DEF FinishVehicle, ContainerTypeOK, Phase, rows, meta, detector, aside
<1>5. ASSUME NEW v \in Vehicle, NEW c \in Copy, Run(v, c) PROVE ContainerTypeOK'
  <2>1. CASE RunStart(v, c)
    <3>1. v2_state' \in [Vehicle -> State] /\ status' \in [Vehicle -> Status]
      BY <2>1, TransitionTypes DEF RunStart, State, Status
    <3>2. vehicle_runs' \in [Vehicle -> [Copy -> Phase]]
      BY <2>1, StepTypes DEF RunStart, Phase
    <3> QED
      BY <2>1, <3>1, <3>2 DEF RunStart, ContainerTypeOK, rows, queue, detector, aside
  <2>2. CASE RunReportsBlock(v, c)
    <3>1. v2_state' \in [Vehicle -> State] /\ status' \in [Vehicle -> Status]
      BY <2>2, TransitionTypes DEF RunReportsBlock, State, Status
    <3>2. vehicle_runs' \in [Vehicle -> [Copy -> Phase]]
      BY <2>2, StepTypes DEF RunReportsBlock, Phase
    <3> QED
      BY <2>2, <3>1, <3>2 DEF RunReportsBlock, ContainerTypeOK, rows, queue, detector, aside
  <2>3. CASE RunExits(v, c)
    <3>1. vehicle_runs' \in [Vehicle -> [Copy -> Phase]]
      BY <2>3, StepTypes DEF RunExits, Phase
    <3> QED
      BY <2>3, <3>1 DEF RunExits, ContainerTypeOK, rows, queue, meta, detector, aside
  <2>10. CASE RunGivesUp(v, c)
    <3>1. vehicle_runs' \in [Vehicle -> [Copy -> Phase]]
      BY <2>10, StepTypes DEF RunGivesUp, Phase
    <3>2. strays' \in [Vehicle -> Nat]
      BY <2>10 DEF RunGivesUp, LetGo, ContainerTypeOK
    <3> QED
      BY <2>10, <3>1, <3>2 DEF RunGivesUp, ContainerTypeOK, rows, queue, meta, detector
  <2>11. CASE RunBreaks(v, c)
    <3>1. v2_state' \in [Vehicle -> State] /\ status' \in [Vehicle -> Status]
      BY <2>11, TransitionTypes DEF RunBreaks, State, Status
    <3>2. vehicle_runs' \in [Vehicle -> [Copy -> Phase]]
      BY <2>11, StepTypes DEF RunBreaks, Phase
    <3>3. strays' \in [Vehicle -> Nat]
      BY <2>11 DEF RunBreaks, LetGo, ContainerTypeOK
    <3> QED
      BY <2>11, <3>1, <3>2, <3>3 DEF RunBreaks, ContainerTypeOK, rows, queue, detector
  <2>4. CASE RunCompletes(v, c)
    <3>1. v2_state' \in [Vehicle -> State] /\ status' \in [Vehicle -> Status]
      BY <2>4, TransitionTypes DEF RunCompletes, State, Status
    <3>2. vehicle_runs' \in [Vehicle -> [Copy -> Phase]]
      BY <2>4, StepTypes DEF RunCompletes, Phase
    <3> QED
      BY <2>4, <3>1, <3>2 DEF RunCompletes, ContainerTypeOK, rows, queue, detector, aside
  <2>5. CASE RunFails(v, c)
    <3>1. v2_state' \in [Vehicle -> State] /\ status' \in [Vehicle -> Status]
      BY <2>5, TransitionTypes DEF RunFails, State, Status
    <3>2. vehicle_runs' \in [Vehicle -> [Copy -> Phase]]
      BY <2>5, StepTypes DEF RunFails, Phase
    <3> QED
      BY <2>5, <3>1, <3>2 DEF RunFails, ContainerTypeOK, rows, queue, detector, aside
  <2>6. CASE ChargeBudget(v, c)
    <3>1. v2_state' \in [Vehicle -> State] /\ status' \in [Vehicle -> Status]
      <4>1. Transition(v, "escalated", "failed") \/ UNCHANGED <<v2_state, status>>
        BY <2>6 DEF ChargeBudget
      <4> QED
        BY <4>1, TransitionTypes DEF State, Status, ContainerTypeOK
    <3>2. vehicle_runs' \in [Vehicle -> [Copy -> Phase]]
      BY <2>6, StepTypes DEF ChargeBudget, Phase
    <3>3. retry_used' \in [Vehicle -> 0 .. 2]
      BY <2>6 DEF ChargeBudget, ContainerTypeOK
    <3> QED
      BY <2>6, <3>1, <3>2, <3>3 DEF ChargeBudget, ContainerTypeOK, rows, queue, detector, aside
  <2>7. CASE HandleVehicleBlocked(v, c)
    <3>1. vehicle_runs' \in [Vehicle -> [Copy -> Phase]]
      BY <2>7, StepTypes DEF HandleVehicleBlocked, Phase
    <3> QED
      BY <2>7, <3>1 DEF HandleVehicleBlocked, NeedsDecision, ContainerTypeOK, queue, meta, detector, aside
  <2>8. CASE HandleVehicleFailed(v, c)
    <3>1. vehicle_runs' \in [Vehicle -> [Copy -> Phase]]
      BY <2>8, StepTypes DEF HandleVehicleFailed, Phase
    <3>2. retry_counts' \in [Vehicle -> 0 .. 2]
      BY <2>8 DEF HandleVehicleFailed, ContainerTypeOK
    <3>3. waiting' \in [Vehicle -> Nat]
      BY <2>8 DEF HandleVehicleFailed, ContainerTypeOK
    <3> QED
      BY <2>8, <3>1, <3>2, <3>3 DEF HandleVehicleFailed, NeedsDecision, ContainerTypeOK, meta, detector, aside
  <2>9. CASE HandleVehicleCompleted(v, c)
    <3>1. vehicle_runs' \in [Vehicle -> [Copy -> Phase]]
      BY <2>9, CompletedIsQuiet, StepTypes DEF Phase
    <3> QED
      BY <2>9, <3>1, CompletedIsQuiet DEF ContainerTypeOK, rows, queue, meta, detector, aside
  <2> QED
    BY <1>5, <2>1, <2>2, <2>3, <2>4, <2>5, <2>6, <2>7, <2>8, <2>9, <2>10, <2>11 DEF Run
<1>6. ASSUME NEW v \in Vehicle, DetectDeadProcess(v) \/ DetectOrphan(v) PROVE ContainerTypeOK'
  <2>1. status[v] \in Status
    BY DEF ContainerTypeOK
  <2>2. v2_state' \in [Vehicle -> State] /\ status' \in [Vehicle -> Status]
    BY <1>6, <2>1, TransitionTypes DEF DetectDeadProcess, DetectOrphan, State, Status
  <2> QED
    BY <1>6, <2>2 DEF DetectDeadProcess, DetectOrphan, ContainerTypeOK, rows, queue, aside
<1>7. ASSUME NEW v \in Vehicle, SweepEnqueue(v) PROVE ContainerTypeOK'
  BY <1>7 DEF SweepEnqueue, ContainerTypeOK, rows, meta, aside
<1>8. CASE SweepBegin
  BY <1>8 DEF SweepBegin, Idle, ContainerTypeOK, rows, queue, meta, aside
<1>9. CASE SweepGivesUp \/ DetectOrphanedParent
  BY <1>9 DEF SweepGivesUp, DetectOrphanedParent, ContainerTypeOK, queue, meta, detector, aside
<1>10. CASE Restart
  <2>1. strays' \in [Vehicle -> Nat]
    BY <1>10, ProcessesCounted DEF Restart, ContainerTypeOK
  <2> QED
    BY <1>10, <2>1 DEF Restart, ContainerTypeOK, Phase, rows, meta
<1>12. CASE Requests
  BY <1>12, RequestsAreQuiet DEF ContainerTypeOK, queue, detector
<1>13. ASSUME NEW v \in Vehicle, StrayEnds(v) PROVE ContainerTypeOK'
  <2>1. strays' \in [Vehicle -> Nat]
    BY <1>13 DEF StrayEnds, ContainerTypeOK
  <2> QED
    BY <1>13, <2>1 DEF StrayEnds, ContainerTypeOK, rows, queue, meta, detector
<1>11. CASE UNCHANGED containerVars
  BY <1>11 DEF containerVars, ContainerTypeOK
<1> QED
  BY <1>1, <1>2, <1>3, <1>4, <1>5, <1>6, <1>7, <1>8, <1>9, <1>10, <1>11, <1>12, <1>13
     DEF ContainerNext, Detector

\* The variables keep their types (dispatcher.py, container_store.py: every write
\* to a container, a vehicle or the queue).
THEOREM ContainerTypeCorrect == ContainerSpec => []ContainerTypeOK
<1>1. ContainerInit => ContainerTypeOK
  <2> SUFFICES ASSUME ContainerInit PROVE ContainerTypeOK
    OBVIOUS
  <2>1. retry_counts = [v \in Vehicle |-> 0] /\ retry_used = [v \in Vehicle |-> 0]
        /\ waiting = [v \in Vehicle |-> 0] /\ strays = [v \in Vehicle |-> 0]
        /\ restarts = 0 /\ requests = 0
    BY DEF ContainerInit
  <2>2. /\ retry_counts \in [Vehicle -> 0 .. 2] /\ retry_used \in [Vehicle -> 0 .. 2]
        /\ waiting \in [Vehicle -> Nat] /\ strays \in [Vehicle -> Nat]
    BY <2>1
  <2>3. v2_state \in [Vehicle -> State] /\ status \in [Vehicle -> Status]
    BY DEF ContainerInit, State, Status
  <2>4. vehicle_runs \in [Vehicle -> [Copy -> Phase]]
    BY DEF ContainerInit, Phase
  <2>5. restarts \in 0 .. MaxRestarts /\ requests \in 0 .. MaxRequests
    BY <2>1, ContainerAssumption DEF ContainerAssumption
  <2> QED
    BY <2>2, <2>3, <2>4, <2>5 DEF ContainerInit, ContainerTypeOK
<1> QED
  BY <1>1, TypeStep, PTL DEF ContainerSpec

-----------------------------------------------------------------------------
(* The invariant.  Its parts look at different things, so a step keeps most*)
(* of them by leaving what they look at alone.                             *)

LEMMA CountedStep ==
    ASSUME ContainerTypeOK, ContainerInv, ContainerNext
    PROVE  /\ \A w \in Vehicle : Counted(w)'
           /\ (container = "needs_decision" => parent \notin {"pending", "dispatched"})'
<1> DEFINE Goal == /\ \A w \in Vehicle : Counted(w)'
                   /\ container' = "needs_decision" => parent' \notin {"pending", "dispatched"}
<1> SUFFICES Goal
  OBVIOUS
<1>0. ASSUME UNCHANGED <<container, retry_counts, retry_used>>,
             container = "needs_decision" => parent' \notin {"pending", "dispatched"},
             \A w \in Vehicle : Counting(w)' \subseteq Counting(w)
      PROVE  Goal
  BY <1>0 DEF ContainerInv, Counted
<1>1. CASE Dispatch
  BY <1>1 DEF Dispatch, ContainerInv, Counted, Counting
<1>2. CASE Age
  BY <1>2, <1>0 DEF Age, Counting, ContainerInv, meta
<1>3. ASSUME NEW v \in Vehicle, NEW c \in Copy, LaunchVehicle(v, c) \/ FinishVehicle(v, c) PROVE Goal
  <2>1. \A w \in Vehicle : Counting(w)' \subseteq Counting(w)
    BY <1>3 DEF LaunchVehicle, FinishVehicle, Counting, ContainerTypeOK
  <2> QED
    BY <1>3, <2>1, <1>0 DEF LaunchVehicle, FinishVehicle, ContainerInv, rows, meta
<1>4. ASSUME NEW v \in Vehicle, NEW c \in Copy, NEW from, NEW to,
             Step(v, c, from, to), to # "counting",
             UNCHANGED <<container, retry_counts, retry_used>>,
             container = "needs_decision" => parent' \notin {"pending", "dispatched"}
      PROVE  Goal
  <2>1. \A w \in Vehicle : Counting(w)' \subseteq Counting(w)
    BY <1>4 DEF Step, Counting, ContainerTypeOK
  <2> QED
    BY <1>4, <2>1, <1>0
<1>5. ASSUME NEW v \in Vehicle, NEW c \in Copy, Run(v, c) PROVE Goal
  <2>1. CASE \/ RunStart(v, c) \/ RunReportsBlock(v, c) \/ RunExits(v, c)
             \/ RunGivesUp(v, c) \/ RunBreaks(v, c) \/ RunCompletes(v, c) \/ RunFails(v, c) \/ HandleVehicleCompleted(v, c)
    <3>1. UNCHANGED <<container, parent, retry_counts, retry_used>>
      BY <2>1, CompletedIsQuiet DEF RunStart, RunReportsBlock, RunExits, RunGivesUp,
                                    RunBreaks, RunCompletes, RunFails, rows, meta
    <3>2. PICK from, to : Step(v, c, from, to) /\ to # "counting"
      BY <2>1, CompletedIsQuiet DEF RunStart, RunReportsBlock, RunExits, RunGivesUp,
                                    RunBreaks, RunCompletes, RunFails
    <3> QED
      BY <3>1, <3>2, <1>4 DEF ContainerInv
  <2>2. CASE ChargeBudget(v, c)
    <3>1. /\ \A w \in Vehicle \ {v} : Counting(w)' = Counting(w) /\ retry_used'[w] = retry_used[w]
          /\ c \in Counting(v)
          /\ Counting(v)' = Counting(v) \ {c}
          /\ retry_used'[v] \in {retry_used[v], retry_used[v] + 1}
      BY <2>2 DEF ChargeBudget, Step, Counting, ContainerTypeOK
    <3>2. retry_counts[v] \in {0, 1, 2} /\ retry_used[v] \in {0, 1, 2}
      BY DEF ContainerTypeOK
    <3>3. UNCHANGED <<container, parent, retry_counts>>
      BY <2>2 DEF ChargeBudget, rows
    <3>4. Counted(v)'
      BY <3>1, <3>2, <3>3 DEF ContainerInv, Counted
    <3>5. \A w \in Vehicle \ {v} : Counted(w)'
      BY <3>1, <3>3 DEF ContainerInv, Counted
    <3> QED
      BY <3>3, <3>4, <3>5 DEF ContainerInv
  <2>3. CASE HandleVehicleBlocked(v, c)
    <3>1. \A w \in Vehicle : Counting(w)' \subseteq Counting(w)
      BY <2>3 DEF HandleVehicleBlocked, Step, Counting, ContainerTypeOK
    <3> QED
      BY <2>3, <3>1 DEF HandleVehicleBlocked, NeedsDecision, ContainerInv, Counted, meta
  <2>4. CASE HandleVehicleFailed(v, c)
    <3>1. /\ \A w \in Vehicle \ {v} : /\ Counting(w)' = Counting(w)
                                      /\ retry_counts'[w] = retry_counts[w]
          /\ Counting(v)' \subseteq Counting(v) \cup {c}
          /\ retry_counts'[v] = IF retry_counts[v] = 2 THEN 2 ELSE retry_counts[v] + 1
      BY <2>4 DEF HandleVehicleFailed, Step, Counting, ContainerTypeOK
    <3>2. retry_used' = retry_used
      BY <2>4 DEF HandleVehicleFailed, meta
    <3>3. IF retry_counts[v] = 0 THEN UNCHANGED <<container, parent>> ELSE NeedsDecision
      BY <2>4 DEF HandleVehicleFailed
    <3>4. retry_counts[v] \in {0, 1, 2} /\ retry_used[v] \in {0, 1, 2}
      BY DEF ContainerTypeOK
    <3>5. Counted(v)'
      BY <3>1, <3>2, <3>3, <3>4 DEF ContainerInv, Counted, NeedsDecision
    <3>6. \A w \in Vehicle \ {v} : Counted(w)'
      BY <3>1, <3>2, <3>3 DEF ContainerInv, Counted, NeedsDecision
    <3> QED
      BY <3>3, <3>5, <3>6 DEF ContainerInv, NeedsDecision
  <2> QED
    BY <1>5, <2>1, <2>2, <2>3, <2>4 DEF Run
<1>6. CASE Detector
  <2>1. \A w \in Vehicle : Counting(w)' \subseteq Counting(w)
    BY <1>6 DEF Detector, DetectDeadProcess, DetectOrphan, DetectOrphanedParent, SweepEnqueue,
                SweepBegin, SweepGivesUp, Counting
  <2> QED
    BY <1>6, <2>1, <1>0 DEF Detector, DetectDeadProcess, DetectOrphan, DetectOrphanedParent,
                            SweepEnqueue, SweepBegin, SweepGivesUp, ContainerInv, rows, meta
<1>7. CASE Restart
  <2>1. \A w \in Vehicle : Counting(w)' = {}
    BY <1>7 DEF Restart, Counting
  <2> QED
    BY <1>7, <2>1, <1>0 DEF Restart, ContainerInv, rows, meta
<1>8. CASE Requests
  BY <1>8, <1>0, RequestsAreQuiet DEF Counting, ContainerInv
<1>9. CASE \E v \in Vehicle : StrayEnds(v)
  BY <1>9, <1>0 DEF StrayEnds, Counting, ContainerInv, rows, meta
<1> QED
  BY <1>1, <1>2, <1>3, <1>5, <1>6, <1>7, <1>8, <1>9 DEF ContainerNext

LEMMA TokenStep ==
    ASSUME ContainerTypeOK, ContainerInv, ContainerNext
    PROVE  /\ \A w \in Vehicle \ resubmitted' : OneToken(w)'
           /\ (container = "none" =>
                 /\ parent = "pending" /\ sweep = {}
                 /\ \A w \in Vehicle : waiting[w] = 0 /\ \A c \in Copy : vehicle_runs[w][c] = "none")'
<1> DEFINE Fresh == container' = "none" =>
                      /\ parent' = "pending" /\ sweep' = {}
                      /\ \A w \in Vehicle : waiting'[w] = 0 /\ \A c \in Copy : vehicle_runs'[w][c] = "none"
           Goal == (\A w \in Vehicle \ resubmitted' : OneToken(w)') /\ Fresh
<1> SUFFICES Goal
  OBVIOUS
<1>0. ASSUME container' = container, resubmitted' = resubmitted, waiting' = waiting,
             container # "none" \/ UNCHANGED <<parent, sweep, vehicle_runs>>,
             \A w \in Vehicle : Retriable(w)' \subseteq Retriable(w)
      PROVE  Goal
  BY <1>0 DEF ContainerInv, OneToken
<1>1. CASE Dispatch
  <2>1. \A w \in Vehicle : Retriable(w)' = {} /\ waiting'[w] \in {0, 1}
    BY <1>1 DEF Dispatch, ContainerInv, Retriable, MayRetry
  <2> QED
    BY <1>1, <2>1 DEF Dispatch, OneToken
<1>2. CASE Age
  BY <1>2, <1>0 DEF Age, Retriable, queue, detector
<1>3. ASSUME NEW v \in Vehicle, NEW c \in Copy, LaunchVehicle(v, c) PROVE Goal
  <2>1. /\ waiting[v] \in Nat /\ waiting'[v] = waiting[v] - 1 /\ waiting[v] > 0
        /\ Retriable(v)' = Retriable(v) \cup {c}
        /\ \A w \in Vehicle \ {v} : waiting'[w] = waiting[w] /\ Retriable(w)' = Retriable(w)
    BY <1>3 DEF LaunchVehicle, ContainerTypeOK, Retriable, MayRetry
  <2>2. container' = container /\ container # "none" /\ resubmitted' = resubmitted
    BY <1>3, <2>1 DEF LaunchVehicle, ContainerInv, rows, detector
  <2>3. ASSUME NEW w \in Vehicle \ resubmitted PROVE OneToken(w)'
    <3>1. OneToken(w)
      BY DEF ContainerInv
    <3>2. CASE w = v
      BY <2>1, <3>1, <3>2 DEF OneToken
    <3>3. CASE w # v
      BY <2>1, <3>1, <3>3 DEF OneToken
    <3> QED
      BY <3>2, <3>3
  <2> QED
    BY <2>2, <2>3
<1>4. ASSUME NEW v \in Vehicle, NEW c \in Copy, NEW from, NEW to, Step(v, c, from, to),
             from # "none", from \in MayRetry \/ to \notin MayRetry,
             UNCHANGED <<container, resubmitted, waiting>>
      PROVE  Goal
  <2>1. container # "none"
    BY <1>4 DEF ContainerInv, Step
  <2>2. \A w \in Vehicle : Retriable(w)' \subseteq Retriable(w)
    BY <1>4 DEF Step, Retriable, ContainerTypeOK
  <2> QED
    BY <1>4, <2>1, <2>2, <1>0
<1>5. ASSUME NEW v \in Vehicle, NEW c \in Copy, Run(v, c) \/ FinishVehicle(v, c) PROVE Goal
  <2>1. CASE \/ RunStart(v, c) \/ RunReportsBlock(v, c) \/ RunExits(v, c) \/ RunGivesUp(v, c)
             \/ RunBreaks(v, c) \/ RunCompletes(v, c) \/ RunFails(v, c) \/ ChargeBudget(v, c) \/ HandleVehicleCompleted(v, c)
             \/ FinishVehicle(v, c)
    <3>1. UNCHANGED <<container, resubmitted, waiting>>
      BY <2>1, CompletedIsQuiet DEF RunStart, RunReportsBlock, RunExits, RunGivesUp,
         RunBreaks, RunCompletes, RunFails, ChargeBudget, FinishVehicle, rows, queue, detector
    <3>2. PICK from, to : /\ Step(v, c, from, to) /\ from # "none"
                          /\ from \in MayRetry \/ to \notin MayRetry
      <4>1. CASE RunStart(v, c) \/ RunReportsBlock(v, c)
        BY <4>1 DEF RunStart, RunReportsBlock, MayRetry
      <4>2. CASE RunExits(v, c)
        BY <4>2 DEF RunExits, MayRetry
      <4>8. CASE RunGivesUp(v, c)
        BY <4>8 DEF RunGivesUp, MayRetry
      <4>9. CASE RunBreaks(v, c)
        BY <4>9 DEF RunBreaks, MayRetry
      <4>3. CASE RunCompletes(v, c)
        BY <4>3 DEF RunCompletes, MayRetry
      <4>4. CASE RunFails(v, c)
        BY <4>4 DEF RunFails, MayRetry
      <4>5. CASE ChargeBudget(v, c)
        BY <4>5 DEF ChargeBudget, MayRetry
      <4>6. CASE HandleVehicleCompleted(v, c)
        BY <4>6, CompletedIsQuiet DEF MayRetry
      <4>7. CASE FinishVehicle(v, c)
        <5>1. Step(v, c, "over", "none") /\ "none" \notin MayRetry
          BY <4>7 DEF FinishVehicle, Step, MayRetry
        <5> QED
          BY <5>1
      <4> QED
        BY <2>1, <4>1, <4>2, <4>3, <4>4, <4>5, <4>6, <4>7, <4>8, <4>9
    <3> QED
      BY <3>1, <3>2, <1>4
  <2>2. CASE HandleVehicleBlocked(v, c)
    <3>1. \A w \in Vehicle : Retriable(w)' \subseteq Retriable(w)
      BY <2>2 DEF HandleVehicleBlocked, Step, Retriable, MayRetry, ContainerTypeOK
    <3> QED
      BY <2>2, <3>1 DEF HandleVehicleBlocked, NeedsDecision, ContainerInv, OneToken,
                        queue, detector
  <2>3. CASE HandleVehicleFailed(v, c)
    <3>1. /\ c \in Retriable(v) /\ Retriable(v)' = Retriable(v) \ {c}
          /\ waiting[v] \in Nat /\ waiting'[v] \in {waiting[v], waiting[v] + 1}
          /\ \A w \in Vehicle \ {v} : waiting'[w] = waiting[w] /\ Retriable(w)' = Retriable(w)
      BY <2>3 DEF HandleVehicleFailed, Step, Retriable, MayRetry, ContainerTypeOK
    <3>2. resubmitted' = resubmitted
      BY <2>3 DEF HandleVehicleFailed, detector
    <3>3. container # "none" /\ container' # "none"
      BY <2>3 DEF HandleVehicleFailed, NeedsDecision, ContainerInv, Step
    <3>4. ASSUME NEW w \in Vehicle \ resubmitted PROVE OneToken(w)'
      <4>1. OneToken(w)
        BY DEF ContainerInv
      <4>2. CASE w = v
        BY <3>1, <4>1, <4>2 DEF OneToken
      <4>3. CASE w # v
        BY <3>1, <4>1, <4>3 DEF OneToken
      <4> QED
        BY <4>2, <4>3
    <3> QED
      BY <3>2, <3>3, <3>4
  <2> QED
    BY <1>5, <2>1, <2>2, <2>3 DEF Run
<1>6. ASSUME NEW v \in Vehicle, SweepEnqueue(v) PROVE Goal
  <2>1. /\ resubmitted' = resubmitted \cup {v}
        /\ \A w \in Vehicle \ {v} : waiting'[w] = waiting[w]
        /\ vehicle_runs' = vehicle_runs /\ container' = container
    BY <1>6 DEF SweepEnqueue, ContainerTypeOK, rows
  <2>2. container # "none"
    BY <1>6 DEF SweepEnqueue, ContainerInv
  <2> QED
    BY <2>1, <2>2 DEF ContainerInv, OneToken, Retriable
<1>7. CASE \/ SweepBegin \/ SweepGivesUp \/ DetectOrphanedParent
            \/ \E v \in Vehicle : DetectDeadProcess(v) \/ DetectOrphan(v)
  <2>1. CASE SweepBegin \/ SweepGivesUp \/ DetectOrphanedParent
    BY <1>7, <1>0, <2>1 DEF SweepBegin, SweepGivesUp, DetectOrphanedParent, Stalled,
                            ContainerInv, Retriable, rows, queue, detector
  <2>2. ASSUME NEW v \in Vehicle, DetectDeadProcess(v) \/ DetectOrphan(v) PROVE Goal
    BY <2>2, <1>0 DEF DetectDeadProcess, DetectOrphan, Retriable, rows, queue
  <2> QED
    BY <1>7, <2>1, <2>2
<1>8. CASE Restart
  <2>1. \A w \in Vehicle : Retriable(w)' = {} /\ waiting'[w] = 0
    BY <1>8 DEF Restart, Retriable, MayRetry
  <2> QED
    BY <1>8, <2>1 DEF Restart, OneToken, ContainerInv, rows
<1>9. CASE Requests
  BY <1>9, <1>0, RequestsAreQuiet DEF Retriable, queue, detector
<1>10. CASE \E v \in Vehicle : StrayEnds(v)
  BY <1>10, <1>0 DEF StrayEnds, Retriable, rows, queue, detector
<1> QED
  BY <1>1, <1>2, <1>3, <1>5, <1>6, <1>7, <1>8, <1>9, <1>10 DEF ContainerNext, Detector

\* A vehicle has no more strays than failures, and no retry after the second.
LEMMA FewStep ==
    ASSUME ContainerTypeOK, ContainerInv, ContainerNext
    PROVE  /\ \A w \in Vehicle \ resubmitted' : Few(w)'
           /\ (container = "none" => \A w \in Vehicle : strays[w] = 0)'
<1> DEFINE None == container' = "none" => \A w \in Vehicle : strays'[w] = 0
           Goal == (\A w \in Vehicle \ resubmitted' : Few(w)') /\ None
<1> SUFFICES Goal
  OBVIOUS
<1>t. \A w \in Vehicle : /\ waiting[w] \in Nat /\ strays[w] \in Nat
                         /\ retry_counts[w] \in {0, 1, 2}
                         /\ \A c \in Copy : vehicle_runs[w][c] \in Phase
  BY DEF ContainerTypeOK
<1>i. \A w \in Vehicle \ resubmitted : Few(w) /\ OneToken(w)
  BY DEF ContainerInv
<1>0. ASSUME NEW w \in Vehicle, Few(w), strays'[w] \in Nat, strays'[w] <= strays[w],
             retry_counts'[w] = retry_counts[w], waiting'[w] = waiting[w],
             \A c \in Copy : vehicle_runs'[w][c] \in MayRetry =>
                /\ vehicle_runs[w][c] \in MayRetry
                /\ vehicle_runs[w][c] \in LeftOne => vehicle_runs'[w][c] \in LeftOne
      PROVE  Few(w)'
  <2>1. strays'[w] <= 2 /\ (waiting'[w] = 1 => strays'[w] <= retry_counts'[w] /\ retry_counts'[w] <= 1)
    BY <1>0, <1>t DEF Few
  <2>2. ASSUME NEW c \in Retriable(w)'
        PROVE  /\ retry_counts'[w] <= 1
               /\ strays'[w] <= retry_counts'[w] + (IF vehicle_runs'[w][c] \in LeftOne THEN 1 ELSE 0)
    <3>1. c \in Retriable(w)
      BY <1>0, <2>2 DEF Retriable
    <3> QED
      BY <1>0, <1>t, <2>2, <3>1 DEF Few, Retriable
  <2> QED
    BY <2>1, <2>2 DEF Few
<1>1. ASSUME container' = container \/ container' # "none", UNCHANGED <<resubmitted, waiting, retry_counts, strays>>,
             \A w \in Vehicle, c \in Copy : vehicle_runs'[w][c] \in MayRetry =>
                /\ vehicle_runs[w][c] \in MayRetry
                /\ vehicle_runs[w][c] \in LeftOne => vehicle_runs'[w][c] \in LeftOne
      PROVE  Goal
  <2>1. None
    BY <1>1 DEF ContainerInv
  <2>2. ASSUME NEW w \in Vehicle \ resubmitted' PROVE Few(w)'
    BY <1>0, <1>1, <1>i, <1>t
  <2> QED
    BY <2>1, <2>2
<1>2. CASE Dispatch
  <2>1. \A w \in Vehicle : /\ Retriable(w)' = {} /\ waiting'[w] \in {0, 1} /\ strays'[w] = 0
                           /\ retry_counts'[w] = retry_counts[w] /\ retry_counts[w] # 2
    BY <1>2 DEF Dispatch, ContainerInv, Counted, Retriable, MayRetry, aside
  <2>2. ASSUME NEW w \in Vehicle PROVE Few(w)'
    BY <1>t, <2>1 DEF Few
  <2> QED
    BY <1>2, <2>1, <2>2 DEF Dispatch
<1>3. CASE Age
  BY <1>3, <1>1 DEF Age, queue, detector, aside
<1>4. ASSUME NEW v \in Vehicle, NEW c \in Copy, LaunchVehicle(v, c) PROVE Goal
  <2>1. /\ waiting'[v] = waiting[v] - 1 /\ waiting[v] > 0
        /\ Retriable(v)' = Retriable(v) \cup {c} /\ vehicle_runs'[v][c] = "launched"
        /\ \A w \in Vehicle \ {v} : waiting'[w] = waiting[w] /\ vehicle_runs'[w] = vehicle_runs[w]
        /\ UNCHANGED <<container, retry_counts, strays, resubmitted>>
    BY <1>4 DEF LaunchVehicle, ContainerTypeOK, Retriable, MayRetry, rows, detector, aside
  <2>2. ASSUME NEW w \in Vehicle \ resubmitted PROVE Few(w)'
    <3>1. Few(w) /\ OneToken(w)
      BY <1>i
    <3>2. CASE w = v
      <4>1. waiting[v] = 1 /\ Retriable(v)' = {c}
        BY <1>t, <2>1, <3>1, <3>2 DEF OneToken
      <4> QED
        BY <1>t, <2>1, <3>1, <3>2, <4>1 DEF Few, LeftOne
    <3>3. CASE w # v
      BY <1>0, <1>t, <2>1, <3>1, <3>3
    <3> QED
      BY <3>2, <3>3
  <2> QED
    BY <2>1, <2>2 DEF ContainerInv
<1>5. ASSUME NEW v \in Vehicle, NEW c \in Copy, NEW from, NEW to, Step(v, c, from, to),
             to \in MayRetry => from \in MayRetry /\ (from \in LeftOne => to \in LeftOne),
             container' = container \/ container' # "none", UNCHANGED <<resubmitted, waiting, retry_counts, strays>>
      PROVE  Goal
  <2>1. \A w \in Vehicle, d \in Copy :
            vehicle_runs'[w][d] = IF w = v /\ d = c THEN to ELSE vehicle_runs[w][d]
    BY <1>5 DEF Step, ContainerTypeOK
  <2>2. vehicle_runs[v][c] = from
    BY <1>5 DEF Step
  <2> QED
    BY <1>1, <1>5, <2>1, <2>2
<1>6. ASSUME NEW v \in Vehicle, NEW c \in Copy, LetGo(v), NEW from \in {"working", "blocking"},
             NEW to \in {"exited_bad", "crashed", "over"}, Step(v, c, from, to),
             UNCHANGED <<container, resubmitted, waiting, retry_counts>>
      PROVE  Goal
  <2>1. \A w \in Vehicle \ {v} : strays'[w] = strays[w] /\ vehicle_runs'[w] = vehicle_runs[w]
    BY <1>6 DEF Step, LetGo, ContainerTypeOK
  <2>2. /\ strays'[v] = strays[v] + 1 /\ vehicle_runs[v][c] = from /\ vehicle_runs'[v][c] = to
        /\ \A d \in Copy \ {c} : vehicle_runs'[v][d] = vehicle_runs[v][d]
    BY <1>6 DEF Step, LetGo, ContainerTypeOK
  <2>3. container # "none"
    BY <1>6, <2>2 DEF ContainerInv
  <2>4. ASSUME NEW w \in Vehicle \ resubmitted PROVE Few(w)'
    <3>1. Few(w) /\ OneToken(w)
      BY <1>i
    <3>2. CASE w = v
      <4>1. c \in Retriable(v)
        BY <1>6, <2>2 DEF Retriable, MayRetry
      <4>2. Retriable(v)' \subseteq {c} /\ waiting'[v] # 1
        BY <1>6, <2>2, <3>1, <3>2, <4>1 DEF OneToken, Retriable
      <4>3. retry_counts[v] <= 1 /\ strays[v] <= retry_counts[v]
        BY <1>6, <1>t, <2>2, <3>1, <3>2, <4>1 DEF Few, LeftOne
      <4>4. to \in MayRetry => to \in LeftOne
        BY <1>6 DEF MayRetry, LeftOne
      <4>5. \A d \in Retriable(v)' : vehicle_runs'[v][d] \in LeftOne
        BY <2>2, <4>2, <4>4 DEF Retriable
      <4> QED
        BY <1>6, <1>t, <2>2, <3>2, <4>2, <4>3, <4>5 DEF Few
    <3>3. CASE w # v
      BY <1>0, <1>6, <1>t, <2>1, <3>1, <3>3
    <3> QED
      BY <3>2, <3>3
  <2> QED
    BY <1>6, <2>3, <2>4
<1>7. ASSUME NEW v \in Vehicle, NEW c \in Copy, Run(v, c) \/ FinishVehicle(v, c) PROVE Goal
  <2>1. CASE RunStart(v, c)
    BY <1>5, <2>1 DEF RunStart, MayRetry, LeftOne, rows, queue, detector
  <2>2. CASE RunReportsBlock(v, c)
    BY <1>5, <2>2 DEF RunReportsBlock, MayRetry, LeftOne, rows, queue, detector
  <2>3. CASE RunExits(v, c)
    BY <1>5, <2>3 DEF RunExits, MayRetry, LeftOne, rows, queue, detector, aside
  <2>4. CASE RunGivesUp(v, c)
    BY <1>6, <2>4 DEF RunGivesUp, rows, queue, detector
  <2>5. CASE RunBreaks(v, c)
    BY <1>6, <2>5 DEF RunBreaks, rows, queue, detector
  <2>6. CASE RunCompletes(v, c)
    BY <1>5, <2>6 DEF RunCompletes, MayRetry, LeftOne, rows, queue, detector, aside
  <2>7. CASE RunFails(v, c)
    BY <1>5, <2>7 DEF RunFails, MayRetry, LeftOne, rows, queue, detector, aside
  <2>8. CASE ChargeBudget(v, c)
    BY <1>5, <2>8 DEF ChargeBudget, MayRetry, LeftOne, rows, queue, detector
  <2>9. CASE HandleVehicleBlocked(v, c)
    BY <1>5, <2>9 DEF HandleVehicleBlocked, NeedsDecision, MayRetry, LeftOne, queue, detector, aside
  <2>10. CASE HandleVehicleCompleted(v, c)
    BY <1>5, <2>10, CompletedIsQuiet DEF MayRetry, LeftOne, rows, queue, detector, aside
  <2>11. CASE FinishVehicle(v, c)
    <3>1. Step(v, c, "over", "none")
      BY <2>11 DEF FinishVehicle, Step
    <3> QED
      BY <1>5, <2>11, <3>1 DEF FinishVehicle, MayRetry, rows, detector, aside
  <2>12. CASE HandleVehicleFailed(v, c)
    <3>1. /\ c \in Retriable(v) /\ Retriable(v)' = Retriable(v) \ {c}
          /\ waiting'[v] = IF retry_counts[v] = 0 THEN waiting[v] + 1 ELSE waiting[v]
          /\ retry_counts'[v] = IF retry_counts[v] = 2 THEN 2 ELSE retry_counts[v] + 1
          /\ vehicle_runs[v][c] \in LeftOne
      BY <2>12 DEF HandleVehicleFailed, Step, Retriable, MayRetry, LeftOne, ContainerTypeOK
    <3>2. \A w \in Vehicle \ {v} : /\ waiting'[w] = waiting[w] /\ retry_counts'[w] = retry_counts[w]
                                    /\ vehicle_runs'[w] = vehicle_runs[w]
      BY <2>12 DEF HandleVehicleFailed, Step, ContainerTypeOK
    <3>3. UNCHANGED <<strays, resubmitted>> /\ container # "none" /\ container' # "none"
      BY <2>12 DEF HandleVehicleFailed, NeedsDecision, ContainerInv, Step, detector, aside
    <3>4. ASSUME NEW w \in Vehicle \ resubmitted PROVE Few(w)'
      <4>1. Few(w) /\ OneToken(w)
        BY <1>i
      <4>2. CASE w = v
        <5>1. Retriable(v)' = {} /\ waiting[v] = 0
          BY <1>t, <3>1, <4>1, <4>2 DEF OneToken
        <5>2. retry_counts[v] <= 1 /\ strays[v] <= retry_counts[v] + 1
          BY <3>1, <4>1, <4>2 DEF Few
        <5> QED
          BY <1>t, <3>1, <3>3, <4>2, <5>1, <5>2 DEF Few
      <4>3. CASE w # v
        BY <1>0, <1>t, <3>2, <3>3, <4>1, <4>3
      <4> QED
        BY <4>2, <4>3
    <3> QED
      BY <3>3, <3>4
  <2> QED
    BY <1>7, <2>1, <2>2, <2>3, <2>4, <2>5, <2>6, <2>7, <2>8, <2>9, <2>10, <2>11, <2>12 DEF Run
<1>8. CASE Detector
  <2>1. UNCHANGED <<container, retry_counts, strays, vehicle_runs>>
    BY <1>8 DEF Detector, DetectDeadProcess, DetectOrphan, DetectOrphanedParent, SweepEnqueue,
                SweepBegin, SweepGivesUp, rows, aside
  <2>2. \A w \in Vehicle \ resubmitted' : w \notin resubmitted /\ waiting'[w] = waiting[w]
    BY <1>8 DEF Detector, DetectDeadProcess, DetectOrphan, DetectOrphanedParent, SweepEnqueue,
                SweepBegin, SweepGivesUp, queue, detector, ContainerTypeOK
  <2>3. ASSUME NEW w \in Vehicle \ resubmitted' PROVE Few(w)'
    BY <1>0, <1>i, <1>t, <2>1, <2>2
  <2> QED
    BY <2>1, <2>3 DEF ContainerInv
<1>9. CASE Requests
  BY <1>9, <1>1, RequestsAreQuiet DEF queue, detector
<1>10. ASSUME NEW v \in Vehicle, StrayEnds(v) PROVE Goal
  <2>1. \A w \in Vehicle : strays'[w] \in Nat /\ strays'[w] <= strays[w] /\ (strays[w] = 0 => strays'[w] = 0)
    BY <1>10, <1>t DEF StrayEnds, ContainerTypeOK
  <2>2. UNCHANGED <<container, retry_counts, waiting, vehicle_runs, resubmitted>>
    BY <1>10 DEF StrayEnds, rows, queue, detector
  <2>3. ASSUME NEW w \in Vehicle \ resubmitted' PROVE Few(w)'
    BY <1>0, <1>i, <1>t, <2>1, <2>2
  <2> QED
    BY <2>1, <2>2, <2>3 DEF ContainerInv
<1>11. CASE Restart
  <2>1. \A w \in Vehicle : /\ Retriable(w)' = {} /\ waiting'[w] = 0
                           /\ strays'[w] = strays[w] + Cardinality(Processes(w))
    BY <1>11 DEF Restart, Retriable, MayRetry
  <2>2. UNCHANGED <<container, resubmitted, retry_counts>>
    BY <1>11 DEF Restart, rows
  <2>3. ASSUME NEW w \in Vehicle \ resubmitted PROVE strays'[w] <= 2
    <3>1. Few(w) /\ OneToken(w)
      BY <1>i
    <3>2. \A c \in Processes(w) : c \in Retriable(w) /\ vehicle_runs[w][c] \notin LeftOne
      BY DEF Processes, Retriable, MayRetry, LeftOne
    <3>3. CASE Processes(w) = {}
      BY <1>t, <2>1, <3>1, <3>3, ProcessesCounted DEF Few
    <3>4. CASE Processes(w) # {}
      <4>1. strays[w] <= 1
        BY <1>t, <3>1, <3>2, <3>4 DEF Few
      <4>2. Cardinality(Processes(w)) <= 1 /\ Cardinality(Processes(w)) \in Nat
        BY <3>1, <3>2, ProcessesCounted DEF OneToken
      <4> QED
        BY <1>t, <2>1, <4>1, <4>2
    <3> QED
      BY <3>3, <3>4
  <2>4. ASSUME NEW w \in Vehicle \ resubmitted' PROVE Few(w)'
    BY <2>1, <2>2, <2>3, <2>4 DEF Few
  <2>5. ASSUME container' = "none", NEW w \in Vehicle PROVE strays'[w] = 0
    <3>1. strays[w] = 0 /\ Processes(w) = {}
      BY <2>2, <2>5 DEF ContainerInv, Processes
    <3> QED
      BY <2>1, <3>1, ProcessesCounted
  <2> QED
    BY <2>4, <2>5
<1> QED
  BY <1>2, <1>3, <1>4, <1>7, <1>8, <1>9, <1>10, <1>11 DEF ContainerNext

LEMMA AttentionStep ==
    ASSUME ContainerTypeOK, ContainerInv, ContainerNext
    PROVE  AttentionReachesContainer'
<1> DEFINE At(w) == \/ v2_state[w] \notin {"blocked", "escalated"}
                    \/ v2_state[w] = "blocked"
                         /\ (restarts > 0 \/ \E c \in Copy : vehicle_runs[w][c] = "blocking")
                    \/ container = "needs_decision"
<1>0. \A w \in Vehicle \ overruled : At(w)
  BY DEF ContainerInv, AttentionReachesContainer
<1>d. (container = "needs_decision" => parent \notin {"pending", "dispatched"})'
  BY CountedStep
<1> SUFFICES ASSUME NEW w \in Vehicle \ overruled' PROVE At(w)'
  BY <1>d DEF AttentionReachesContainer
<1>1. CASE Dispatch
  BY <1>0, <1>1 DEF Dispatch, detector, aside
<1>2. CASE Age
  BY <1>0, <1>2 DEF Age, meta, detector, aside
<1>3. ASSUME NEW v \in Vehicle, NEW c \in Copy, NEW from, NEW to, Step(v, c, from, to),
             from # "blocking" \/ v # w \/ v2_state'[w] # "blocked",
             UNCHANGED <<container, restarts, overruled>>,
             v2_state'[w] \in {v2_state[w], "running", "completed_unverified", "failed_retryable"}
      PROVE  At(w)'
  <2>1. CASE v2_state'[w] # "blocked"
    BY <1>0, <1>3, <2>1
  <2>2. CASE from # "blocking" \/ v # w
    <3>1. \A d \in Copy : vehicle_runs[w][d] = "blocking" => vehicle_runs'[w][d] = "blocking"
      BY <1>3, <2>2 DEF Step, ContainerTypeOK
    <3> QED
      BY <1>0, <1>3, <3>1
  <2> QED
    BY <1>3, <2>1, <2>2
<1>4. ASSUME NEW v \in Vehicle, NEW c \in Copy, LaunchVehicle(v, c) \/ FinishVehicle(v, c) \/ Run(v, c)
      PROVE  At(w)'
  <2>1. CASE LaunchVehicle(v, c) \/ FinishVehicle(v, c)
    <3>1. Step(v, c, "none", "launched") \/ Step(v, c, "over", "none")
      BY <2>1 DEF LaunchVehicle, FinishVehicle, Step
    <3> QED
      BY <2>1, <3>1, <1>3 DEF LaunchVehicle, FinishVehicle, rows, meta, detector, aside
  <2>2. CASE \/ RunStart(v, c) \/ RunExits(v, c) \/ RunGivesUp(v, c) \/ RunCompletes(v, c)
             \/ RunFails(v, c) \/ HandleVehicleCompleted(v, c)
    <3>1. UNCHANGED <<container, restarts, overruled>>
      BY <2>2, CompletedIsQuiet DEF RunStart, RunExits, RunGivesUp, RunCompletes, RunFails,
                                    rows, detector, aside
    <3>2. PICK from, to : Step(v, c, from, to) /\ from # "blocking"
      BY <2>2, CompletedIsQuiet DEF RunStart, RunExits, RunGivesUp, RunCompletes, RunFails
    <3>3. v2_state'[w] \in {v2_state[w], "running", "completed_unverified", "failed_retryable"}
      BY <2>2, CompletedIsQuiet DEF RunStart, RunExits, RunGivesUp, RunCompletes, RunFails, Transition,
                                    meta, ContainerTypeOK
    <3> QED
      BY <3>1, <3>2, <3>3, <1>3
  <2>7. CASE RunBreaks(v, c)
    <3>1. UNCHANGED <<container, restarts, overruled>>
      BY <2>7 DEF RunBreaks, rows, detector
    <3>2. PICK from, to : Step(v, c, from, to)
      BY <2>7 DEF RunBreaks
    <3>3. v2_state'[w] \in {v2_state[w], "failed_retryable"}
      BY <2>7 DEF RunBreaks, Transition, ContainerTypeOK
    <3>4. v = w => v2_state'[w] # "blocked"
      BY <2>7 DEF RunBreaks, Transition, Legal, ContainerTypeOK
    <3> QED
      BY <3>1, <3>2, <3>3, <3>4, <1>3
  <2>3. CASE RunReportsBlock(v, c)
    <3>1. UNCHANGED <<container, restarts>> /\ overruled' = overruled \ {v}
      BY <2>3 DEF RunReportsBlock, rows, detector
    <3>2. CASE w = v
      <4>1. v2_state'[w] = "blocked" /\ vehicle_runs'[w][c] = "blocking"
        BY <2>3, <3>2 DEF RunReportsBlock, Transition, Step, ContainerTypeOK
      <4> QED
        BY <4>1
    <3>3. CASE w # v
      <4>1. v2_state'[w] = v2_state[w] /\ vehicle_runs'[w] = vehicle_runs[w]
        BY <2>3, <3>3 DEF RunReportsBlock, Transition, Step, ContainerTypeOK
      <4>2. At(w)
        BY <1>0, <3>1, <3>3
      <4> QED
        BY <3>1, <4>1, <4>2
    <3> QED
      BY <3>2, <3>3
  <2>4. CASE ChargeBudget(v, c)
    <3>1. UNCHANGED <<container, restarts>> /\ Step(v, c, "counting", "over")
      BY <2>4 DEF ChargeBudget, rows, detector
    <3>2. CASE UNCHANGED <<v2_state, overruled>>
      BY <3>1, <3>2, <1>3
    <3>4. CASE ~UNCHANGED <<v2_state, overruled>> /\ w # v
      <4>1. v2_state'[w] = v2_state[w] /\ w \notin overruled /\ vehicle_runs'[w] = vehicle_runs[w]
        BY <2>4, <3>1, <3>4 DEF ChargeBudget, Transition, Step, ContainerTypeOK
      <4>2. At(w)
        BY <1>0, <4>1
      <4> QED
        BY <3>1, <4>1, <4>2
    <3>3. CASE ~UNCHANGED <<v2_state, overruled>> /\ w = v
      <4>1. w = v /\ retry_used'[v] = 2 /\ v2_state'[v] = "escalated"
        BY <2>4, <3>3 DEF ChargeBudget, Transition, ContainerTypeOK
      <4>2. Counted(v)'
        BY CountedStep
      <4>3. retry_counts'[v] \in {0, 1, 2}
        BY <2>4 DEF ChargeBudget, rows, ContainerTypeOK
      <4> QED
        BY <4>1, <4>2, <4>3 DEF Counted
    <3> QED
      BY <3>2, <3>3, <3>4
  <2>5. CASE HandleVehicleBlocked(v, c)
    BY <2>5 DEF HandleVehicleBlocked, NeedsDecision
  <2>6. CASE HandleVehicleFailed(v, c)
    <3>1. CASE NeedsDecision
      BY <3>1 DEF NeedsDecision
    <3>2. CASE UNCHANGED <<container, parent>>
      <4>1. PICK from, to : Step(v, c, from, to) /\ from # "blocking"
        BY <2>6 DEF HandleVehicleFailed
      <4> QED
        BY <2>6, <3>2, <4>1, <1>3 DEF HandleVehicleFailed, meta, detector, aside
    <3> QED
      BY <2>6, <3>1, <3>2 DEF HandleVehicleFailed
  <2> QED
    BY <1>4, <2>1, <2>2, <2>3, <2>4, <2>5, <2>6, <2>7 DEF Run
<1>5. CASE Detector
  <2>1. UNCHANGED <<container, vehicle_runs, restarts, overruled>>
    BY <1>5 DEF Detector, DetectDeadProcess, DetectOrphan, DetectOrphanedParent, SweepEnqueue,
                SweepBegin, SweepGivesUp, rows, detector, aside
  <2>3. v2_state'[w] \in {v2_state[w], "failed_retryable"}
    BY <1>5 DEF Detector, DetectDeadProcess, DetectOrphan, DetectOrphanedParent, SweepEnqueue,
                SweepBegin, SweepGivesUp, Transition, meta, ContainerTypeOK
  <2> QED
    BY <1>0, <2>1, <2>3
<1>6. CASE Restart
  <2>1. restarts \in Nat /\ restarts' = restarts + 1
    BY <1>6 DEF Restart, ContainerTypeOK
  <2> QED
    BY <1>0, <1>6, <2>1 DEF Restart, rows, meta
<1>7. CASE Requests
  BY <1>0, <1>7, RequestsAreQuiet DEF detector
<1>8. CASE \E v \in Vehicle : StrayEnds(v)
  BY <1>0, <1>8 DEF StrayEnds, rows, meta, detector
<1> QED
  BY <1>1, <1>2, <1>4, <1>5, <1>6, <1>7, <1>8 DEF ContainerNext

\* The inductive invariant (the handlers of dispatcher.py 277-808 against the runs
\* of execution.py 576-704 and the detector of server.py 190-408).
THEOREM ContainerCorrect == ContainerSpec => []ContainerInv
<1>1. ContainerInit => ContainerInv
  <2> SUFFICES ASSUME ContainerInit PROVE ContainerInv
    OBVIOUS
  <2>1. /\ \A v \in Vehicle : retry_counts[v] = 0 /\ retry_used[v] = 0 /\ waiting[v] = 0
                               /\ strays[v] = 0
        /\ \A v \in Vehicle, c \in Copy : vehicle_runs[v][c] = "none"
        /\ \A v \in Vehicle : v2_state[v] = "unset"
        /\ container = "none" /\ parent = "pending" /\ sweep = {}
    BY DEF ContainerInit
  <2>2. \A v \in Vehicle : Counting(v) = {} /\ Retriable(v) = {}
    BY <2>1 DEF Counting, Retriable, MayRetry
  <2>3. \A v \in Vehicle : Counted(v) /\ OneToken(v) /\ Few(v)
    <3> SUFFICES ASSUME NEW v \in Vehicle PROVE Counted(v) /\ OneToken(v) /\ Few(v)
      OBVIOUS
    <3>1. retry_counts[v] = 0 /\ retry_used[v] = 0 /\ waiting[v] = 0
          /\ strays[v] = 0
          /\ Counting(v) = {} /\ Retriable(v) = {}
      BY <2>1, <2>2
    <3> HIDE DEF ContainerInit, Counting, Retriable
    <3>2. Counted(v)
      BY <3>1 DEF Counted
    <3>3. OneToken(v)
      BY <3>1 DEF OneToken
    <3>4. Few(v)
      BY <3>1 DEF Few
    <3> QED
      BY <3>2, <3>3, <3>4
  <2>4. AttentionReachesContainer
    BY <2>1 DEF AttentionReachesContainer
  <2> QED
    BY <2>1, <2>3, <2>4 DEF ContainerInv
<1>2. ContainerTypeOK /\ ContainerInv /\ [ContainerNext]_containerVars => ContainerInv'
  <2> SUFFICES ASSUME ContainerTypeOK, ContainerInv, [ContainerNext]_containerVars PROVE ContainerInv'
    OBVIOUS
  <2>1. CASE ContainerNext
    BY <2>1, CountedStep, TokenStep, FewStep, AttentionStep DEF ContainerInv
  <2>2. CASE UNCHANGED containerVars
    BY <2>2 DEF containerVars, ContainerInv, Counted, Counting, OneToken, Few, Retriable,
                AttentionReachesContainer
  <2> QED
    BY <2>1, <2>2
<1> QED
  BY <1>1, <1>2, ContainerTypeCorrect, PTL DEF ContainerSpec

\* The budget is never ahead of the container's count (dispatcher.py 724,
\* retry_budget.py 49-82).
THEOREM BudgetNeverAhead == ContainerSpec => []BudgetBehind
<1>1. ContainerTypeOK /\ ContainerInv => BudgetBehind
  <2> SUFFICES ASSUME ContainerTypeOK, ContainerInv, NEW v \in Vehicle
               PROVE  retry_used[v] <= retry_counts[v]
    BY DEF BudgetBehind
  <2>1. Counted(v)
    BY DEF ContainerInv
  <2>2. retry_counts[v] \in {0, 1, 2} /\ retry_used[v] \in {0, 1, 2}
    BY DEF ContainerTypeOK
  <2> QED
    BY <2>1, <2>2 DEF Counted
<1> QED
  BY <1>1, ContainerTypeCorrect, ContainerCorrect, PTL

\* Escalations and blocks reach the container (dispatcher.py 740-764, 786-808).
THEOREM AttentionIsPassedOn == ContainerSpec => []AttentionReachesContainer
<1>1. ContainerInv => AttentionReachesContainer
  BY DEF ContainerInv
<1> QED
  BY <1>1, ContainerCorrect, PTL

\* A vehicle the detector has not enqueued has one process that a run follows and
\* two in all, at most (dispatcher.py 715-764: one retry; execution.py 548-555 and
\* 704-731: runs that let go of a live process).
THEOREM ProcessesStayFew == ContainerSpec => []ProcessesAreFew
<1>1. ContainerTypeOK /\ ContainerInv => ProcessesAreFew
  <2> SUFFICES ASSUME ContainerTypeOK, ContainerInv, NEW v \in Vehicle \ resubmitted
               PROVE  /\ \A c, d \in Processes(v) : c = d
                      /\ strays[v] <= IF Processes(v) = {} THEN 2 ELSE 1
    BY DEF ProcessesAreFew
  <2>1. Few(v) /\ OneToken(v) /\ strays[v] \in Nat /\ retry_counts[v] \in {0, 1, 2}
    BY DEF ContainerInv, ContainerTypeOK
  <2>2. \A c \in Processes(v) : c \in Retriable(v) /\ vehicle_runs[v][c] \notin LeftOne
    BY DEF Processes, Retriable, MayRetry, LeftOne
  <2>3. \A c, d \in Processes(v) : c = d
    BY <2>1, <2>2 DEF OneToken
  <2>4. strays[v] <= 2 /\ (Processes(v) # {} => strays[v] <= 1)
    BY <2>1, <2>2 DEF Few
  <2> QED
    BY <2>3, <2>4
<1> QED
  BY <1>1, ContainerTypeCorrect, ContainerCorrect, PTL

-----------------------------------------------------------------------------
(* No vehicle of a dispatched container is lost.                           *)

\* A vehicle without a state has not begun: only a start gives it its first one,
\* and no run of it is past its start before that.
LEMMA BegunStep ==
    ASSUME ContainerTypeOK, \A w \in Vehicle : Begun(w), ContainerNext, NEW w \in Vehicle
    PROVE  Begun(w)'
<1> SUFFICES ASSUME v2_state'[w] = "unset" , NEW d \in Copy
             PROVE  vehicle_runs'[w][d] \in {"none", "launched"}
  BY DEF Begun
<1>0. v2_state[w] = "unset" => vehicle_runs[w][d] \in {"none", "launched"}
  BY DEF Begun
<1>1. ASSUME v2_state[w] = "unset", vehicle_runs' = vehicle_runs
      PROVE  vehicle_runs'[w][d] \in {"none", "launched"}
  BY <1>0, <1>1
<1>2. ASSUME NEW v \in Vehicle, NEW c \in Copy, LaunchVehicle(v, c) \/ FinishVehicle(v, c)
      PROVE  vehicle_runs'[w][d] \in {"none", "launched"}
  <2>1. v2_state[w] = "unset"
    BY <1>2 DEF LaunchVehicle, FinishVehicle, meta
  <2>2. vehicle_runs'[w][d] \in {vehicle_runs[w][d], "none", "launched"}
    <3>1. PICK to \in {"none", "launched"} : vehicle_runs' = [vehicle_runs EXCEPT ![v][c] = to]
      BY <1>2 DEF LaunchVehicle, FinishVehicle
    <3>2. vehicle_runs \in [Vehicle -> [Copy -> Phase]]
      BY DEF ContainerTypeOK
    <3>3. vehicle_runs'[w] = IF w = v THEN [vehicle_runs[v] EXCEPT ![c] = to] ELSE vehicle_runs[w]
      BY <3>1, <3>2
    <3>4. vehicle_runs'[w][d] \in {vehicle_runs[w][d], to}
      BY <3>2, <3>3
    <3> QED
      BY <3>4
  <2> QED
    BY <1>0, <2>1, <2>2
<1>3. ASSUME NEW v \in Vehicle, NEW c \in Copy, Run(v, c)
      PROVE  vehicle_runs'[w][d] \in {"none", "launched"}
  <2>1. \E from, to : Step(v, c, from, to)
    BY <1>3, CompletedIsQuiet DEF Run, RunStart, RunReportsBlock, RunExits, RunGivesUp,
       RunBreaks, RunCompletes, RunFails, ChargeBudget, HandleVehicleBlocked, HandleVehicleFailed
  <2>5. vehicle_runs[v][c] # "none"
    BY <1>3, CompletedIsQuiet DEF Run, RunStart, RunReportsBlock, RunExits, RunGivesUp,
       RunBreaks, RunCompletes, RunFails, ChargeBudget, HandleVehicleBlocked, HandleVehicleFailed, Step
  <2>2. v2_state[w] = "unset"
    BY <1>3, CompletedIsQuiet DEF Run, RunStart, RunReportsBlock, RunExits, RunGivesUp,
       RunBreaks, RunCompletes, RunFails, ChargeBudget, HandleVehicleBlocked, HandleVehicleFailed, Transition, Legal,
       meta, ContainerTypeOK
  <2>3. CASE w = v
    <3>1. vehicle_runs[v][c] = "launched"
      BY <2>2, <2>3, <2>5 DEF Begun
    <3>2. RunStart(v, c)
      BY <1>3, <3>1, CompletedIsQuiet DEF Run, RunStart, RunReportsBlock, RunExits,
         RunGivesUp, RunBreaks, RunCompletes, RunFails, ChargeBudget, HandleVehicleBlocked, HandleVehicleFailed, Step
    <3>3. v2_state'[v] = "running"
      BY <2>2, <2>3, <3>2 DEF RunStart, Transition, Legal, ContainerTypeOK
    <3> QED
      BY <2>3, <3>3
  <2>4. CASE w # v
    BY <1>0, <2>1, <2>2, <2>4 DEF Step, ContainerTypeOK
  <2> QED
    BY <2>3, <2>4
<1>4. CASE Dispatch \/ Age
  BY <1>1, <1>4 DEF Dispatch, Age, meta
<1>5. CASE Detector
  <2>1. vehicle_runs' = vehicle_runs
    BY <1>5 DEF Detector, DetectDeadProcess, DetectOrphan, DetectOrphanedParent, SweepEnqueue,
                SweepBegin, SweepGivesUp
  <2>2. v2_state[w] = "unset"
    <3>1. \/ v2_state' = v2_state
          \/ \E v \in Vehicle : \E fallback : Transition(v, "failed_retryable", fallback)
      BY <1>5 DEF Detector, DetectDeadProcess, DetectOrphan, DetectOrphanedParent, SweepEnqueue,
                  SweepBegin, SweepGivesUp, meta
    <3> QED
      BY <3>1 DEF Transition, ContainerTypeOK
  <2> QED
    BY <1>1, <2>1, <2>2
<1>6. CASE Restart
  BY <1>6 DEF Restart
<1>7. CASE Requests
  <2>1. vehicle_runs' = vehicle_runs
    BY <1>7, RequestsAreQuiet
  <2>2. v2_state[w] = "unset"
    <3>1. v2_state[w] \in State
      BY DEF ContainerTypeOK
    <3>2. CASE \E v \in Vehicle : \/ MessageBlocks(v) \/ AnswerReleases(v) \/ CompleteVehicle(v)
                                  \/ PutAside(v)
      BY <3>2 DEF MessageBlocks, AnswerReleases, CompleteVehicle, PutAside, Transition,
                  ContainerTypeOK
    <3>3. ASSUME NEW S, ForceFailed(S) PROVE v2_state[w] = "unset"
      BY <3>3 DEF ForceFailed
    <3>4. CASE ForceFailContainer \/ \E v \in Vehicle : ForceFailVehicle(v)
      BY <3>3, <3>4 DEF ForceFailContainer, ForceFailVehicle
    <3>5. CASE ParentRequest
      BY <3>5 DEF ParentRequest, meta
    <3> QED
      BY <1>7, <3>2, <3>4, <3>5 DEF Requests
  <2> QED
    BY <1>1, <2>1, <2>2
<1>8. CASE \E v \in Vehicle : StrayEnds(v)
  BY <1>1, <1>8 DEF StrayEnds, meta
<1> QED
  BY <1>2, <1>3, <1>4, <1>5, <1>6, <1>7, <1>8 DEF ContainerNext

\* A run's step keeps the vehicle when what it leaves behind may still enqueue it.
LEMMA RunKeeps ==
    ASSUME ContainerTypeOK, ContainerInv, NEW v \in Vehicle \ overruled, NEW c \in Copy, Run(v, c),
           Begun(v), Kept(v), parent = "dispatched", restarts = 0,
           parent' = "dispatched", Counted(v)',
           (container = "needs_decision" => parent \notin {"pending", "dispatched"})'
    PROVE  Kept(v)'
<1> DEFINE Live == {"launched", "failed", "crashed"}
<1>0. /\ waiting[v] \in Nat /\ v2_state[v] \in State
      /\ \A d \in Copy : vehicle_runs[v][d] \in Phase
  BY DEF ContainerTypeOK
<1>1. ASSUME NEW from, NEW to, Step(v, c, from, to), UNCHANGED waiting,
             from \notin Live \/ to \in Live \/ v2_state'[v] # "failed_retryable",
             from \notin MayRetry \/ to \in MayRetry \/ v2_state'[v] = "completed_unverified",
             v2_state'[v] # "failed_retryable" \/ v2_state[v] = "failed_retryable" \/ to \in Live,
             \/ v2_state'[v] = "completed_unverified" \/ v2_state[v] # "completed_unverified"
             \/ to \in MayRetry
      PROVE  Kept(v)'
  <2>1. vehicle_runs'[v] = [vehicle_runs[v] EXCEPT ![c] = to] /\ vehicle_runs[v] \in [Copy -> Phase]
    BY <1>1 DEF Step, ContainerTypeOK
  <2>2. vehicle_runs[v][c] = from
    BY <1>1 DEF Step
  <2>3. to \in MayRetry => c \in Retriable(v)'
    BY <2>1 DEF Retriable
  <2>4. from \notin MayRetry => Retriable(v) \subseteq Retriable(v)'
    BY <2>1, <2>2 DEF Retriable
  <2>5. waiting'[v] > 0 \/ Retriable(v)' # {} \/ v2_state'[v] = "completed_unverified"
    BY <1>1, <2>3, <2>4 DEF Kept
  <2>6. to \in Live => \E d \in Copy : vehicle_runs'[v][d] \in Live
    BY <2>1
  <2>7. from \notin Live => \A d \in Copy : vehicle_runs[v][d] \in Live => vehicle_runs'[v][d] \in Live
    BY <2>1, <2>2
  <2>8. v2_state'[v] = "failed_retryable" =>
           waiting'[v] > 0 \/ \E d \in Copy : vehicle_runs'[v][d] \in Live
    BY <1>1, <2>6, <2>7 DEF Kept
  <2> QED
    BY <2>5, <2>8 DEF Kept
\* A run whose report is refused leaves what another run, or the completion, keeps.
<1>r. ASSUME NEW from \in {"exited_ok", "exited_bad", "exited_crashed", "working", "blocking"},
             NEW to, Step(v, c, from, to), UNCHANGED waiting, v2_state'[v] = v2_state[v],
             v2_state[v] # "running", v2_state[v] = "blocked" => from # "blocking"
      PROVE  Kept(v)'
  <2>1. vehicle_runs[v][c] = from /\ \A d \in Copy : d # c => vehicle_runs'[v][d] = vehicle_runs[v][d]
    BY <1>r DEF Step, ContainerTypeOK
  <2>2. v2_state[v] # "unset"
    BY <1>r, <2>1 DEF Begun
  <2>3. container # "needs_decision"
    BY DEF ContainerInv
  <2>4. v2_state[v] # "escalated"
    BY <2>3 DEF ContainerInv, AttentionReachesContainer
  <2>5. CASE v2_state[v] = "completed_unverified"
    BY <1>r, <2>5 DEF Kept
  <2>6. CASE v2_state[v] = "failed_retryable"
    <3>1. waiting[v] > 0 \/ \E d \in Copy : vehicle_runs[v][d] \in Live
      BY <2>6 DEF Kept
    <3>2. \A d \in Copy : vehicle_runs[v][d] \in Live => d # c /\ vehicle_runs'[v][d] \in Live
      BY <1>r, <2>1
    <3>3. \A d \in Copy : vehicle_runs'[v][d] \in Live => d \in Retriable(v)'
      BY DEF Retriable, MayRetry
    <3> QED
      BY <1>r, <3>1, <3>2, <3>3 DEF Kept
  <2>7. CASE v2_state[v] = "blocked"
    <3>1. PICK d \in Copy : vehicle_runs[v][d] = "blocking"
      BY <2>3, <2>7 DEF ContainerInv, AttentionReachesContainer
    <3>2. d \in Retriable(v)'
      BY <1>r, <2>1, <2>7, <3>1 DEF Retriable, MayRetry
    <3> QED
      BY <1>r, <2>7, <3>2 DEF Kept
  <2> QED
    BY <1>0, <1>r, <2>2, <2>4, <2>5, <2>6, <2>7 DEF State
<1>2. CASE RunStart(v, c)
  <2>1. v2_state'[v] # "failed_retryable"
    BY <1>2 DEF RunStart, Transition, Legal, ContainerTypeOK
  <2> QED
    BY <1>1, <1>2, <2>1 DEF RunStart, MayRetry, queue
<1>3. CASE RunReportsBlock(v, c)
  <2>1. v2_state'[v] # "failed_retryable"
    BY <1>3 DEF RunReportsBlock, Transition, ContainerTypeOK
  <2> QED
    BY <1>1, <1>3, <2>1 DEF RunReportsBlock, MayRetry, queue
<1>4. CASE RunExits(v, c)
  BY <1>1, <1>4 DEF RunExits, MayRetry, queue, meta
<1>11. CASE RunGivesUp(v, c)
  BY <1>1, <1>11 DEF RunGivesUp, MayRetry, queue, meta
<1>5. CASE RunCompletes(v, c)
  <2>1. Step(v, c, "exited_ok", "completed") /\ UNCHANGED waiting
    BY <1>5 DEF RunCompletes, queue
  <2>2. CASE Legal(v, "completed_unverified")
    <3>1. v2_state'[v] = "completed_unverified"
      BY <1>5, <2>2 DEF RunCompletes, Transition, ContainerTypeOK
    <3> QED
      BY <1>1, <2>1, <3>1
  <2>3. CASE ~Legal(v, "completed_unverified")
    <3>1. v2_state'[v] = v2_state[v] /\ v2_state[v] # "running"
      BY <1>5, <2>3 DEF RunCompletes, Transition, Legal, ContainerTypeOK
    <3> QED
      BY <1>r, <2>1, <3>1
  <2> QED
    BY <2>2, <2>3
<1>6. CASE RunFails(v, c)
  <2>1. CASE Legal(v, "failed_retryable")
    <3>1. PICK from : \E to \in {"failed", "crashed"} : Step(v, c, from, to)
      BY <1>6, <2>1 DEF RunFails
    <3> QED
      BY <1>1, <1>6, <3>1 DEF RunFails, MayRetry, queue
  <2>2. CASE ~Legal(v, "failed_retryable")
    <3>1. PICK from \in {"exited_bad", "exited_crashed"} : Step(v, c, from, "over")
      BY <1>6, <2>2 DEF RunFails
    <3>2. v2_state'[v] = v2_state[v] /\ UNCHANGED waiting /\ v2_state[v] # "running"
      BY <1>6, <2>2 DEF RunFails, Transition, Legal, queue, ContainerTypeOK
    <3> QED
      BY <1>r, <3>1, <3>2
  <2> QED
    BY <2>1, <2>2
<1>12. CASE RunBreaks(v, c)
  <2>1. CASE Legal(v, "failed_retryable")
    <3>1. PICK from : Step(v, c, from, "crashed")
      BY <1>12, <2>1 DEF RunBreaks
    <3> QED
      BY <1>1, <1>12, <3>1 DEF RunBreaks, MayRetry, queue
  <2>2. CASE ~Legal(v, "failed_retryable")
    <3>1. PICK from \in {"working", "blocking"} : Step(v, c, from, "over")
      BY <1>12, <2>2 DEF RunBreaks
    <3>2. /\ v2_state'[v] = v2_state[v] /\ UNCHANGED waiting
          /\ v2_state[v] # "running" /\ v2_state[v] # "blocked"
      BY <1>12, <2>2 DEF RunBreaks, Transition, Legal, queue, ContainerTypeOK
    <3> QED
      BY <1>r, <3>1, <3>2
  <2> QED
    BY <2>1, <2>2
<1>7. CASE ChargeBudget(v, c)
  <2>1. retry_used'[v] # 2
    <3>1. retry_counts'[v] \in {0, 1, 2} /\ container' = container
      BY <1>7 DEF ChargeBudget, rows, ContainerTypeOK
    <3> QED
      BY <3>1 DEF Counted
  <2>2. UNCHANGED <<v2_state, status>>
    BY <1>7, <2>1 DEF ChargeBudget, ContainerTypeOK
  <2> QED
    BY <1>1, <1>7, <2>2 DEF ChargeBudget, MayRetry, queue
<1>8. CASE HandleVehicleBlocked(v, c)
  BY <1>8 DEF HandleVehicleBlocked, NeedsDecision
<1>9. CASE HandleVehicleFailed(v, c)
  <2>1. waiting'[v] > 0
    BY <1>0, <1>9 DEF HandleVehicleFailed, NeedsDecision, ContainerTypeOK
  <2> QED
    BY <2>1 DEF Kept
<1>10. CASE HandleVehicleCompleted(v, c)
  BY <1>1, <1>10, CompletedIsQuiet DEF MayRetry, queue, meta
<1> HIDE DEF Live
<1> QED
  BY <1>2, <1>3, <1>4, <1>5, <1>6, <1>7, <1>8, <1>9, <1>10, <1>11, <1>12 DEF Run

\* The step of another vehicle, and what leaves a vehicle's entries, runs and
\* states alone, keeps it.
LEMMA OthersKept ==
    ASSUME NEW w, Kept(w), vehicle_runs'[w] = vehicle_runs[w], v2_state'[w] = v2_state[w],
           waiting[w] > 0 => waiting'[w] > 0
    PROVE  Kept(w)'
BY DEF Kept, Retriable

LEMMA KeptStep ==
    ASSUME ContainerTypeOK, ContainerInv, KeptInv, ContainerNext, ContainerInv',
           parent' = "dispatched", restarts' = 0,
           NEW w \in Vehicle \ (pending' \cup detected' \cup overruled')
    PROVE  Kept(w)'
<1>1. CASE Dispatch
  BY <1>1 DEF Dispatch, Kept
\* A run that reports a block, or is escalated, is no longer overruled.
<1>b. ASSUME NEW c \in Copy, RunReportsBlock(w, c) PROVE Kept(w)'
  <2>1. v2_state'[w] # "failed_retryable" /\ vehicle_runs'[w][c] = "blocking"
    BY <1>b DEF RunReportsBlock, Transition, Step, ContainerTypeOK
  <2> QED
    BY <2>1 DEF Kept, Retriable, MayRetry
<1>c. ASSUME NEW c \in Copy, ChargeBudget(w, c) PROVE UNCHANGED <<v2_state, overruled>>
  <2>1. Counted(w)' /\ container' # "needs_decision" /\ retry_counts'[w] \in {0, 1, 2}
    BY <1>c DEF ContainerInv, ChargeBudget, rows, ContainerTypeOK
  <2>2. retry_used'[w] # 2
    BY <2>1 DEF Counted
  <2> QED
    BY <1>c, <2>2 DEF ChargeBudget, ContainerTypeOK
<1> SUFFICES ASSUME ~Dispatch, \A c \in Copy : ~RunReportsBlock(w, c) PROVE Kept(w)'
  BY <1>1, <1>b
<1>2. /\ parent = "dispatched" /\ restarts = 0
      /\ w \in Vehicle \ (pending \cup detected \cup overruled)
  <2>1. ASSUME NEW v \in Vehicle, NEW c \in Copy, LaunchVehicle(v, c) \/ Run(v, c) \/ FinishVehicle(v, c)
        PROVE  parent = "dispatched" /\ UNCHANGED <<restarts, pending, detected>> /\ w \notin overruled
    <3>1. parent = "dispatched" /\ UNCHANGED <<restarts, pending, detected>>
      BY <2>1, CompletedIsQuiet DEF LaunchVehicle, FinishVehicle, Run, RunStart, RunReportsBlock,
         RunExits, RunGivesUp, RunBreaks, RunCompletes, RunFails, ChargeBudget,
         HandleVehicleBlocked, HandleVehicleFailed, NeedsDecision, rows, detector
    <3>2. CASE RunReportsBlock(v, c)
      BY <3>1, <3>2 DEF RunReportsBlock
    <3>3. CASE ChargeBudget(v, c)
      BY <1>c, <3>1, <3>3 DEF ChargeBudget
    <3>4. CASE ~RunReportsBlock(v, c) /\ ~ChargeBudget(v, c)
      <4>1. overruled' = overruled
        BY <2>1, <3>4, CompletedIsQuiet DEF LaunchVehicle, FinishVehicle, Run, RunStart, RunExits,
           RunGivesUp, RunBreaks, RunCompletes, RunFails, HandleVehicleBlocked,
           HandleVehicleFailed, aside
      <4> QED
        BY <3>1, <4>1
    <3> QED
      BY <3>1, <3>2, <3>3, <3>4
  <2>2. CASE Detector
    BY <2>2 DEF Detector, DetectDeadProcess, DetectOrphan, DetectOrphanedParent, SweepEnqueue,
                SweepBegin, SweepGivesUp, rows, detector, aside
  <2>3. CASE Age
    BY <2>3 DEF Age, detector, aside
  <2>4. ~Restart
    BY DEF Restart, ContainerTypeOK
  <2>5. CASE Requests
    BY <2>5, RequestsAreQuiet DEF detector
  <2>6. CASE \E v \in Vehicle : StrayEnds(v)
    BY <2>6 DEF StrayEnds, rows, detector
  <2> QED
    BY <2>1, <2>2, <2>3, <2>4, <2>5, <2>6 DEF ContainerNext
<1>3. Kept(w) /\ Begun(w)
  BY <1>2 DEF KeptInv
<1>4. CASE Age
  BY <1>3, <1>4, OthersKept DEF Age, queue, meta
<1>5. ASSUME NEW v \in Vehicle, NEW c \in Copy, LaunchVehicle(v, c) PROVE Kept(w)'
  <2>1. CASE v = w
    <3>1. vehicle_runs'[w][c] = "launched"
      BY <1>5, <2>1 DEF LaunchVehicle, ContainerTypeOK
    <3> QED
      BY <3>1 DEF Kept, Retriable, MayRetry
  <2>2. CASE v # w
    BY <1>3, <1>5, <2>2, OthersKept DEF LaunchVehicle, meta, ContainerTypeOK
  <2> QED
    BY <2>1, <2>2
<1>6. ASSUME NEW v \in Vehicle, NEW c \in Copy, FinishVehicle(v, c) PROVE Kept(w)'
  <2>1. \A d \in Copy : vehicle_runs[w][d] \in MayRetry => vehicle_runs'[w][d] = vehicle_runs[w][d]
    BY <1>6 DEF FinishVehicle, MayRetry, ContainerTypeOK
  <2>2. {"launched", "failed", "crashed"} \subseteq MayRetry
    BY DEF MayRetry
  <2>3. UNCHANGED <<waiting, v2_state>>
    BY <1>6 DEF FinishVehicle, meta
  <2> QED
    BY <1>3, <2>1, <2>2, <2>3 DEF Kept, Retriable
<1>7. ASSUME NEW v \in Vehicle, NEW c \in Copy, Run(v, c) PROVE Kept(w)'
  <2>1. CASE v = w
    BY <1>2, <1>3, <1>7, <2>1, RunKeeps DEF ContainerInv
  <2>2. CASE v # w
    <3>1. \E from, to : Step(v, c, from, to)
      BY <1>7, CompletedIsQuiet DEF Run, RunStart, RunReportsBlock, RunExits,
         RunGivesUp, RunBreaks, RunCompletes, RunFails, ChargeBudget, HandleVehicleBlocked, HandleVehicleFailed
    <3>2. vehicle_runs'[w] = vehicle_runs[w]
      BY <2>2, <3>1 DEF Step, ContainerTypeOK
    <3>3. v2_state'[w] = v2_state[w]
      BY <1>7, <2>2, CompletedIsQuiet DEF Run, RunStart, RunReportsBlock, RunExits,
         RunGivesUp, RunBreaks, RunCompletes, RunFails, ChargeBudget, HandleVehicleBlocked, HandleVehicleFailed, Transition, meta,
         ContainerTypeOK
    <3>4. waiting'[w] = waiting[w]
      BY <1>7, <2>2, CompletedIsQuiet DEF Run, RunStart, RunReportsBlock, RunExits,
         RunGivesUp, RunBreaks, RunCompletes, RunFails, ChargeBudget, HandleVehicleBlocked, HandleVehicleFailed, queue, ContainerTypeOK
    <3> QED
      BY <1>3, <3>2, <3>3, <3>4, OthersKept
  <2> QED
    BY <2>1, <2>2
<1>8. CASE Detector
  <2>1. ASSUME NEW v \in Vehicle, DetectDeadProcess(v) \/ DetectOrphan(v) PROVE Kept(w)'
    <3>1. v # w
      BY <2>1 DEF DetectDeadProcess, DetectOrphan
    <3> QED
      BY <1>3, <2>1, <3>1, OthersKept DEF DetectDeadProcess, DetectOrphan, Transition, queue,
                                          ContainerTypeOK
  <2>2. ASSUME NEW v \in Vehicle, SweepEnqueue(v) PROVE Kept(w)'
    <3>1. waiting[w] \in Nat /\ waiting'[w] \in {waiting[w], waiting[w] + 1}
      BY <2>2 DEF SweepEnqueue, ContainerTypeOK
    <3> QED
      BY <1>3, <2>2, <3>1, OthersKept DEF SweepEnqueue, meta
  <2>3. CASE SweepBegin
    BY <1>3, <2>3, OthersKept DEF SweepBegin, queue, meta
  <2>4. ~SweepGivesUp /\ ~DetectOrphanedParent
    BY DEF SweepGivesUp, DetectOrphanedParent
  <2> QED
    BY <1>8, <2>1, <2>2, <2>3, <2>4 DEF Detector
<1>9. ~Restart
  BY DEF Restart, ContainerTypeOK
<1>10. CASE Requests
  <2>1. UNCHANGED <<waiting, vehicle_runs>>
    BY <1>10, RequestsAreQuiet DEF queue
  <2>2. \/ v2_state'[w] = v2_state[w]
        \/ v2_state'[w] = "running" /\ v2_state[w] # "completed_unverified"
        \/ v2_state'[w] = "completed_unverified"
    BY <1>10, RequestsAreQuiet
  <2> QED
    BY <1>3, <2>1, <2>2 DEF Kept, Retriable
<1>11. CASE \E v \in Vehicle : StrayEnds(v)
  BY <1>3, <1>11, OthersKept DEF StrayEnds, queue, meta
<1> QED
  BY <1>4, <1>5, <1>6, <1>7, <1>8, <1>9, <1>10, <1>11 DEF ContainerNext

\* What keeps a vehicle of a dispatched container (dispatcher.py 277-420 for what is
\* released, 715-764 for the retry, execution.py 576-704 for the runs).
THEOREM KeptCorrect == ContainerSpec => []KeptInv
<1>1. ContainerInit => KeptInv
  BY DEF ContainerInit, KeptInv, Begun
<1>2. ContainerTypeOK /\ ContainerInv /\ ContainerInv' /\ KeptInv /\ [ContainerNext]_containerVars
      => KeptInv'
  <2> SUFFICES ASSUME ContainerTypeOK, ContainerInv, ContainerInv', KeptInv,
                      [ContainerNext]_containerVars
               PROVE  KeptInv'
    OBVIOUS
  <2>1. CASE ContainerNext
    <3>1. \A w \in Vehicle : Begun(w)'
      BY <2>1, BegunStep DEF KeptInv
    <3>2. parent' = "dispatched" /\ restarts' = 0 =>
             \A w \in Vehicle \ (pending' \cup detected' \cup overruled') : Kept(w)'
      BY <2>1, KeptStep
    <3> QED
      BY <3>1, <3>2 DEF KeptInv
  <2>2. CASE UNCHANGED containerVars
    <3>1. \A w \in Vehicle : (Begun(w) => Begun(w)') /\ (Kept(w) => Kept(w)')
      BY <2>2 DEF containerVars, Begun, Kept, Retriable
    <3> QED
      BY <2>2, <3>1 DEF containerVars, KeptInv
  <2> QED
    BY <2>1, <2>2
<1> QED
  BY <1>1, <1>2, ContainerTypeCorrect, ContainerCorrect, PTL DEF ContainerSpec

\* While its container is in flight, and nothing was restarted, a vehicle that may
\* run waits, runs or has completed, unless the detector failed it first.
THEOREM NoVehicleIsLost == ContainerSpec => []NoVehicleLost
<1>1. KeptInv => NoVehicleLost
  BY DEF KeptInv, NoVehicleLost, Kept, Retriable, MayRetry
<1> QED
  BY <1>1, KeptCorrect, PTL

-----------------------------------------------------------------------------
(* The queue and the container, one of which is explored.                  *)

\* They share no state, so each runs as if it were alone.
LEMMA PartsRunAlone == MCSpec => Spec /\ ContainerSpec
<1>1. MCInit => Init /\ ContainerInit
  BY DEF MCInit
<1>2. [MCNext]_<<part, vars, containerVars>> => [Next]_vars /\ [ContainerNext]_containerVars
  BY DEF MCNext
<1> QED
  BY <1>1, <1>2, PTL DEF MCSpec, Spec, ContainerSpec

\* Queue, slots, wake-ups, containers, vehicles and budgets keep their types
\* (task_queue.py, dispatcher.py, container_store.py).
THEOREM ServerTypeCorrect == MCSpec => []ServerTypeOK
<1>1. TypeOK /\ ContainerTypeOK => ServerTypeOK
  BY DEF ServerTypeOK
<1> QED
  BY <1>1, PartsRunAlone, TypeCorrect, ContainerTypeCorrect, PTL

\* Whichever of the two is explored, for every limit, task and vehicle: what the run
\* of both checks of them (task_queue.py, dispatcher.py, execution.py).
THEOREM ServerCorrect ==
  MCSpec => /\ [](NoLostWakeup /\ BudgetBehind /\ AttentionReachesContainer)
            /\ [](ProcessesAreFew /\ NoVehicleLost)
            /\ NothingDropped /\ NoOvertaking
BY PartsRunAlone, WakeupsNotLost, EntriesAreKept, PrioritiesAreKept, BudgetNeverAhead,
   AttentionIsPassedOn, ProcessesStayFew, NoVehicleIsLost, PTL
=============================================================================
