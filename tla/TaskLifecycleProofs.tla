------------------------- MODULE TaskLifecycleProofs -------------------------
(***************************************************************************)
(* Proofs about TaskLifecycle, for every set of messages and every number  *)
(* of requests and restarts.                                               *)
(*                                                                         *)
(* The inductive invariant is TypeOK /\ LifecycleInv.  Three lemmas say    *)
(* what a step does to the record: a step that leaves the record and the   *)
(* updates alone (RecordKept), a handler that leaves a free thread honest  *)
(* updates to make (UpdatesTaken), and the three steps of a writer.  Each  *)
(* action is then one of these, and what is left of it concerns its own    *)
(* few variables.                                                          *)
(***************************************************************************)
EXTENDS TaskLifecycle, SequenceTheorems, TLAPS

Inv == TypeOK /\ LifecycleInv

Earned == ExitedWell \/ reported
Evidence == Earned \/ resolved

EvidenceKept == (Earned => Earned') /\ (Evidence => Evidence') /\ (reported => reported')

-----------------------------------------------------------------------------
(* Lemmas on updates and sequences of them.                                *)

LEMMA SeqOfMore ==
    ASSUME NEW S, NEW T, S \subseteq T, NEW q \in Seq(S)
    PROVE  q \in Seq(T)
BY SeqDef

LEMMA LegacyStatusType ==
    ASSUME NEW s \in State
    PROVE  /\ LegacyStatus(s) \in Status \ {"none", "idea", "qa_review"}
           /\ LegacyStatus(s) = "completed" =>
                s \in {"completed_unverified", "completed_verified", "persisted", "archived"}
BY DEF State, Status, LegacyStatus

LEMMA HonestSets ==
    /\ \A s \in Status \ {"none", "idea"} :
           (s = "completed" => Evidence) /\ (s = "qa_review" => reported)
               => Set(s) \in HonestUpdates
    /\ Touch \in HonestUpdates
    /\ Put("escalated", "failed") \in HonestUpdates
BY DEF HonestUpdates, Set, Touch, Put, Update, Status, State, Evidence, Earned, Verdict

LEMMA HonestMoves ==
    ASSUME NEW to \in {"running", "blocked", "failed_retryable", "completed_verified",
                       "completed_unverified"},
           to = "completed_unverified" => Earned,
           NEW after \in Verdict,
           NEW s \in {"", "working", "failed", "completed"},
           s = "completed" => Evidence
    PROVE  MoveThen(to, after, s) \in HonestUpdates
BY DEF HonestUpdates, MoveThen, Update, Status, State, Evidence, Earned, Verdict

LEMMA HonestGrow ==
    ASSUME EvidenceKept
    PROVE  HonestUpdates \subseteq HonestUpdates' /\ HonestRecords \subseteq HonestRecords'
BY DEF HonestUpdates, HonestRecords, EvidenceKept, Earned, Evidence

LEMMA HonestAreUpdates == HonestUpdates \subseteq Update /\ HonestRecords \subseteq Record
BY DEF HonestUpdates, HonestRecords

-----------------------------------------------------------------------------
(* What a step does to the record.                                         *)

StatusReviewed == task.status = "qa_review" => reported
ReviewsAsked == reviewing > 0 => reported

RecordInv == Honest /\ CompletionEarned /\ StatusReviewed

RecordType ==
    /\ task \in Record
    /\ todo \in [Writer -> Seq(Update)]
    /\ copy \in [Writer -> Record \cup {NoCopy}]

LEMMA RecordKept ==
    ASSUME RecordType, RecordInv, EvidenceKept,
           UNCHANGED <<todo, copy>>,
           \/ task' = task
           \/ task' = [task EXCEPT !.status = "pending"]
           \/ task' = [task EXCEPT !.status = "idea"]
    PROVE  RecordInv' /\ RecordType'
<1>1. HonestUpdates \subseteq HonestUpdates' /\ HonestRecords \subseteq HonestRecords'
  BY HonestGrow
<1>2. Honest'
  <2> SUFFICES ASSUME NEW w \in Writer
               PROVE  /\ todo'[w] \in Seq(HonestUpdates')
                      /\ copy'[w] \in HonestRecords' \cup {NoCopy}
                      /\ todo'[w] = <<>> => copy'[w] = NoCopy
    BY DEF Honest
  <2>1. /\ todo[w] \in Seq(HonestUpdates)
        /\ copy[w] \in HonestRecords \cup {NoCopy}
        /\ todo[w] = <<>> => copy[w] = NoCopy
    BY DEF RecordInv, Honest
  <2>2. todo[w] \in Seq(HonestUpdates')
    BY <1>1, <2>1, SeqOfMore
  <2> QED BY <1>1, <2>1, <2>2
<1>3. CompletionEarned' /\ StatusReviewed' /\ RecordType'
  BY DEF RecordInv, CompletionEarned, StatusReviewed, RecordType, Record, EvidenceKept,
         Earned, Evidence, Status
<1> QED BY <1>2, <1>3 DEF RecordInv

LEMMA UpdatesTaken ==
    ASSUME RecordType, RecordInv, EvidenceKept,
           NEW w \in Writer, todo[w] = <<>>, NEW updates \in Seq(HonestUpdates'),
           todo' = [todo EXCEPT ![w] = updates], UNCHANGED <<task, copy>>
    PROVE  RecordInv' /\ RecordType'
<1>1. HonestUpdates \subseteq HonestUpdates' /\ HonestRecords \subseteq HonestRecords'
  BY HonestGrow
<1>2. Honest'
  <2> SUFFICES ASSUME NEW v \in Writer
               PROVE  /\ todo'[v] \in Seq(HonestUpdates')
                      /\ copy'[v] \in HonestRecords' \cup {NoCopy}
                      /\ todo'[v] = <<>> => copy'[v] = NoCopy
    BY DEF Honest
  <2>1. /\ todo[v] \in Seq(HonestUpdates)
        /\ copy[v] \in HonestRecords \cup {NoCopy}
        /\ todo[v] = <<>> => copy[v] = NoCopy
    BY DEF RecordInv, Honest
  <2>2. todo[v] \in Seq(HonestUpdates')
    BY <1>1, <2>1, SeqOfMore
  <2>3. todo'[v] = IF v = w THEN updates ELSE todo[v]
    BY DEF RecordType
  <2> QED BY <1>1, <2>1, <2>2, <2>3
<1>3. CompletionEarned' /\ StatusReviewed'
  BY DEF RecordInv, CompletionEarned, StatusReviewed, EvidenceKept, Earned, Evidence
<1>4. updates \in Seq(Update)
  <2>1. HonestUpdates' \subseteq Update
    BY DEF HonestUpdates
  <2> QED BY <2>1, SeqOfMore
<1>5. RecordType'
  BY <1>4 DEF RecordType
<1> QED BY <1>2, <1>3, <1>5 DEF RecordInv

LEMMA HeadAndTail ==
    ASSUME NEW S, NEW q \in Seq(S), q # <<>>
    PROVE  Head(q) \in S /\ Tail(q) \in Seq(S)
BY HeadTailProperties

LEMMA OneMore ==
    ASSUME NEW S, NEW q \in Seq(S), NEW e \in S
    PROVE  <<>> \o q \in Seq(S) /\ <<e>> \o q \in Seq(S) /\ <<e>> \o q # <<>>
OBVIOUS

\* Every thread has honest updates to make; spelled out for one of them.
LEMMA HonestWriter ==
    ASSUME RecordInv, NEW w \in Writer
    PROVE  /\ todo[w] \in Seq(HonestUpdates)
           /\ copy[w] \in HonestRecords \cup {NoCopy}
           /\ todo[w] = <<>> => copy[w] = NoCopy
           /\ todo[w] # <<>> => /\ Head(todo[w]) \in HonestUpdates
                                /\ Tail(todo[w]) \in Seq(HonestUpdates)
BY HeadAndTail DEF RecordInv, Honest

LEMMA ReadKeeps ==
    ASSUME RecordType, RecordInv, NEW w \in Writer, Read(w), task.status # "none"
    PROVE  RecordInv' /\ RecordType'
<1> DEFINE u == Head(todo[w])
<1>1. todo[w] # <<>> /\ u \in HonestUpdates
  BY HonestWriter DEF Read, IsFree
<1>2. HonestUpdates' = HonestUpdates /\ HonestRecords' = HonestRecords
  BY DEF Read, HonestUpdates, HonestRecords, ExitedWell, run, history
<1>3. Changed(u) \in HonestRecords
  <2>1. CASE u.kind = "move"
    <3>1. Legal(u.to)
      BY <2>1 DEF Read
    <3>2. u.to \in State /\ (u.to = "completed_verified" =>
                                task.v2_state = "completed_unverified")
      BY <1>1, <2>1, <3>1 DEF Legal, ValidTransitions, HonestUpdates, State, RecordType,
                              Record
    <3>3. u.to \in {"completed_unverified", "completed_verified"} => Earned
      BY <1>1, <2>1, <3>2 DEF HonestUpdates, RecordInv, CompletionEarned, Earned
    <3>4. u.to \notin {"persisted", "archived"}
      BY <1>1, <2>1 DEF HonestUpdates
    <3> QED
      BY <2>1, <3>2, <3>3, <3>4, LegacyStatusType DEF Changed, HonestRecords, Record, Earned
  <2>2. CASE u.kind = "put"
    BY <1>1, <2>2 DEF Changed, HonestUpdates, HonestRecords, Record, State, Status
  <2>3. CASE u.kind = "set"
    <3>1. CASE u.status = ""
      <4>1. Changed(u) = task
        BY <2>3, <3>1 DEF Changed
      <4> QED
        BY <4>1 DEF HonestRecords, RecordType, RecordInv, CompletionEarned, StatusReviewed
    <3>2. CASE u.status # ""
      <4>1. Changed(u) = [v2_state |-> task.v2_state, status |-> u.status]
        BY <2>3, <3>2 DEF Changed, RecordType, Record
      <4>2. /\ u.status \in Status \ {"none"}
            /\ u.status = "completed" => Evidence
            /\ u.status = "qa_review" => reported
        BY <1>1, <3>2 DEF HonestUpdates, Update, Evidence, Earned
      <4>3. /\ task.v2_state \in State
            /\ task.v2_state \in {"completed_unverified", "completed_verified"} => Earned
        BY DEF RecordType, Record, RecordInv, CompletionEarned, Earned
      <4> HIDE DEF u
      <4> QED BY <4>1, <4>2, <4>3 DEF HonestRecords, Record, Evidence, Earned
    <3> QED BY <3>1, <3>2
  <2> QED
    BY <1>1, <2>1, <2>2, <2>3 DEF HonestUpdates, Update
<1>4. Honest'
  <2> SUFFICES ASSUME NEW v \in Writer
               PROVE  /\ todo[v] \in Seq(HonestUpdates)
                      /\ copy'[v] \in HonestRecords \cup {NoCopy}
                      /\ todo[v] = <<>> => copy'[v] = NoCopy
    BY <1>2 DEF Honest, Read
  <2>1. copy'[v] = IF v = w THEN Changed(u) ELSE copy[v]
    BY DEF Read, RecordType
  <2> QED BY <1>1, <1>3, <2>1, HonestWriter
<1>5. CompletionEarned' /\ StatusReviewed' /\ RecordType'
  BY <1>3, HonestAreUpdates DEF RecordInv, CompletionEarned, StatusReviewed, RecordType,
                                Read, ExitedWell, run, history
<1> QED BY <1>4, <1>5 DEF RecordInv

LEMMA RefuseKeeps ==
    ASSUME RecordType, RecordInv, NEW w \in Writer, Refuse(w)
    PROVE  RecordInv' /\ RecordType'
<1> DEFINE u == Head(todo[w])
           rest == Tail(todo[w])
           left == (IF u.status = "" THEN <<>> ELSE <<Set(u.status)>>) \o rest
<1>1. todo[w] # <<>> /\ u \in HonestUpdates /\ rest \in Seq(HonestUpdates)
  BY HonestWriter DEF Refuse, IsFree
<1>2. HonestUpdates' = HonestUpdates /\ HonestRecords' = HonestRecords
  BY DEF Refuse, HonestUpdates, HonestRecords, ExitedWell, run, history
<1>3. u.status # "" => Set(u.status) \in HonestUpdates
  BY <1>1 DEF HonestUpdates, Update, Set, Verdict
<1>4. left \in Seq(HonestUpdates)
  BY <1>1, <1>3, OneMore
<1>5. todo' = [todo EXCEPT ![w] = left] /\ copy[w] = NoCopy
  BY DEF Refuse
<1> HIDE DEF left, u, rest
<1>6. Honest'
  <2> SUFFICES ASSUME NEW v \in Writer
               PROVE  /\ todo'[v] \in Seq(HonestUpdates)
                      /\ copy[v] \in HonestRecords \cup {NoCopy}
                      /\ todo'[v] = <<>> => copy[v] = NoCopy
    BY <1>2 DEF Honest, Refuse
  <2>1. todo'[v] = IF v = w THEN left ELSE todo[v]
    BY <1>5 DEF RecordType
  <2> QED BY <1>4, <1>5, <2>1, HonestWriter
<1>7. CompletionEarned' /\ StatusReviewed'
  BY DEF RecordInv, CompletionEarned, StatusReviewed, Refuse, ExitedWell, run, history
<1>8. left \in Seq(Update)
  BY <1>4, HonestAreUpdates, SeqOfMore
<1>9. RecordType'
  BY <1>5, <1>8 DEF RecordType, Refuse
<1> QED BY <1>6, <1>7, <1>9 DEF RecordInv

LEMMA WriteKeeps ==
    ASSUME RecordType, RecordInv, NEW w \in Writer, Write(w)
    PROVE  RecordInv' /\ RecordType' /\ task'.status # "none" /\ todo[w] # <<>>
<1> DEFINE u == Head(todo[w])
           rest == Tail(todo[w])
           left == (IF u.after = "" THEN <<>> ELSE <<Move(u.after, "")>>) \o rest
<1>1. /\ todo[w] # <<>> /\ copy[w] \in HonestRecords
      /\ u \in HonestUpdates /\ rest \in Seq(HonestUpdates)
  BY HonestWriter DEF Write
<1>2. HonestUpdates' = HonestUpdates /\ HonestRecords' = HonestRecords
  BY DEF Write, HonestUpdates, HonestRecords, ExitedWell, run, history
<1>3. u.after # "" => Move(u.after, "") \in HonestUpdates
  <2>1. u.after \in Verdict
    BY <1>1 DEF HonestUpdates
  <2> QED BY <2>1, HonestMoves DEF Move, Verdict
<1>4. left \in Seq(HonestUpdates)
  BY <1>1, <1>3, OneMore
<1>5. /\ todo' = [todo EXCEPT ![w] = left]
      /\ copy' = [copy EXCEPT ![w] = NoCopy] /\ task' = copy[w]
  BY DEF Write
<1> HIDE DEF left, u, rest
<1>6. Honest'
  <2> SUFFICES ASSUME NEW v \in Writer
               PROVE  /\ todo'[v] \in Seq(HonestUpdates)
                      /\ copy'[v] \in HonestRecords \cup {NoCopy}
                      /\ todo'[v] = <<>> => copy'[v] = NoCopy
    BY <1>2 DEF Honest
  <2>1. /\ todo'[v] = IF v = w THEN left ELSE todo[v]
        /\ copy'[v] = IF v = w THEN NoCopy ELSE copy[v]
    BY <1>5 DEF RecordType
  <2> QED BY <1>4, <2>1, HonestWriter
<1>7. CompletionEarned' /\ StatusReviewed' /\ task'.status # "none"
  BY <1>1, <1>5 DEF HonestRecords, CompletionEarned, StatusReviewed, Write, ExitedWell, run, history
<1>8. left \in Seq(Update)
  BY <1>4, HonestAreUpdates, SeqOfMore
<1>9. RecordType'
  BY <1>1, <1>5, <1>8, HonestAreUpdates DEF RecordType
<1> QED BY <1>1, <1>6, <1>7, <1>9 DEF RecordInv

-----------------------------------------------------------------------------
(* What a handler leaves to do, and what is left to show of it.            *)

CountType ==
    /\ served \in 0 .. MaxRequests /\ restarts \in 0 .. MaxRestarts
    /\ reviewing \in Nat /\ promoting \in Nat /\ accepted \in Nat /\ offers \in Nat
    /\ restored \in Nat

PlaceType ==
    /\ target \in {"unset", "haze", "kush"}
    /\ queued \in BOOLEAN /\ thread \in Phase
    /\ process \in {"none", "alive", "told", "exit_0", "exit_1"}
    /\ tracked \in BOOLEAN /\ sweep \in BOOLEAN
    /\ message \in [Message -> {"unsent", "open", "answered"}]
    /\ subtasks \in {"none", "open", "completed", "failed"}
    /\ reported \in BOOLEAN /\ resolved \in BOOLEAN /\ archived \in BOOLEAN

RestType == CountType /\ PlaceType

RunInv == BuilderCanBeStopped /\ ReviewsAsked /\ Fresh /\ Orderly

LEMMA InvParts == Inv <=> RecordType /\ RestType /\ RecordInv /\ RunInv
BY DEF Inv, TypeOK, LifecycleInv, RecordType, RestType, CountType, PlaceType, RecordInv,
       RunInv, Reviewed, StatusReviewed, ReviewsAsked

LEMMA MoreUpdates ==
    ASSUME EvidenceKept, NEW q \in Seq(HonestUpdates)
    PROVE  q \in Seq(HonestUpdates')
<1>1. HonestUpdates \subseteq HonestUpdates'
  BY HonestGrow DEF EvidenceKept
<1> QED BY <1>1, SeqOfMore

LEMMA EvidenceStays ==
    ASSUME reported => reported', resolved => resolved',
           process' = process \/ KillTracked \/ process # "exit_0"
    PROVE  EvidenceKept
BY DEF EvidenceKept, Earned, Evidence, ExitedWell, KillTracked, IsRunning

\* The lists of updates the handlers leave, but for those whose evidence is new.
LEMMA Lists ==
    ASSUME NEW S, NEW a \in S, NEW b \in S
    PROVE  <<>> \in Seq(S) /\ <<a>> \in Seq(S) /\ <<a, b>> \in Seq(S)
OBVIOUS

LEMMA HonestLists ==
    /\ <<>> \in Seq(HonestUpdates)
    /\ <<Touch>> \in Seq(HonestUpdates)
    /\ \A s \in {"pending", "cancelled"} : <<Set(s)>> \in Seq(HonestUpdates)
    /\ \A to \in {"running", "blocked", "failed_retryable", "completed_verified"} :
           <<Move(to, "")>> \in Seq(HonestUpdates)
    /\ <<Move("running", ""), Set("working")>> \in Seq(HonestUpdates)
    /\ <<Move("running", "working")>> \in Seq(HonestUpdates)
    /\ <<Move("blocked", ""), Set("waiting_for_pm")>> \in Seq(HonestUpdates)
    /\ <<Move("failed_retryable", ""), Set("failed")>> \in Seq(HonestUpdates)
    /\ <<Set("failed"), Move("failed_retryable", "")>> \in Seq(HonestUpdates)
    /\ Failure \in Seq(HonestUpdates)
    /\ <<Put("escalated", "failed")>> \in Seq(HonestUpdates)
    /\ Evidence =>
         <<Move("completed_verified", ""), Set("completed")>> \in Seq(HonestUpdates)
<1>1. \A s \in {"pending", "working", "waiting_for_pm", "failed", "cancelled"} :
          Set(s) \in HonestUpdates
  BY HonestSets DEF Status
<1>2. \A to \in {"running", "blocked", "failed_retryable", "completed_verified"} :
          \A s \in {"", "working", "failed"} : Move(to, s) \in HonestUpdates
  BY HonestMoves DEF Move, Verdict
<1>3. Evidence => Set("completed") \in HonestUpdates
  BY HonestSets DEF Status
<1> QED
  BY <1>1, <1>2, <1>3, HonestSets, Lists, Zenon DEF Failure

LEMMA ServedKeeps ==
    ASSUME RecordType, RestType, RecordInv, RunInv, task.status # "none",
           NEW updates \in Seq(HonestUpdates'), Serve(updates), EvidenceKept,
           UNCHANGED <<queued, thread, sweep>>,
           reviewing' = reviewing \/ reported,
           process = "none" => process' = "none",
           process' = "alive" => process = "alive" /\ (tracked => tracked')
    PROVE  RecordInv' /\ RecordType' /\ RunInv' /\ served' \in 0 .. MaxRequests
<1>1. todo["loop"] = <<>> /\ "loop" \in Writer
  BY DEF Serve, LoopIsFree, IsFree, Writer
<1>2. RecordInv' /\ RecordType'
  BY <1>1, UpdatesTaken DEF Serve, EvidenceKept
<1>3. served' \in 0 .. MaxRequests
  BY LifecycleAssumption DEF Serve, RestType, CountType, LifecycleAssumption
<1>4. todo'["thread"] = todo["thread"] /\ todo'["detector"] = todo["detector"]
  BY DEF Serve, RecordType
<1>5. RunInv'
  <2>1. ReviewsAsked'
    BY DEF RunInv, ReviewsAsked, EvidenceKept
  <2>2. (BuilderCanBeStopped /\ Fresh /\ Orderly)'
    BY <1>4 DEF Serve, RunInv, BuilderCanBeStopped, Fresh, Orderly, ThreadIsFree, IsFree
  <2> QED BY <2>1, <2>2 DEF RunInv
<1> QED BY <1>2, <1>3, <1>5

\* An executor, a question or an observation is only possible once there is a task.
LEMMA ThereIsATask ==
    ASSUME RestType, RunInv,
           \/ queued \/ thread # "none" \/ process # "none" \/ sweep
           \/ accepted > 0 \/ promoting > 0 \/ reviewing > 0
           \/ \E m \in Message : message[m] # "unsent"
    PROVE  task.status # "none"
<1> SUFFICES ASSUME task.status = "none" PROVE FALSE
  OBVIOUS
<1>1. /\ ~queued /\ thread = "none" /\ process = "none" /\ ~sweep
      /\ accepted = 0 /\ promoting = 0 /\ reviewing = 0
      /\ message = [m \in Message |-> "unsent"]
  BY DEF RunInv, Fresh
<1>2. ~(accepted > 0) /\ ~(promoting > 0) /\ ~(reviewing > 0)
  BY <1>1
<1>3. \A m \in Message : message[m] = "unsent"
  BY <1>1
<1> QED BY <1>1, <1>2, <1>3

-----------------------------------------------------------------------------
(* The handlers of the event loop.                                         *)

LEMMA ExecutorKeeps ==
    ASSUME RecordType, RestType, RecordInv, RunInv, Executor
    PROVE  RecordInv' /\ RecordType' /\ RunInv' /\ RestType'
<1>1. CASE Accept
  <2>1. EvidenceKept
    BY <1>1, EvidenceStays DEF Accept, run
  <2>2. <<Move("running", ""), Set("working")>> \in Seq(HonestUpdates')
    BY <2>1, HonestLists, MoreUpdates
  <2>3. task.status # "none"
    BY <1>1 DEF Accept
  <2>4. RecordInv' /\ RecordType' /\ RunInv' /\ served' \in 0 .. MaxRequests
    BY <1>1, <2>1, <2>2, <2>3, ServedKeeps DEF Accept, run, requests
  <2>8. CountType'
    <3>1. /\ accepted' = accepted + 1
          /\ UNCHANGED <<reviewing, promoting, offers, restored, restarts>>
      BY <1>1 DEF Accept, requests
    <3> QED BY <2>4, <3>1 DEF RestType, CountType
  <2>9. PlaceType'
    BY <1>1 DEF Accept, run, requests, RestType, PlaceType
  <2> QED BY <2>4, <2>8, <2>9 DEF RestType
<1>2. CASE Complete
  <2>1. EvidenceKept /\ Earned' /\ Evidence'
    BY <1>2, EvidenceStays DEF Complete, run, Earned, Evidence
  <2>2. PICK verdict \in Verdict :
          Serve(<<MoveThen("completed_unverified", verdict, ""), Set("completed")>>)
    BY <1>2 DEF Complete
  <2>3. <<MoveThen("completed_unverified", verdict, ""), Set("completed")>>
          \in Seq(HonestUpdates')
    <3>1. MoveThen("completed_unverified", verdict, "") \in HonestUpdates'
      BY <2>1 DEF HonestUpdates, MoveThen, Update, State, Status, Earned, Verdict
    <3>2. Set("completed") \in HonestUpdates'
      BY <2>1 DEF HonestUpdates, Set, Update, State, Status, Earned, Evidence, Verdict
    <3> QED BY <3>1, <3>2, Lists
  <2>4. task.status # "none"
    BY <1>2, ThereIsATask DEF Complete
  <2>5. RecordInv' /\ RecordType' /\ RunInv' /\ served' \in 0 .. MaxRequests
    BY <1>2, <2>1, <2>2, <2>3, <2>4, ServedKeeps DEF Complete, run, requests
  <2>8. CountType'
    BY <1>2, <2>5 DEF Complete, requests, RestType, CountType
  <2>9. PlaceType'
    BY <1>2 DEF Complete, run, requests, RestType, PlaceType
  <2> QED BY <2>5, <2>8, <2>9 DEF RestType
<1>3. CASE AskForReview
  <2>1. EvidenceKept
    BY <1>3, EvidenceStays DEF AskForReview, run
  <2>2. <<Set("qa_review")>> \in Seq(HonestUpdates')
    <3>1. Set("qa_review") \in HonestUpdates'
      BY <1>3 DEF AskForReview, HonestUpdates, Set, Update, State, Status, Verdict
    <3> QED BY <3>1, Lists
  <2>3. task.status # "none"
    BY <1>3, ThereIsATask DEF AskForReview
  <2>4. RecordInv' /\ RecordType' /\ RunInv' /\ served' \in 0 .. MaxRequests
    BY <1>3, <2>1, <2>2, <2>3, ServedKeeps DEF AskForReview, run, requests
  <2>8. CountType'
    BY <1>3, <2>4 DEF AskForReview, requests, RestType, CountType
  <2>9. PlaceType'
    BY <1>3 DEF AskForReview, run, requests, RestType, PlaceType
  <2> QED BY <2>4, <2>8, <2>9 DEF RestType
<1>4. CASE UpdateSubtasks
  <2>1. EvidenceKept
    BY <1>4, EvidenceStays DEF UpdateSubtasks, run, history
  <2>2. <<>> \in Seq(HonestUpdates')
    OBVIOUS
  <2>3. task.status # "none"
    BY <1>4, ThereIsATask DEF UpdateSubtasks
  <2>4. RecordInv' /\ RecordType' /\ RunInv' /\ served' \in 0 .. MaxRequests
    BY <1>4, <2>1, <2>2, <2>3, ServedKeeps DEF UpdateSubtasks, run, requests
  <2>8. CountType'
    BY <1>4, <2>4 DEF UpdateSubtasks, requests, history, RestType, CountType
  <2>9. PlaceType'
    BY <1>4 DEF UpdateSubtasks, run, requests, history, RestType, PlaceType
  <2> QED BY <2>4, <2>8, <2>9 DEF RestType
<1> QED BY <1>1, <1>2, <1>3, <1>4 DEF Executor

LEMMA OperatorKeeps ==
    ASSUME RecordType, RestType, RecordInv, RunInv, Operator
    PROVE  RecordInv' /\ RecordType' /\ RunInv' /\ RestType'
<1>1. CASE Execute
  <2>1. EvidenceKept
    BY <1>1, EvidenceStays DEF Execute
  <2>2. RecordInv' /\ RecordType' /\ task'.status = "pending"
    <3>1. task' = [task EXCEPT !.status = "pending"] /\ UNCHANGED <<todo, copy>>
      BY <1>1 DEF Execute
    <3> QED BY <2>1, <3>1, RecordKept DEF RecordType, Record
  <2>3. RunInv'
    BY <1>1, <2>2 DEF Execute, requests, RunInv, BuilderCanBeStopped, ReviewsAsked, Fresh,
                      Orderly, ThreadIsFree, IsFree, Writer
  <2>4. CountType'
    <3>1. /\ offers' = offers + 1
          /\ UNCHANGED <<served, restarts, reviewing, promoting, accepted, restored>>
      BY <1>1 DEF Execute, requests
    <3> QED BY <3>1 DEF RestType, CountType
  <2>5. PlaceType'
    BY <1>1 DEF Execute, requests, RestType, PlaceType
  <2> QED BY <2>2, <2>3, <2>4, <2>5 DEF RestType
<1>2. CASE CreateIdea
  <2>1. EvidenceKept
    BY <1>2, EvidenceStays DEF CreateIdea, run, history
  <2>2. RecordInv' /\ RecordType' /\ task'.status = "idea"
    <3>1. task' = [task EXCEPT !.status = "idea"] /\ UNCHANGED <<todo, copy>>
      BY <1>2 DEF CreateIdea
    <3> QED BY <2>1, <3>1, RecordKept DEF RecordType, Record
  <2>3. RunInv'
    BY <1>2, <2>2 DEF CreateIdea, run, requests, history, RunInv, BuilderCanBeStopped,
                      ReviewsAsked, Fresh, Orderly, ThreadIsFree, IsFree
  <2>4. CountType'
    BY <1>2 DEF CreateIdea, requests, history, RestType, CountType
  <2>5. PlaceType'
    BY <1>2 DEF CreateIdea, run, requests, history, RestType, PlaceType
  <2> QED BY <2>2, <2>3, <2>4, <2>5 DEF RestType
<1>3. CASE PromoteBegin
  <2>1. EvidenceKept
    BY <1>3, EvidenceStays DEF PromoteBegin, run, history
  <2>2. <<>> \in Seq(HonestUpdates')
    OBVIOUS
  <2>3. RecordInv' /\ RecordType' /\ RunInv' /\ served' \in 0 .. MaxRequests
    BY <1>3, <2>1, <2>2, ServedKeeps DEF PromoteBegin, run
  <2>4. CountType'
    <3>1. promoting' = promoting + 1 /\ UNCHANGED <<restarts, reviewing, accepted, offers, restored>>
      BY <1>3 DEF PromoteBegin, history
    <3> QED BY <2>3, <3>1 DEF RestType, CountType
  <2>5. PlaceType'
    BY <1>3 DEF PromoteBegin, run, history, RestType, PlaceType
  <2> QED BY <2>3, <2>4, <2>5 DEF RestType
<1>4. CASE Promote
  <2>1. EvidenceKept
    BY <1>4, EvidenceStays DEF Promote, run
  <2>2. RecordInv' /\ RecordType'
    <3>1. <<Set("pending")>> \in Seq(HonestUpdates')
      BY <2>1, HonestLists, MoreUpdates
    <3>2. /\ todo["loop"] = <<>> /\ UNCHANGED <<task, copy>>
          /\ todo' = [todo EXCEPT !["loop"] = <<Set("pending")>>]
      BY <1>4 DEF Promote, Do, LoopIsFree, IsFree
    <3> QED BY <2>1, <3>1, <3>2, UpdatesTaken DEF Writer
  <2>3. task.status # "none"
    BY <1>4, ThereIsATask DEF Promote
  <2>4. RunInv'
    <3>1. todo'["thread"] = todo["thread"] /\ todo'["detector"] = todo["detector"]
      BY <1>4 DEF Promote, Do, RecordType
    <3> QED
      BY <1>4, <2>3, <3>1 DEF Promote, Do, run, RunInv, BuilderCanBeStopped, ReviewsAsked,
                              Fresh, Orderly, ThreadIsFree, IsFree
  <2>5. CountType'
    <3>1. /\ promoting > 0 /\ promoting' = promoting - 1 /\ offers' = offers + 1
          /\ UNCHANGED <<served, restarts, reviewing, accepted, restored>>
      BY <1>4 DEF Promote, Do
    <3> QED BY <3>1 DEF RestType, CountType
  <2>6. PlaceType'
    BY <1>4 DEF Promote, run, RestType, PlaceType
  <2> QED BY <2>2, <2>4, <2>5, <2>6 DEF RestType
<1>5. CASE ReviewBegin
  <2>1. EvidenceKept
    BY <1>5, EvidenceStays DEF ReviewBegin, run, history
  <2>2. <<>> \in Seq(HonestUpdates')
    OBVIOUS
  <2>3. reported
    BY <1>5 DEF ReviewBegin, RecordInv, StatusReviewed
  <2>4. RecordInv' /\ RecordType' /\ RunInv' /\ served' \in 0 .. MaxRequests
    BY <1>5, <2>1, <2>2, <2>3, ServedKeeps DEF ReviewBegin, run
  <2>5. CountType'
    <3>1. reviewing' = reviewing + 1 /\ UNCHANGED <<restarts, promoting, accepted, offers, restored>>
      BY <1>5 DEF ReviewBegin, history
    <3> QED BY <2>4, <3>1 DEF RestType, CountType
  <2>6. PlaceType'
    BY <1>5 DEF ReviewBegin, run, history, RestType, PlaceType
  <2> QED BY <2>4, <2>5, <2>6 DEF RestType
<1>6. CASE Review
  <2>1. EvidenceKept
    BY <1>6, EvidenceStays DEF Review, run, history
  <2>2. reported /\ Evidence
    BY <1>6 DEF Review, RunInv, ReviewsAsked, Evidence, Earned
  <2>3. /\ RecordInv' /\ RecordType' /\ UNCHANGED <<task, served>>
        /\ todo'["thread"] = todo["thread"] /\ todo'["detector"] = todo["detector"]
    <3>1. PICK updates \in {<<Move("completed_verified", ""), Set("completed")>>,
                            <<Move("failed_retryable", ""), Set("failed")>>} :
            Do("loop", updates)
      BY <1>6 DEF Review
    <3>2. /\ todo["loop"] = <<>> /\ UNCHANGED <<task, copy, served>>
          /\ todo' = [todo EXCEPT !["loop"] = updates]
      BY <1>6, <3>1 DEF Review, Do, LoopIsFree, IsFree
    <3>3. updates \in Seq(HonestUpdates')
      BY <2>1, <2>2, HonestLists, MoreUpdates
    <3>4. RecordInv' /\ RecordType'
      BY <2>1, <3>2, <3>3, UpdatesTaken DEF Writer
    <3> QED BY <3>2, <3>4 DEF RecordType, Writer
  <2>4. RunInv'
    <3>1. task.status # "none" /\ reported'
      BY <1>6, <2>2, ThereIsATask DEF Review, history
    <3> QED
      BY <1>6, <2>3, <3>1 DEF Review, run, RunInv, BuilderCanBeStopped, ReviewsAsked,
                              Fresh, Orderly, ThreadIsFree, IsFree
  <2>5. CountType'
    <3>1. /\ reviewing > 0 /\ reviewing' = reviewing - 1
          /\ UNCHANGED <<restarts, promoting, accepted, offers, restored>>
      BY <1>6 DEF Review, history
    <3> QED BY <2>3, <3>1 DEF RestType, CountType
  <2>6. PlaceType'
    BY <1>6 DEF Review, run, history, RestType, PlaceType
  <2> QED BY <2>3, <2>4, <2>5, <2>6 DEF RestType
<1>7. CASE Validate
  <2>1. EvidenceKept
    BY <1>7, EvidenceStays DEF Validate, run, history
  <2>2. PICK to \in {"completed_verified", "failed_retryable"} : Serve(<<Move(to, "")>>)
    BY <1>7 DEF Validate
  <2>3. <<Move(to, "")>> \in Seq(HonestUpdates')
    BY <2>1, HonestLists, MoreUpdates
  <2>4. RecordInv' /\ RecordType' /\ RunInv' /\ served' \in 0 .. MaxRequests
    BY <1>7, <2>1, <2>2, <2>3, ServedKeeps DEF Validate, run, requests
  <2>5. CountType'
    BY <1>7, <2>4 DEF Validate, requests, history, RestType, CountType
  <2>6. PlaceType'
    BY <1>7 DEF Validate, run, requests, history, RestType, PlaceType
  <2> QED BY <2>4, <2>5, <2>6 DEF RestType
<1>8. CASE Cancel
  <2>1. EvidenceKept
    BY <1>8, EvidenceStays DEF Cancel, run, history
  <2>2. <<Set("cancelled")>> \in Seq(HonestUpdates')
    BY <2>1, HonestLists, MoreUpdates
  <2>3. RecordInv' /\ RecordType' /\ RunInv' /\ served' \in 0 .. MaxRequests
    BY <1>8, <2>1, <2>2, ServedKeeps DEF Cancel, run, requests
  <2>4. CountType'
    BY <1>8, <2>3 DEF Cancel, requests, history, RestType, CountType
  <2>5. PlaceType'
    BY <1>8 DEF Cancel, run, requests, history, RestType, PlaceType
  <2> QED BY <2>3, <2>4, <2>5 DEF RestType
<1>9. CASE ForceFail
  <2>1. EvidenceKept
    BY <1>9, EvidenceStays DEF ForceFail, history
  <2>2. <<Put("escalated", "failed")>> \in Seq(HonestUpdates')
    BY <2>1, HonestLists, MoreUpdates
  <2>3. /\ process = "none" => process' = "none"
        /\ process' = "alive" => process = "alive" /\ ~tracked
    BY <1>9 DEF ForceFail, KillTracked, IsRunning
  <2>4. RecordInv' /\ RecordType' /\ RunInv' /\ served' \in 0 .. MaxRequests
    BY <1>9, <2>1, <2>2, <2>3, ServedKeeps DEF ForceFail, requests
  <2>5. CountType'
    BY <1>9, <2>4 DEF ForceFail, requests, history, RestType, CountType
  <2>6. PlaceType'
    BY <1>9 DEF ForceFail, KillTracked, requests, history, RestType, PlaceType
  <2> QED BY <2>4, <2>5, <2>6 DEF RestType
<1>10. CASE Archive
  <2>1. EvidenceKept
    BY <1>10, EvidenceStays DEF Archive, run
  <2>2. <<Touch>> \in Seq(HonestUpdates')
    BY <2>1, HonestLists, MoreUpdates
  <2>3. RecordInv' /\ RecordType' /\ RunInv' /\ served' \in 0 .. MaxRequests
    BY <1>10, <2>1, <2>2, ServedKeeps DEF Archive, run, requests
  <2>4. CountType'
    BY <1>10, <2>3 DEF Archive, requests, RestType, CountType
  <2>5. PlaceType'
    BY <1>10 DEF Archive, run, requests, RestType, PlaceType
  <2> QED BY <2>3, <2>4, <2>5 DEF RestType
<1> QED
  BY <1>1, <1>2, <1>3, <1>4, <1>5, <1>6, <1>7, <1>8, <1>9, <1>10 DEF Operator

LEMMA QuestionKeeps ==
    ASSUME RecordType, RestType, RecordInv, RunInv, NEW m \in Message, Ask(m) \/ Respond(m)
    PROVE  RecordInv' /\ RecordType' /\ RunInv' /\ RestType'
<1>1. EvidenceKept
  <2>1. UNCHANGED <<process, reported, resolved>>
    BY DEF Ask, Respond, run, history
  <2> QED BY <2>1, EvidenceStays
<1>2. task.status # "none"
  BY ThereIsATask DEF Ask, Respond
<1>3. RecordInv' /\ RecordType' /\ RunInv' /\ served' \in 0 .. MaxRequests
  <2>1. CASE Ask(m)
    <3>1. <<Move("blocked", ""), Set("waiting_for_pm")>> \in Seq(HonestUpdates')
      BY <1>1, HonestLists, MoreUpdates
    <3> QED
      BY <1>1, <1>2, <2>1, <3>1, ServedKeeps DEF Ask, run
  <2>2. CASE Respond(m)
    <3>1. PICK updates \in {<<>>, <<Move("running", ""), Set("working")>>} : Serve(updates)
      BY <2>2 DEF Respond
    <3>2. updates \in Seq(HonestUpdates')
      BY <1>1, <3>1, HonestLists, MoreUpdates
    <3> QED
      BY <1>1, <1>2, <2>2, <3>1, <3>2, ServedKeeps DEF Respond, run
  <2> QED BY <2>1, <2>2
<1>4. CountType'
  BY <1>3 DEF Ask, Respond, history, RestType, CountType
<1>5. message' \in [Message -> {"unsent", "open", "answered"}]
  BY DEF Ask, Respond, RestType, PlaceType
<1>6. UNCHANGED <<target, run, subtasks, sweep, history>>
  BY DEF Ask, Respond
<1>7. PlaceType'
  BY <1>5, <1>6 DEF run, history, RestType, PlaceType
<1> QED BY <1>3, <1>4, <1>7 DEF RestType

-----------------------------------------------------------------------------
(* The run and the detector.                                               *)

LEMMA WriterTakes ==
    ASSUME RecordType, RecordInv, EvidenceKept, NEW w \in {"thread", "detector"}, IsFree(w),
           NEW updates \in Seq(HonestUpdates'), Do(w, updates)
    PROVE  /\ RecordInv' /\ RecordType' /\ UNCHANGED <<task, served>>
           /\ \A v \in Writer \ {w} : todo'[v] = todo[v]
<1>1. todo[w] = <<>> /\ w \in Writer
  BY DEF IsFree, Writer
<1>2. todo' = [todo EXCEPT ![w] = updates] /\ UNCHANGED <<task, copy, served>>
  BY DEF Do
<1>3. RecordInv' /\ RecordType'
  BY <1>1, <1>2, UpdatesTaken
<1> QED BY <1>2, <1>3 DEF RecordType

LEMMA RunKeeps ==
    ASSUME RecordType, RestType, RecordInv, RunInv, Run
    PROVE  RecordInv' /\ RecordType' /\ RunInv' /\ RestType'
<1>1. CASE Launch
  <2>1. EvidenceKept
    BY <1>1, EvidenceStays DEF Launch, history
  <2>2. task.status # "none"
    BY <1>1, ThereIsATask DEF Launch, IsRunning
  <2>3. /\ RecordInv' /\ RecordType' /\ UNCHANGED <<task, served>>
        /\ todo'["detector"] = todo["detector"]
    <3>1. <<Move("running", "working")>> \in Seq(HonestUpdates')
      BY <2>1, HonestLists, MoreUpdates
    <3>2. IsFree("thread")
      BY <1>1 DEF Launch, RunInv, Orderly, ThreadIsFree
    <3>3. Do("thread", <<Move("running", "working")>>)
      BY <1>1 DEF Launch
    <3> QED BY <2>1, <3>1, <3>2, <3>3, WriterTakes DEF Writer
  <2>4. RunInv'
    BY <1>1, <2>2, <2>3 DEF Launch, run, requests, history, IsRunning, RunInv, BuilderCanBeStopped,
                        ReviewsAsked, Fresh, Orderly, ThreadIsFree, IsFree
  <2>5. CountType'
    BY <1>1, <2>3 DEF Launch, requests, history, RestType, CountType
  <2>6. PlaceType'
    BY <1>1 DEF Launch, run, requests, history, Phase, RestType, PlaceType
  <2> QED BY <2>3, <2>4, <2>5, <2>6 DEF RestType
<1>2. CASE Spawn
  <2>1. EvidenceKept
    BY <1>2, EvidenceStays DEF Spawn, history, RunInv, Orderly
  <2>2. task.status # "none"
    BY <1>2, ThereIsATask DEF Spawn, IsRunning
  <2>3. RecordInv' /\ RecordType' /\ UNCHANGED <<task, todo, copy, served>>
    <3>1. UNCHANGED <<task, todo, copy, served>>
      BY <1>2 DEF Spawn, record
    <3> QED BY <2>1, <3>1, RecordKept
  <2>4. RunInv'
    BY <1>2, <2>2, <2>3 DEF Spawn, run, requests, history, IsRunning, RunInv, BuilderCanBeStopped,
                        ReviewsAsked, Fresh, Orderly, ThreadIsFree, IsFree
  <2>5. CountType'
    BY <1>2, <2>3 DEF Spawn, requests, history, RestType, CountType
  <2>6. PlaceType'
    BY <1>2 DEF Spawn, run, requests, history, Phase, RestType, PlaceType
  <2> QED BY <2>3, <2>4, <2>5, <2>6 DEF RestType
<1>3. CASE Track
  <2>1. EvidenceKept
    BY <1>3, EvidenceStays DEF Track, history
  <2>2. task.status # "none"
    BY <1>3, ThereIsATask DEF Track, IsRunning
  <2>3. RecordInv' /\ RecordType' /\ UNCHANGED <<task, todo, copy, served>>
    <3>1. UNCHANGED <<task, todo, copy, served>>
      BY <1>3 DEF Track, record
    <3> QED BY <2>1, <3>1, RecordKept
  <2>4. RunInv'
    BY <1>3, <2>2, <2>3 DEF Track, run, requests, history, IsRunning, RunInv, BuilderCanBeStopped,
                        ReviewsAsked, Fresh, Orderly, ThreadIsFree, IsFree
  <2>5. CountType'
    BY <1>3, <2>3 DEF Track, requests, history, RestType, CountType
  <2>6. PlaceType'
    BY <1>3 DEF Track, run, requests, history, Phase, RestType, PlaceType
  <2> QED BY <2>3, <2>4, <2>5, <2>6 DEF RestType
<1>4. CASE Reap
  <2>1. EvidenceKept
    BY <1>4, EvidenceStays DEF Reap, history
  <2>2. task.status # "none"
    BY <1>4, ThereIsATask DEF Reap, IsRunning
  <2>3. RecordInv' /\ RecordType' /\ UNCHANGED <<task, todo, copy, served>>
    <3>1. UNCHANGED <<task, todo, copy, served>>
      BY <1>4 DEF Reap, record
    <3> QED BY <2>1, <3>1, RecordKept
  <2>4. RunInv'
    BY <1>4, <2>2, <2>3 DEF Reap, run, requests, history, IsRunning, RunInv, BuilderCanBeStopped,
                        ReviewsAsked, Fresh, Orderly, ThreadIsFree, IsFree
  <2>5. CountType'
    BY <1>4, <2>3 DEF Reap, requests, history, RestType, CountType
  <2>6. PlaceType'
    BY <1>4 DEF Reap, run, requests, history, Phase, RestType, PlaceType
  <2> QED BY <2>3, <2>4, <2>5, <2>6 DEF RestType
<1>5. CASE RunCompletes
  <2>1. EvidenceKept
    BY <1>5, EvidenceStays DEF RunCompletes, history
  <2>2. task.status # "none"
    BY <1>5, ThereIsATask DEF RunCompletes, IsRunning
  <2>3. /\ RecordInv' /\ RecordType' /\ UNCHANGED <<task, served>>
        /\ todo'["detector"] = todo["detector"]
    <3>1. PICK verdict \in Verdict :
            Do("thread", <<MoveThen("completed_unverified", verdict, "completed")>>)
      BY <1>5 DEF RunCompletes
    <3>2. MoveThen("completed_unverified", verdict, "completed") \in HonestUpdates
      BY <1>5, HonestMoves DEF RunCompletes, Earned, Evidence, ExitedWell
    <3>3. <<MoveThen("completed_unverified", verdict, "completed")>> \in Seq(HonestUpdates')
      BY <2>1, <3>2, Lists, MoreUpdates
    <3>4. IsFree("thread")
      BY <1>5 DEF RunCompletes, RunInv, Orderly, ThreadIsFree
    <3> QED BY <2>1, <3>1, <3>3, <3>4, WriterTakes DEF Writer
  <2>4. RunInv'
    BY <1>5, <2>2, <2>3 DEF RunCompletes, run, requests, history, IsRunning, RunInv, BuilderCanBeStopped,
                        ReviewsAsked, Fresh, Orderly, ThreadIsFree, IsFree
  <2>5. CountType'
    BY <1>5, <2>3 DEF RunCompletes, requests, history, RestType, CountType
  <2>6. PlaceType'
    BY <1>5 DEF RunCompletes, run, requests, history, Phase, RestType, PlaceType
  <2> QED BY <2>3, <2>4, <2>5, <2>6 DEF RestType
<1>6. CASE RunFails
  <2>1. EvidenceKept
    BY <1>6, EvidenceStays DEF RunFails, history
  <2>2. task.status # "none"
    BY <1>6, ThereIsATask DEF RunFails, IsRunning
  <2>3. /\ RecordInv' /\ RecordType' /\ UNCHANGED <<task, served>>
        /\ todo'["detector"] = todo["detector"]
    <3>1. Failure \in Seq(HonestUpdates')
      BY <2>1, HonestLists, MoreUpdates
    <3>2. IsFree("thread")
      BY <1>6 DEF RunFails, RunInv, Orderly, ThreadIsFree
    <3>3. Do("thread", Failure)
      BY <1>6 DEF RunFails
    <3> QED BY <2>1, <3>1, <3>2, <3>3, WriterTakes DEF Writer
  <2>4. RunInv'
    BY <1>6, <2>2, <2>3 DEF RunFails, run, requests, history, IsRunning, RunInv, BuilderCanBeStopped,
                        ReviewsAsked, Fresh, Orderly, ThreadIsFree, IsFree
  <2>5. CountType'
    BY <1>6, <2>3 DEF RunFails, requests, history, RestType, CountType
  <2>6. PlaceType'
    BY <1>6 DEF RunFails, run, requests, history, Phase, RestType, PlaceType
  <2> QED BY <2>3, <2>4, <2>5, <2>6 DEF RestType
<1>7. CASE TimesOut
  <2>1. EvidenceKept
    BY <1>7, EvidenceStays DEF TimesOut, history, IsRunning
  <2>2. task.status # "none"
    BY <1>7, ThereIsATask DEF TimesOut, IsRunning
  <2>3. /\ RecordInv' /\ RecordType' /\ UNCHANGED <<task, served>>
        /\ todo'["detector"] = todo["detector"]
    <3>1. Failure \in Seq(HonestUpdates')
      BY <2>1, HonestLists, MoreUpdates
    <3>2. IsFree("thread")
      BY <1>7 DEF TimesOut, ThreadIsFree
    <3>3. Do("thread", Failure)
      BY <1>7 DEF TimesOut
    <3> QED BY <2>1, <3>1, <3>2, <3>3, WriterTakes DEF Writer
  <2>4. RunInv'
    BY <1>7, <2>2, <2>3 DEF TimesOut, run, requests, history, IsRunning, RunInv, BuilderCanBeStopped,
                        ReviewsAsked, Fresh, Orderly, ThreadIsFree, IsFree
  <2>5. CountType'
    BY <1>7, <2>3 DEF TimesOut, requests, history, RestType, CountType
  <2>6. PlaceType'
    BY <1>7 DEF TimesOut, run, requests, history, Phase, RestType, PlaceType
  <2> QED BY <2>3, <2>4, <2>5, <2>6 DEF RestType
<1>8. CASE GiveUp
  <2>1. EvidenceKept
    BY <1>8, EvidenceStays DEF GiveUp, history, IsRunning
  <2>2. task.status # "none"
    BY <1>8, ThereIsATask DEF GiveUp, IsRunning
  <2>3. /\ RecordInv' /\ RecordType' /\ UNCHANGED <<task, served>>
        /\ todo'["detector"] = todo["detector"]
    <3>1. Failure \in Seq(HonestUpdates')
      BY <2>1, HonestLists, MoreUpdates
    <3>2. IsFree("thread")
      BY <1>8 DEF GiveUp, ThreadIsFree
    <3>3. Do("thread", Failure)
      BY <1>8 DEF GiveUp
    <3> QED BY <2>1, <3>1, <3>2, <3>3, WriterTakes DEF Writer
  <2>4. RunInv'
    BY <1>8, <2>2, <2>3 DEF GiveUp, run, requests, history, IsRunning, RunInv, BuilderCanBeStopped,
                        ReviewsAsked, Fresh, Orderly, ThreadIsFree, IsFree
  <2>5. CountType'
    BY <1>8, <2>3 DEF GiveUp, requests, history, RestType, CountType
  <2>6. PlaceType'
    BY <1>8 DEF GiveUp, run, requests, history, Phase, RestType, PlaceType
  <2> QED BY <2>3, <2>4, <2>5, <2>6 DEF RestType
<1>9. CASE NoteActivity
  <2>1. EvidenceKept
    BY <1>9, EvidenceStays DEF NoteActivity, history, run
  <2>2. task.status # "none"
    BY <1>9, ThereIsATask DEF NoteActivity, IsRunning
  <2>3. /\ RecordInv' /\ RecordType' /\ UNCHANGED <<task, served>>
        /\ todo'["detector"] = todo["detector"]
    <3>1. <<Touch>> \in Seq(HonestUpdates')
      BY <2>1, HonestLists, MoreUpdates
    <3>2. IsFree("thread")
      BY <1>9 DEF NoteActivity, ThreadIsFree
    <3>3. Do("thread", <<Touch>>)
      BY <1>9 DEF NoteActivity
    <3> QED BY <2>1, <3>1, <3>2, <3>3, WriterTakes DEF Writer
  <2>4. RunInv'
    BY <1>9, <2>2, <2>3 DEF NoteActivity, run, requests, history, IsRunning, RunInv, BuilderCanBeStopped,
                        ReviewsAsked, Fresh, Orderly, ThreadIsFree, IsFree
  <2>5. CountType'
    BY <1>9, <2>3 DEF NoteActivity, requests, history, RestType, CountType
  <2>6. PlaceType'
    BY <1>9 DEF NoteActivity, run, requests, history, Phase, RestType, PlaceType
  <2> QED BY <2>3, <2>4, <2>5, <2>6 DEF RestType
<1>10. CASE ReportBlock
  <2>1. EvidenceKept
    BY <1>10, EvidenceStays DEF ReportBlock, history, run
  <2>2. task.status # "none"
    BY <1>10, ThereIsATask DEF ReportBlock, IsRunning
  <2>3. /\ RecordInv' /\ RecordType' /\ UNCHANGED <<task, served>>
        /\ todo'["detector"] = todo["detector"]
    <3>1. <<Move("blocked", "")>> \in Seq(HonestUpdates')
      BY <2>1, HonestLists, MoreUpdates
    <3>2. IsFree("thread")
      BY <1>10 DEF ReportBlock, ThreadIsFree
    <3>3. Do("thread", <<Move("blocked", "")>>)
      BY <1>10 DEF ReportBlock
    <3> QED BY <2>1, <3>1, <3>2, <3>3, WriterTakes DEF Writer
  <2>4. RunInv'
    BY <1>10, <2>2, <2>3 DEF ReportBlock, run, requests, history, IsRunning, RunInv, BuilderCanBeStopped,
                        ReviewsAsked, Fresh, Orderly, ThreadIsFree, IsFree
  <2>5. CountType'
    BY <1>10, <2>3 DEF ReportBlock, requests, history, RestType, CountType
  <2>6. PlaceType'
    BY <1>10 DEF ReportBlock, run, requests, history, Phase, RestType, PlaceType
  <2> QED BY <2>3, <2>4, <2>5, <2>6 DEF RestType
<1>11. CASE ProcessEnds
  <2>1. EvidenceKept
    BY <1>11, EvidenceStays DEF ProcessEnds, history, IsRunning
  <2>2. task.status # "none"
    BY <1>11, ThereIsATask DEF ProcessEnds, IsRunning
  <2>3. RecordInv' /\ RecordType' /\ UNCHANGED <<task, todo, copy, served>>
    <3>1. UNCHANGED <<task, todo, copy, served>>
      BY <1>11 DEF ProcessEnds, record
    <3> QED BY <2>1, <3>1, RecordKept
  <2>4. RunInv'
    BY <1>11, <2>2, <2>3 DEF ProcessEnds, run, requests, history, IsRunning, RunInv, BuilderCanBeStopped,
                        ReviewsAsked, Fresh, Orderly, ThreadIsFree, IsFree
  <2>5. CountType'
    BY <1>11, <2>3 DEF ProcessEnds, requests, history, RestType, CountType
  <2>6. PlaceType'
    BY <1>11 DEF ProcessEnds, run, requests, history, Phase, RestType, PlaceType
  <2> QED BY <2>3, <2>4, <2>5, <2>6 DEF RestType
<1>12. CASE RunBreaks
  <2>1. EvidenceKept
    BY <1>12, EvidenceStays DEF RunBreaks, history
  <2>2. task.status # "none"
    BY <1>12, ThereIsATask DEF RunBreaks, IsRunning
  <2>3. /\ RecordInv' /\ RecordType' /\ UNCHANGED <<task, served>>
        /\ todo'["detector"] = todo["detector"]
    <3>1. Failure \in Seq(HonestUpdates')
      BY <2>1, HonestLists, MoreUpdates
    <3>2. IsFree("thread")
      BY <1>12 DEF RunBreaks, ThreadIsFree
    <3>3. Do("thread", Failure)
      BY <1>12 DEF RunBreaks
    <3> QED BY <2>1, <3>1, <3>2, <3>3, WriterTakes DEF Writer
  <2>4. RunInv'
    BY <1>12, <2>2, <2>3 DEF RunBreaks, run, requests, history, IsRunning, RunInv, BuilderCanBeStopped,
                        ReviewsAsked, Fresh, Orderly, ThreadIsFree, IsFree
  <2>5. CountType'
    BY <1>12, <2>3 DEF RunBreaks, requests, history, RestType, CountType
  <2>6. PlaceType'
    BY <1>12 DEF RunBreaks, run, requests, history, Phase, RestType, PlaceType
  <2> QED BY <2>3, <2>4, <2>5, <2>6 DEF RestType
<1> QED
  BY <1>1, <1>2, <1>3, <1>4, <1>5, <1>6, <1>7, <1>8, <1>9, <1>10, <1>11, <1>12
  DEF Run, ThreadGoesOn

LEMMA DetectorKeeps ==
    ASSUME RecordType, RestType, RecordInv, RunInv, Detector
    PROVE  RecordInv' /\ RecordType' /\ RunInv' /\ RestType'
<1> USE DEF run, requests, history
<1>1. CASE SweepBegin
  <2>1. EvidenceKept
    BY <1>1, EvidenceStays DEF SweepBegin
  <2>2. RecordInv' /\ RecordType' /\ UNCHANGED <<task, todo, served>>
    <3>1. UNCHANGED <<task, todo, copy, served>>
      BY <1>1 DEF SweepBegin, record
    <3> QED BY <2>1, <3>1, RecordKept
  <2>3. RunInv'
    BY <1>1, <2>2 DEF SweepBegin, RunInv, BuilderCanBeStopped, ReviewsAsked, Fresh, Orderly,
                      ThreadIsFree, IsFree
  <2>4. CountType'
    BY <1>1, <2>2 DEF SweepBegin, RestType, CountType
  <2>5. PlaceType'
    BY <1>1 DEF SweepBegin, RestType, PlaceType
  <2> QED BY <2>2, <2>3, <2>4, <2>5 DEF RestType
<1>2. ASSUME sweep PROVE IsFree("detector") /\ task.status # "none"
  BY <1>2, ThereIsATask DEF RunInv, Orderly
<1>3. CASE SweepResolve
  <2>1. EvidenceKept
    BY <1>3, EvidenceStays DEF SweepResolve
  <2>2. /\ RecordInv' /\ RecordType' /\ UNCHANGED <<task, served>>
        /\ todo'["thread"] = todo["thread"]
    <3>1. Set("completed") \in HonestUpdates'
      BY <1>3 DEF SweepResolve, HonestUpdates, Set, Update, State, Status, Verdict
    <3>2. <<Set("completed")>> \in Seq(HonestUpdates')
      BY <3>1, Lists
    <3>3. IsFree("detector") /\ Do("detector", <<Set("completed")>>)
      BY <1>2, <1>3 DEF SweepResolve
    <3> QED BY <2>1, <3>2, <3>3, WriterTakes DEF Writer
  <2>3. /\ process = "none" => process' = "none"
        /\ process' = "alive" => process = "alive" /\ ~tracked
    BY <1>3 DEF SweepResolve, KillTracked, IsRunning
  <2>4. RunInv'
    BY <1>2, <1>3, <2>2, <2>3 DEF SweepResolve, RunInv, BuilderCanBeStopped, ReviewsAsked,
                            Fresh, Orderly, ThreadIsFree, IsFree
  <2>5. CountType'
    BY <1>3, <2>2 DEF SweepResolve, RestType, CountType
  <2>6. PlaceType'
    BY <1>3 DEF SweepResolve, KillTracked, RestType, PlaceType
  <2> QED BY <2>2, <2>4, <2>5, <2>6 DEF RestType
<1>4. CASE SweepDead
  <2>1. EvidenceKept
    BY <1>4, EvidenceStays DEF SweepDead
  <2>2. /\ RecordInv' /\ RecordType' /\ UNCHANGED <<task, served>>
        /\ todo'["thread"] = todo["thread"]
    <3>1. <<Move("failed_retryable", "")>> \in Seq(HonestUpdates')
      BY <2>1, HonestLists, MoreUpdates
    <3>2. IsFree("detector") /\ Do("detector", <<Move("failed_retryable", "")>>)
      BY <1>2, <1>4 DEF SweepDead
    <3> QED BY <2>1, <3>1, <3>2, WriterTakes DEF Writer
  <2>3. RunInv'
    BY <1>2, <1>4, <2>2 DEF SweepDead, ProcessIsGone, RunInv, BuilderCanBeStopped,
                            ReviewsAsked, Fresh, Orderly, ThreadIsFree, IsFree
  <2>4. CountType'
    BY <1>4, <2>2 DEF SweepDead, RestType, CountType
  <2>5. PlaceType'
    BY <1>4 DEF SweepDead, RestType, PlaceType
  <2> QED BY <2>2, <2>3, <2>4, <2>5 DEF RestType
<1>5. CASE SweepOrphan
  <2>1. EvidenceKept
    BY <1>5, EvidenceStays DEF SweepOrphan
  <2>2. /\ RecordInv' /\ RecordType' /\ UNCHANGED <<task, served>>
        /\ todo'["thread"] = todo["thread"]
    <3>1. <<Set("failed"), Move("failed_retryable", "")>> \in Seq(HonestUpdates')
      BY <2>1, HonestLists, MoreUpdates
    <3>2. /\ IsFree("detector")
          /\ Do("detector", <<Set("failed"), Move("failed_retryable", "")>>)
      BY <1>2, <1>5 DEF SweepOrphan
    <3> QED BY <2>1, <3>1, <3>2, WriterTakes DEF Writer
  <2>3. RunInv'
    BY <1>2, <1>5, <2>2 DEF SweepOrphan, RunInv, BuilderCanBeStopped, ReviewsAsked, Fresh,
                            Orderly, ThreadIsFree, IsFree
  <2>4. CountType'
    BY <1>5, <2>2 DEF SweepOrphan, RestType, CountType
  <2>5. PlaceType'
    BY <1>5 DEF SweepOrphan, RestType, PlaceType
  <2> QED BY <2>2, <2>3, <2>4, <2>5 DEF RestType
<1>6. CASE SweepNothing
  <2>1. EvidenceKept
    BY <1>6, EvidenceStays DEF SweepNothing
  <2>2. RecordInv' /\ RecordType' /\ UNCHANGED <<task, todo, served>>
    <3>1. UNCHANGED <<task, todo, copy, served>>
      BY <1>6 DEF SweepNothing, record
    <3> QED BY <2>1, <3>1, RecordKept
  <2>3. RunInv'
    BY <1>6, <2>2 DEF SweepNothing, RunInv, BuilderCanBeStopped, ReviewsAsked, Fresh, Orderly,
                      ThreadIsFree, IsFree
  <2>4. CountType'
    BY <1>6, <2>2 DEF SweepNothing, RestType, CountType
  <2>5. PlaceType'
    BY <1>6 DEF SweepNothing, RestType, PlaceType
  <2> QED BY <2>2, <2>3, <2>4, <2>5 DEF RestType
<1> QED BY <1>1, <1>3, <1>4, <1>5, <1>6 DEF Detector

LEMMA RestartKeeps ==
    ASSUME RecordType, RestType, RecordInv, RunInv, Restart
    PROVE  RecordInv' /\ RecordType' /\ RunInv' /\ RestType'
<1>1. Honest' /\ RecordType'
  BY DEF Restart, Honest, RecordType
<1>2. CompletionEarned' /\ StatusReviewed'
  BY DEF Restart, RecordInv, CompletionEarned, StatusReviewed, ExitedWell
<1>3. RunInv'
  <2>1. \A w \in Writer : todo'[w] = <<>>
    BY DEF Restart
  <2>2. ReviewsAsked'
    BY DEF Restart, ReviewsAsked
  <2>3. Fresh'
    BY DEF Restart, RunInv, Fresh
  <2> QED
    BY <2>1, <2>2, <2>3 DEF Restart, RunInv, BuilderCanBeStopped, Orderly, ThreadIsFree,
                            IsFree, Writer
<1>4. CountType'
  BY LifecycleAssumption DEF Restart, RestType, CountType, LifecycleAssumption
<1>5. PlaceType'
  BY DEF Restart, Phase, RestType, PlaceType
<1> QED BY <1>1, <1>2, <1>3, <1>4, <1>5 DEF RecordInv, RestType

LEMMA WritesKeep ==
    ASSUME RecordType, RestType, RecordInv, RunInv, NEW w \in Writer, Writes(w)
    PROVE  RecordInv' /\ RecordType' /\ RunInv' /\ RestType'
<1>1. todo[w] # <<>>
  BY WriteKeeps DEF Writes, Read, Refuse, IsFree
<1>2. task.status # "none"
  BY <1>1 DEF RunInv, Fresh
<1>3. RecordInv' /\ RecordType'
  BY <1>2, ReadKeeps, RefuseKeeps, WriteKeeps DEF Writes
<1>4. task'.status # "none"
  BY <1>2, WriteKeeps DEF Writes, Read, Refuse
<1>5. \A v \in Writer \ {w} : todo'[v] = todo[v]
  BY DEF Writes, Read, Refuse, Write, RecordType
<1>6. /\ UNCHANGED <<served, target, run, requests, subtasks, sweep>>
      /\ UNCHANGED <<accepted, offers, reported, resolved, archived, restarts>>
      /\ restored' \in {restored, restored + 1}
  BY DEF Writes, Read, Refuse, Write, history
<1>7. RunInv'
  <2>1. ReviewsAsked'
    BY <1>6 DEF RunInv, ReviewsAsked, requests
  <2>2. Fresh'
    BY <1>4 DEF Fresh
  <2>3. BuilderCanBeStopped'
    BY <1>6 DEF RunInv, BuilderCanBeStopped, run
  <2>4. Orderly'
    BY <1>1, <1>5, <1>6 DEF RunInv, Orderly, ThreadIsFree, IsFree, Writer, run
  <2> QED BY <2>1, <2>2, <2>3, <2>4 DEF RunInv
<1>8. CountType'
  BY <1>6 DEF RestType, CountType, requests
<1>9. PlaceType'
  BY <1>6 DEF RestType, PlaceType, run, requests
<1> QED BY <1>3, <1>7, <1>8, <1>9 DEF RestType

-----------------------------------------------------------------------------
(* The theorems.                                                           *)

LEMMA InitInv == Init => Inv
<1> SUFFICES ASSUME Init PROVE Inv
  OBVIOUS
<1>1. /\ task = [v2_state |-> "new", status |-> "none"]
      /\ todo = [w \in Writer |-> <<>>] /\ copy = [w \in Writer |-> NoCopy]
      /\ target = "unset" /\ thread = "none" /\ process = "none" /\ subtasks = "none"
      /\ message = [m \in Message |-> "unsent"]
      /\ ~queued /\ ~tracked /\ ~sweep
  BY DEF Init
<1>2. /\ served = 0 /\ restarts = 0
      /\ reviewing = 0 /\ promoting = 0 /\ accepted = 0 /\ offers = 0 /\ restored = 0
  BY DEF Init
<1>3. RecordType
  <2>1. <<>> \in Seq(Update)
    OBVIOUS
  <2>2. task \in Record
    BY <1>1 DEF Record, State, Status
  <2>3. todo \in [Writer -> Seq(Update)] /\ copy \in [Writer -> Record \cup {NoCopy}]
    BY <1>1, <2>1, Zenon
  <2> QED BY <2>2, <2>3 DEF RecordType
<1>4. RecordInv
  <2>1. Honest
    <3>1. <<>> \in Seq(HonestUpdates)
      OBVIOUS
    <3>2. \A w \in Writer : todo[w] = <<>> /\ copy[w] = NoCopy
      BY <1>1
    <3> QED BY <3>1, <3>2 DEF Honest
  <2>2. CompletionEarned /\ StatusReviewed
    BY <1>1 DEF CompletionEarned, StatusReviewed
  <2> QED BY <2>1, <2>2 DEF RecordInv
<1>5. RunInv
  <2>1. BuilderCanBeStopped /\ Orderly
    BY <1>1 DEF BuilderCanBeStopped, Orderly
  <2>2. ReviewsAsked
    BY <1>2 DEF ReviewsAsked
  <2>3. Fresh
    BY <1>1, <1>2 DEF Fresh
  <2> QED BY <2>1, <2>2, <2>3 DEF RunInv
<1>6. CountType
  BY <1>2, LifecycleAssumption DEF CountType, LifecycleAssumption
<1>7. PlaceType
  <2>1. /\ queued \in BOOLEAN /\ tracked \in BOOLEAN /\ sweep \in BOOLEAN
        /\ reported \in BOOLEAN /\ resolved \in BOOLEAN /\ archived \in BOOLEAN
    BY DEF Init
  <2> QED BY <1>1, <2>1 DEF PlaceType, Phase
<1> QED BY <1>3, <1>4, <1>5, <1>6, <1>7, InvParts DEF RestType

LEMMA NextKeeps == Inv /\ [Next]_vars => Inv'
<1> SUFFICES ASSUME RecordType, RestType, RecordInv, RunInv, [Next]_vars
             PROVE  RecordType' /\ RestType' /\ RecordInv' /\ RunInv'
  <2>1. (Inv <=> RecordType /\ RestType /\ RecordInv /\ RunInv)'
    BY DEF Inv, TypeOK, LifecycleInv, RecordType, RestType, CountType, PlaceType, RecordInv,
           RunInv, Reviewed, StatusReviewed, ReviewsAsked
  <2> QED BY <2>1, InvParts
<1>1. CASE Executor
  BY <1>1, ExecutorKeeps
<1>2. CASE Operator
  BY <1>2, OperatorKeeps
<1>3. CASE Question
  BY <1>3, QuestionKeeps DEF Question
<1>4. CASE Run
  BY <1>4, RunKeeps
<1>5. CASE Detector
  BY <1>5, DetectorKeeps
<1>6. CASE Restart
  BY <1>6, RestartKeeps
<1>7. CASE \E w \in Writer : Writes(w)
  BY <1>7, WritesKeep
<1>8. CASE UNCHANGED vars
  <2> USE <1>8 DEF vars
  <2>1. RecordType'
    BY DEF RecordType
  <2>2. Honest' /\ CompletionEarned' /\ StatusReviewed'
    BY DEF RecordInv, Honest, HonestUpdates, HonestRecords, CompletionEarned,
           StatusReviewed, ExitedWell
  <2>3. BuilderCanBeStopped' /\ ReviewsAsked' /\ Fresh' /\ Orderly'
    BY DEF RunInv, BuilderCanBeStopped, ReviewsAsked, Fresh, Orderly, ThreadIsFree, IsFree
  <2>4. CountType'
    BY DEF RestType, CountType
  <2>5. PlaceType'
    BY DEF RestType, PlaceType
  <2> QED BY <2>1, <2>2, <2>3, <2>4, <2>5 DEF RecordInv, RunInv, RestType
<1> QED
  BY <1>1, <1>2, <1>3, <1>4, <1>5, <1>6, <1>7, <1>8 DEF Next

\* The inductive invariant holds.
THEOREM InvHolds == Spec => []Inv
BY InitInv, NextKeeps, PTL DEF Spec

\* The record, the writers' updates and everything else keep their types.
THEOREM TypeCorrect == Spec => []TypeOK
<1>1. Inv => TypeOK
  BY DEF Inv
<1> QED BY <1>1, InvHolds, PTL

\* What the writers are about to write is backed by evidence, and every part of the
\* task's run is where the others assume it.
THEOREM LifecycleCorrect == Spec => []LifecycleInv
<1>1. Inv => LifecycleInv
  BY DEF Inv
<1> QED BY <1>1, InvHolds, PTL

\* Nothing is completed without a builder's exit, a report or finished subtasks.
THEOREM CompletionsEarned == Spec => []CompletionEarned
<1>1. Inv => CompletionEarned
  BY DEF Inv, LifecycleInv
<1> QED BY <1>1, InvHolds, PTL

\* A builder whose output is followed is known to _active_pids or told to end.
THEOREM BuildersCanBeStopped == Spec => []BuilderCanBeStopped
<1>1. Inv => BuilderCanBeStopped
  BY DEF Inv, LifecycleInv
<1> QED BY <1>1, InvHolds, PTL

-----------------------------------------------------------------------------
(* The force-failed task stays escalated.                                  *)

LEMMA OnlyWritersMove ==
    ASSUME RecordType, Executor \/ Operator \/ Question \/ Run \/ Detector
    PROVE  task'.v2_state = task.v2_state /\ copy' = copy
<1> USE DEF Serve, Do, record
<1>1. CASE Executor
  BY <1>1 DEF Executor, Accept, Complete, AskForReview, UpdateSubtasks
<1>2. CASE Operator
  <2>1. CASE Execute \/ CreateIdea
    BY <2>1 DEF Execute, CreateIdea, RecordType, Record
  <2>2. CASE PromoteBegin \/ Promote \/ ReviewBegin \/ Review
    BY <2>2 DEF PromoteBegin, Promote, ReviewBegin, Review
  <2>3. CASE Validate \/ Cancel \/ Archive \/ ForceFail
    BY <2>3 DEF Validate, Cancel, Archive, ForceFail
  <2> QED BY <1>2, <2>1, <2>2, <2>3 DEF Operator
<1>3. CASE Question
  BY <1>3 DEF Question, Ask, Respond
<1>4. CASE Run
  <2>1. CASE Launch \/ NoteActivity \/ ReportBlock \/ RunCompletes
    BY <2>1 DEF Launch, NoteActivity, ReportBlock, RunCompletes
  <2>2. CASE RunFails \/ TimesOut \/ GiveUp \/ RunBreaks
    BY <2>2 DEF RunFails, TimesOut, GiveUp, RunBreaks
  <2>3. CASE Spawn \/ Track \/ Reap \/ ProcessEnds
    BY <2>3 DEF Spawn, Track, Reap, ProcessEnds
  <2> QED BY <1>4, <2>1, <2>2, <2>3 DEF Run, ThreadGoesOn
<1>5. CASE Detector
  BY <1>5 DEF Detector, SweepBegin, SweepResolve, SweepDead, SweepOrphan, SweepNothing
<1> QED BY <1>1, <1>2, <1>3, <1>4, <1>5

LEMMA WritesStayEscalated ==
    ASSUME RecordType, RecordInv, NEW w \in Writer, Writes(w), Escalated
    PROVE  Escalated'
<1>1. CASE Read(w)
  <2> DEFINE u == Head(todo[w])
  <2>1. u \in HonestUpdates /\ copy[w] = NoCopy
    BY <1>1, HonestWriter DEF Read, IsFree
  <2>2. u.kind # "move"
    BY <1>1 DEF Read, Legal, ValidTransitions, Escalated, State
  <2>3. Changed(u).v2_state = "escalated"
    <3>1. CASE u.kind = "put"
      BY <2>1, <3>1 DEF Changed, HonestUpdates
    <3>2. CASE u.kind = "set" /\ u.status = ""
      BY <3>2 DEF Changed, Escalated
    <3>3. CASE u.kind = "set" /\ u.status # ""
      <4>1. Changed(u) = [task EXCEPT !.status = u.status]
        BY <3>3 DEF Changed
      <4> QED BY <4>1 DEF Escalated, RecordType, Record
    <3> QED BY <2>1, <2>2, <3>1, <3>2, <3>3 DEF HonestUpdates, Update
  <2>4. task' = task /\ copy' = [copy EXCEPT ![w] = Changed(u)]
    BY <1>1 DEF Read
  <2> HIDE DEF u
  <2> QED BY <2>3, <2>4 DEF Escalated, RecordType
<1>2. CASE Refuse(w)
  BY <1>2 DEF Refuse, Escalated
<1>3. CASE Write(w)
  <2>1. copy[w].v2_state = "escalated"
    <3>1. copy[w] \in Record
      BY <1>3 DEF Write, RecordType
    <3> QED BY <3>1 DEF Escalated, Record, State
  <2>2. task' = copy[w] /\ copy' = [copy EXCEPT ![w] = NoCopy]
    BY <1>3 DEF Write
  <2> QED BY <2>1, <2>2 DEF Escalated, RecordType, NoCopy
<1> QED BY <1>1, <1>2, <1>3 DEF Writes

\* What is force-failed stays so, unless somebody held an older copy.
THEOREM EscalationStays == Spec => EscalatedStays
<1>1. Inv /\ [Next]_vars => [Escalated => Escalated']_vars
  <2> SUFFICES ASSUME RecordType, RecordInv, [Next]_vars, Escalated
               PROVE  Escalated'
    BY InvParts
  <2>1. CASE Executor \/ Operator \/ Question \/ Run \/ Detector
    BY <2>1, OnlyWritersMove DEF Escalated
  <2>2. CASE Restart
    BY <2>2 DEF Restart, Escalated, NoCopy
  <2>3. CASE \E w \in Writer : Writes(w)
    BY <2>3, WritesStayEscalated
  <2>4. CASE UNCHANGED vars
    BY <2>4 DEF vars, Escalated
  <2> QED BY <2>1, <2>2, <2>3, <2>4 DEF Next
<1> QED BY <1>1, InvHolds, PTL DEF Spec, EscalatedStays

-----------------------------------------------------------------------------
(* No more executors than offers.                                          *)

LEMMA PlainOnes ==
    /\ \A s \in Status \ {"pending", "idea"} : Set(s) \in PlainUpdates
    /\ \A to \in {"running", "blocked", "failed_retryable", "completed_verified",
                  "completed_unverified"} :
        \A after \in Verdict, s \in {"", "working", "failed", "completed"} :
          MoveThen(to, after, s) \in PlainUpdates
    /\ Put("escalated", "failed") \in PlainUpdates
BY DEF PlainUpdates, Set, MoveThen, Put, Update, State, Status, Verdict

LEMMA PlainMoves ==
    /\ \A to \in {"running", "blocked", "failed_retryable", "completed_verified"} :
           <<Move(to, "")>> \in Seq(PlainUpdates)
    /\ \A after \in Verdict :
           /\ <<MoveThen("completed_unverified", after, "completed")>> \in Seq(PlainUpdates)
           /\ <<MoveThen("completed_unverified", after, ""), Set("completed")>>
                  \in Seq(PlainUpdates)
    /\ <<Move("running", "working")>> \in Seq(PlainUpdates)
    /\ Failure \in Seq(PlainUpdates)
<1>1. \A after \in Verdict :
        /\ MoveThen("completed_unverified", after, "completed") \in PlainUpdates
        /\ MoveThen("completed_unverified", after, "") \in PlainUpdates
  BY PlainOnes
<1>2. \A to \in {"running", "blocked", "failed_retryable", "completed_verified"} :
        \A s \in {"", "working", "failed"} : Move(to, s) \in PlainUpdates
  BY PlainOnes DEF Move, Verdict
<1>3. Set("completed") \in PlainUpdates
  BY PlainOnes DEF Status
<1> QED BY <1>1, <1>2, <1>3, Lists, Zenon DEF Failure

LEMMA PlainLists ==
    /\ <<>> \in Seq(PlainUpdates)
    /\ <<Set("working")>> \in Seq(PlainUpdates)
    /\ <<Set("qa_review")>> \in Seq(PlainUpdates)
    /\ <<Set("cancelled")>> \in Seq(PlainUpdates)
    /\ <<Set("completed")>> \in Seq(PlainUpdates)
    /\ <<Put("escalated", "failed")>> \in Seq(PlainUpdates)
    /\ <<Move("running", ""), Set("working")>> \in Seq(PlainUpdates)
    /\ <<Move("blocked", ""), Set("waiting_for_pm")>> \in Seq(PlainUpdates)
    /\ <<Move("failed_retryable", ""), Set("failed")>> \in Seq(PlainUpdates)
    /\ <<Set("failed"), Move("failed_retryable", "")>> \in Seq(PlainUpdates)
    /\ <<Move("completed_verified", ""), Set("completed")>> \in Seq(PlainUpdates)
<1>1. \A to \in {"running", "blocked", "failed_retryable", "completed_verified"} :
        Move(to, "") \in PlainUpdates
  BY PlainOnes DEF Move, Verdict
<1>2. /\ Set("working") \in PlainUpdates /\ Set("qa_review") \in PlainUpdates
      /\ Set("cancelled") \in PlainUpdates /\ Set("completed") \in PlainUpdates
      /\ Set("failed") \in PlainUpdates /\ Set("waiting_for_pm") \in PlainUpdates
  BY PlainOnes DEF Status
<1> QED BY <1>1, <1>2, PlainOnes, Lists, Zenon

\* A promotion and a touch are not among the plain updates.
LEMMA NotPlain ==
    /\ Promotion \notin Seq(PlainUpdates) /\ <<Touch>> \notin Seq(PlainUpdates)
    /\ Promotion # <<Touch>>
<1>1. Set("pending") \notin PlainUpdates /\ Touch \notin PlainUpdates
  BY DEF PlainUpdates, Set, Touch
<1>2. \A x, S : <<x>> \in Seq(S) => x \in S
  <2> TAKE x, S
  <2> HAVE <<x>> \in Seq(S)
  <2>1. <<x>>[1] \in S
    BY ElementOfSeq
  <2> QED BY <2>1
<1>3. Promotion # <<Touch>>
  <2>1. Promotion[1] # Touch
    BY DEF Promotion, Set, Touch
  <2> QED BY <2>1
<1> QED BY <1>1, <1>2, <1>3 DEF Promotion

LEMMA NotEmpty ==
    <<>> # Promotion /\ <<>> # <<Touch>> /\ <<>> \notin Acceptance /\ <<>> \notin Start
<1>1. \A x, y : <<x>> # <<>> /\ <<x, y>> # <<>>
  OBVIOUS
<1> QED BY <1>1, Zenon DEF Promotion, Acceptance, Start

\* A step that leaves the record and the balance of offers as they are, and gives at
\* most one free thread plain updates to make.
LEMMA OffersKept ==
    ASSUME RecordType, OffersInv,
           UNCHANGED <<task, copy, accepted, offers, restarts, restored, archived>>,
           \/ todo' = todo
           \/ \E w \in Writer : \E updates \in Seq(PlainUpdates) :
                 todo[w] = <<>> /\ todo' = [todo EXCEPT ![w] = updates],
           queued' => queued,
           thread' # "none" => \/ thread # "none"
                               \/ queued /\ todo'["thread"] \in Start,
           todo'["thread"] = <<Touch>> => thread' = thread,
           queued \/ thread # "none" => promoting' = 0
    PROVE  OffersInv'
<1> USE DEF OffersInv
<1>1. \A w \in Writer :
         \/ todo'[w] = todo[w]
         \/ todo[w] = <<>> /\ todo'[w] \in Seq(PlainUpdates)
  BY DEF RecordType
<1>3. "loop" \in Writer /\ "thread" \in Writer /\ "detector" \in Writer
  BY DEF Writer
<1>4. OnlyPromotionOffers'
  <2>1. /\ todo'["loop"] \in Seq(PlainUpdates) \cup {Promotion, <<Touch>>}
        /\ todo'["thread"] \in Seq(PlainUpdates) \cup {<<Touch>>}
        /\ todo'["detector"] \in Seq(PlainUpdates)
    BY <1>1, <1>3 DEF OnlyPromotionOffers
  <2>2. /\ todo'["loop"] = <<Touch>> => archived
        /\ todo'["thread"] = <<Touch>> => thread' # "none"
    BY <1>1, <1>3, NotPlain DEF OnlyPromotionOffers
  <2>3. \A w \in Writer :
           /\ copy[w].status = "idea" => w = "loop" /\ todo'["loop"] = <<Touch>>
           /\ copy[w].status = "pending" =>
                 (w = "loop" /\ todo'["loop"] = Promotion) \/ (todo'[w] = <<Touch>> /\ archived)
    BY <1>1, <1>3, NotEmpty DEF OnlyPromotionOffers
  <2> QED BY <2>1, <2>2, <2>3 DEF OnlyPromotionOffers
<1>5. RunsAlone'
  BY <1>1, <1>3, NotPlain DEF RunsAlone
<1>6. Started'
  BY <1>1, <1>3, NotEmpty DEF Started
<1>7. AcceptedPerOffer' /\ (task.status = "pending" => OfferLeft \/ todo["loop"] \in Acceptance)'
  BY <1>1, <1>3, NotEmpty DEF AcceptedPerOffer, OfferLeft
<1>8. (todo["loop"] = Promotion => OfferLeft)'
  BY <1>1, <1>3, NotPlain DEF OfferLeft
<1> QED BY <1>4, <1>5, <1>6, <1>7, <1>8

Taken ==
    \/ todo' = todo
    \/ \E w \in Writer : \E updates \in Seq(PlainUpdates) :
          todo[w] = <<>> /\ todo' = [todo EXCEPT ![w] = updates]

\* What the actions do to the updates, in the words of OffersKept.
LEMMA TakenBy ==
    ASSUME RecordType, NEW updates \in Seq(PlainUpdates), NEW w \in Writer,
           \/ Serve(updates)
           \/ IsFree(w) /\ Do(w, updates)
    PROVE  /\ Taken /\ UNCHANGED <<task, copy>>
           /\ todo["thread"] # <<>> => todo'["thread"] = todo["thread"]
           /\ \/ todo'["thread"] = todo["thread"]
              \/ w = "thread" /\ todo'["thread"] = updates
BY DEF Taken, Serve, Do, LoopIsFree, IsFree, Writer, RecordType

LEMMA ExecutorKeepsOffers ==
    ASSUME RecordType, OffersInv, Complete \/ AskForReview \/ UpdateSubtasks
    PROVE  OffersInv'
<1>1. /\ UNCHANGED <<accepted, offers, restarts, restored, archived>>
      /\ UNCHANGED <<queued, thread, promoting>>
  BY DEF Complete, AskForReview, UpdateSubtasks, run, requests, history
<1>2. \E updates \in Seq(PlainUpdates) : Serve(updates)
  <2>1. CASE Complete
    BY <2>1, PlainMoves DEF Complete
  <2>2. CASE AskForReview \/ UpdateSubtasks
    BY <2>2, PlainLists DEF AskForReview, UpdateSubtasks
  <2> QED BY <2>1, <2>2
<1>3. /\ Taken /\ UNCHANGED <<task, copy>>
      /\ todo["thread"] # <<>> => todo'["thread"] = todo["thread"]
  BY <1>2, TakenBy DEF Writer
<1> QED
  BY <1>1, <1>3, OffersKept DEF Taken, OffersInv, RunsAlone

LEMMA OperatorKeepsOffers ==
    ASSUME RecordType, OffersInv,
           PromoteBegin \/ ReviewBegin \/ Review \/ Validate \/ Cancel \/ ForceFail
    PROVE  OffersInv'
<1>1. /\ UNCHANGED <<accepted, offers, restarts, restored, archived>>
      /\ UNCHANGED <<queued, thread>>
  BY DEF PromoteBegin, ReviewBegin, Review, Validate, Cancel, ForceFail, run, requests, history
<1>2. \E updates \in Seq(PlainUpdates) :
          Serve(updates) \/ (IsFree("loop") /\ Do("loop", updates))
  <2>1. CASE PromoteBegin \/ ReviewBegin
    <3>1. Serve(<<>>) /\ <<>> \in Seq(PlainUpdates)
      BY <2>1, PlainLists DEF PromoteBegin, ReviewBegin
    <3> QED BY <3>1, Zenon
  <2>2. CASE Review
    BY <2>2, PlainLists DEF Review, LoopIsFree
  <2>3. CASE Validate
    <3>1. PICK to \in {"completed_verified", "failed_retryable"} : Serve(<<Move(to, "")>>)
      BY <2>3 DEF Validate
    <3>2. <<Move(to, "")>> \in Seq(PlainUpdates)
      BY PlainMoves
    <3> QED BY <3>1, <3>2, Zenon
  <2>4. CASE Cancel
    BY <2>4, PlainLists, Zenon DEF Cancel
  <2>5. CASE ForceFail
    BY <2>5, PlainLists, Zenon DEF ForceFail
  <2> QED BY <2>1, <2>2, <2>3, <2>4, <2>5
<1>3. /\ Taken /\ UNCHANGED <<task, copy>>
      /\ todo["thread"] # <<>> => todo'["thread"] = todo["thread"]
  BY <1>2, TakenBy DEF Writer
<1>4. queued \/ thread # "none" => promoting' = 0
  BY DEF PromoteBegin, ReviewBegin, Review, Validate, Cancel, ForceFail, run, requests,
         OffersInv, RunsAlone
<1> QED BY <1>1, <1>3, <1>4, OffersKept DEF Taken

\* From now on a touch of the loop may put an old "pending" back.
LEMMA ArchiveKeepsOffers ==
    ASSUME RecordType, OffersInv, Archive
    PROVE  OffersInv'
<1>1. /\ todo["loop"] = <<>> /\ todo' = [todo EXCEPT !["loop"] = <<Touch>>] /\ archived'
      /\ UNCHANGED <<task, copy, queued, thread, promoting>>
      /\ UNCHANGED <<accepted, offers, restarts, restored>>
  BY DEF Archive, Serve, LoopIsFree, IsFree, run, requests
<1>2. todo'["loop"] = <<Touch>> /\ UNCHANGED <<todo["thread"], todo["detector"]>>
  BY <1>1 DEF RecordType, Writer
<1>3. OnlyPromotionOffers'
  <2>1. \A w \in Writer :
           /\ copy[w].status # "idea"
           /\ copy[w].status = "pending" => todo'[w] = <<Touch>>
    BY <1>1, <1>2, NotEmpty DEF OffersInv, OnlyPromotionOffers, Writer
  <2> QED BY <1>1, <1>2, <2>1 DEF OffersInv, OnlyPromotionOffers
<1>4. RunsAlone' /\ Started'
  BY <1>1, <1>2, NotPlain DEF OffersInv, RunsAlone, Started
<1> QED
  BY <1>1, <1>2, <1>3, <1>4, NotEmpty, NotPlain DEF OffersInv, AcceptedPerOffer, OfferLeft

LEMMA QuestionKeepsOffers ==
    ASSUME RecordType, OffersInv, Question
    PROVE  OffersInv'
<1>1. PICK m \in Message : Ask(m) \/ Respond(m)
  BY DEF Question
<1>2. /\ UNCHANGED <<accepted, offers, restarts, restored, archived>>
      /\ UNCHANGED <<queued, thread, promoting>>
  BY <1>1 DEF Ask, Respond, run, requests, history
<1>3. \E updates \in Seq(PlainUpdates) : Serve(updates)
  BY <1>1, PlainLists DEF Ask, Respond
<1>4. /\ Taken /\ UNCHANGED <<task, copy>>
      /\ todo["thread"] # <<>> => todo'["thread"] = todo["thread"]
  BY <1>3, TakenBy DEF Writer
<1> QED BY <1>2, <1>4, OffersKept DEF Taken, OffersInv, RunsAlone

LEMMA AcceptKeepsOffers ==
    ASSUME RecordType, RestType, OffersInv, Accept
    PROVE  OffersInv'
<1>1. /\ task.status = "pending" /\ todo["loop"] = <<>> /\ accepted' = accepted + 1
      /\ todo' = [todo EXCEPT !["loop"] = <<Move("running", ""), Set("working")>>]
      /\ UNCHANGED <<task, copy, queued, thread, promoting>>
      /\ UNCHANGED <<offers, restarts, restored, archived>>
  BY DEF Accept, Serve, LoopIsFree, IsFree, run, requests
<1>2. OfferLeft
  BY <1>1, NotEmpty DEF OffersInv
<1>3. AcceptedPerOffer'
  <2>1. accepted \in Int /\ offers \in Int /\ restarts \in Int /\ restored \in Int
    BY DEF RestType, CountType
  <2>2. /\ accepted' = accepted + 1
        /\ UNCHANGED <<offers, restarts, restored, archived>>
    BY <1>1
  <2>3. restored > 0 => archived
    BY DEF OffersInv, AcceptedPerOffer
  <2> QED BY <1>2, <2>1, <2>2, <2>3 DEF OfferLeft, AcceptedPerOffer
<1>4. /\ todo'["loop"] = <<Move("running", ""), Set("working")>>
      /\ UNCHANGED <<todo["thread"], todo["detector"]>>
  BY <1>1 DEF RecordType, Writer
<1>5. todo'["loop"] \in Seq(PlainUpdates) /\ todo'["loop"] \in Acceptance
  BY <1>4, PlainLists DEF Acceptance
<1>6. OnlyPromotionOffers'
  <2>1. \A w \in Writer :
           /\ copy[w].status # "idea"
           /\ copy[w].status = "pending" => w # "loop" /\ todo[w] = <<Touch>> /\ archived
    BY <1>1, NotEmpty DEF OffersInv, OnlyPromotionOffers
  <2>2. \A w \in Writer : w # "loop" => todo'[w] = todo[w]
    BY <1>4 DEF Writer
  <2> QED BY <1>1, <1>4, <1>5, <2>1, <2>2, NotPlain DEF OffersInv, OnlyPromotionOffers
<1>7. RunsAlone' /\ Started'
  BY <1>1, <1>4, <1>5, NotPlain DEF OffersInv, RunsAlone, Started
<1> QED BY <1>3, <1>5, <1>6, <1>7, NotPlain DEF OffersInv

\* What creates a task finds nothing to do and nothing promised.
LEMMA CreateKeepsOffers ==
    ASSUME RecordType, RestType, RunInv, OffersInv, Execute \/ CreateIdea
    PROVE  OffersInv'
<1>1. /\ task.status = "none" /\ UNCHANGED <<todo, copy, thread, promoting>>
      /\ UNCHANGED <<accepted, restarts, restored, archived>>
      /\ \/ task'.status = "pending" /\ offers' = offers + 1
         \/ task'.status = "idea" /\ offers' = offers /\ queued' = queued
  BY DEF Execute, CreateIdea, RecordType, Record, run, requests, history
<1>2. /\ ~queued /\ thread = "none" /\ accepted = 0 /\ promoting = 0
      /\ todo["loop"] = <<>>
  BY <1>1 DEF RunInv, Fresh, Writer
<1>3. offers \in Nat /\ restarts \in Nat /\ restored \in Nat
  BY LifecycleAssumption DEF RestType, CountType
<1>4. AcceptedPerOffer' /\ (task'.status = "pending" => OfferLeft')
  BY <1>1, <1>2, <1>3 DEF OffersInv, AcceptedPerOffer, OfferLeft
<1>5. OnlyPromotionOffers'
  BY <1>1 DEF OffersInv, OnlyPromotionOffers
<1>6. RunsAlone' /\ Started'
  <2>1. copy["loop"].status # "idea"
    BY <1>2, NotEmpty DEF OffersInv, OnlyPromotionOffers, Writer
  <2> QED BY <1>1, <1>2, <2>1, NotEmpty DEF RunsAlone, Started
<1> QED BY <1>1, <1>2, <1>4, <1>5, <1>6, NotEmpty DEF OffersInv

LEMMA PromoteKeepsOffers ==
    ASSUME RecordType, RestType, OffersInv, Promote
    PROVE  OffersInv'
<1>1. /\ promoting > 0 /\ todo["loop"] = <<>> /\ offers' = offers + 1
      /\ todo' = [todo EXCEPT !["loop"] = Promotion]
      /\ UNCHANGED <<task, copy, queued, thread, accepted, restarts, restored, archived>>
  BY DEF Promote, Do, LoopIsFree, IsFree, run, Promotion
<1>2. /\ accepted \in Int /\ offers \in Int /\ restarts \in Int /\ restored \in Int
      /\ promoting \in Nat
  BY DEF RestType, CountType
<1>3. AcceptedPerOffer' /\ OfferLeft'
  BY <1>1, <1>2 DEF OffersInv, AcceptedPerOffer, OfferLeft
<1>4. todo'["loop"] = Promotion /\ UNCHANGED <<todo["thread"], todo["detector"]>>
  BY <1>1 DEF RecordType, Writer
<1>5. OnlyPromotionOffers'
  <2>1. \A w \in Writer :
           /\ copy[w].status # "idea"
           /\ copy[w].status = "pending" => w # "loop" /\ todo[w] = <<Touch>> /\ archived
    BY <1>1, NotEmpty DEF OffersInv, OnlyPromotionOffers
  <2>2. \A w \in Writer : w # "loop" => todo'[w] = todo[w]
    BY <1>4 DEF Writer
  <2> QED BY <1>1, <1>4, <2>1, <2>2, NotPlain DEF OffersInv, OnlyPromotionOffers
<1>6. ~queued /\ thread = "none"
  BY <1>1, <1>2 DEF OffersInv, RunsAlone
<1>7. RunsAlone' /\ Started'
  BY <1>1, <1>6 DEF RunsAlone, Started
<1> QED BY <1>3, <1>5, <1>7 DEF OffersInv

LEMMA RunKeepsOffers ==
    ASSUME RecordType, RunInv, OffersInv, Run
    PROVE  OffersInv'
<1>1. UNCHANGED <<accepted, offers, restarts, restored, archived, promoting>> /\ (queued' => queued)
  <2> USE DEF run, requests, history
  <2>1. CASE Launch \/ Spawn \/ Track \/ Reap \/ ProcessEnds
    BY <2>1 DEF Launch, Spawn, Track, Reap, ProcessEnds
  <2>2. CASE NoteActivity \/ ReportBlock \/ RunBreaks
    <3>1. UNCHANGED <<accepted, offers, restarts, restored, archived, promoting, queued>>
      BY <2>2 DEF NoteActivity, ReportBlock, RunBreaks
    <3> QED BY <3>1
  <2>3. CASE RunCompletes \/ RunFails \/ TimesOut \/ GiveUp
    BY <2>3 DEF RunCompletes, RunFails, TimesOut, GiveUp
  <2> QED BY <2>1, <2>2, <2>3 DEF Run, ThreadGoesOn
<1>2. CASE NoteActivity
  <2>1. /\ todo["thread"] = <<>> /\ thread = "reading"
        /\ todo' = [todo EXCEPT !["thread"] = <<Touch>>]
        /\ UNCHANGED <<task, copy, queued, thread>>
    BY <1>2 DEF NoteActivity, Do, ThreadIsFree, IsFree, run
  <2>2. todo'["thread"] = <<Touch>> /\ UNCHANGED <<todo["loop"], todo["detector"]>>
    BY <2>1 DEF RecordType, Writer
  <2>3. task.status # "pending" \/ archived
    BY <2>1, NotEmpty DEF OffersInv, Started
  <2>4. OnlyPromotionOffers'
    <3>1. \A w \in Writer : w # "thread" => todo'[w] = todo[w]
      BY <2>2 DEF Writer
    <3>2. copy["thread"].status \notin {"pending", "idea"}
      BY <2>1, NotEmpty DEF OffersInv, OnlyPromotionOffers, Writer
    <3> QED BY <1>1, <2>1, <2>2, <3>1, <3>2 DEF OffersInv, OnlyPromotionOffers
  <2> QED BY <1>1, <2>1, <2>2, <2>3, <2>4 DEF OffersInv, RunsAlone, Started,
                                              AcceptedPerOffer, OfferLeft
<1>3. CASE Launch
  <2>1. todo["thread"] = <<>> /\ queued
    BY <1>3 DEF Launch, RunInv, Orderly, ThreadIsFree, IsFree
  <2>2. Do("thread", <<Move("running", "working")>>)
    BY <1>3 DEF Launch
  <2>3. /\ Taken /\ UNCHANGED <<task, copy>>
        /\ todo'["thread"] \in Start
    BY <2>1, <2>2, PlainMoves, TakenBy DEF IsFree, Writer, Do, RecordType, Start
  <2>4. todo'["thread"] # <<Touch>>
    BY <2>2, PlainMoves, NotPlain DEF Do, RecordType, Writer
  <2> QED BY <1>1, <2>1, <2>3, <2>4, OffersKept DEF Taken, OffersInv, RunsAlone
<1>4. CASE ReportBlock \/ RunCompletes \/ RunFails \/ TimesOut \/ GiveUp \/ RunBreaks
  <2>1. todo["thread"] = <<>> /\ thread # "none"
    BY <1>4 DEF ReportBlock, RunCompletes, RunFails, TimesOut, GiveUp, RunBreaks, RunInv,
                Orderly, ThreadIsFree, IsFree
  <2>2. \E updates \in Seq(PlainUpdates) : Do("thread", updates)
    BY <1>4, PlainMoves DEF ReportBlock, RunCompletes, RunFails, TimesOut, GiveUp, RunBreaks
  <2>3. /\ Taken /\ UNCHANGED <<task, copy>>
        /\ todo'["thread"] # <<Touch>>
    BY <2>1, <2>2, TakenBy, NotPlain DEF IsFree, Writer, Do, RecordType
  <2> QED BY <1>1, <2>1, <2>3, OffersKept DEF Taken, OffersInv, RunsAlone
<1>5. CASE Spawn \/ Track \/ Reap \/ ProcessEnds
  <2>1. /\ UNCHANGED <<task, todo, copy>>
        /\ thread' # "none" => thread # "none"
        /\ thread' = thread \/ todo["thread"] = <<>>
    BY <1>5 DEF Spawn, Track, Reap, ProcessEnds, record, RunInv, Orderly, ThreadIsFree, IsFree
  <2> QED BY <1>1, <2>1, OffersKept, NotEmpty DEF OffersInv, RunsAlone
<1> QED BY <1>2, <1>3, <1>4, <1>5 DEF Run, ThreadGoesOn

LEMMA DetectorKeepsOffers ==
    ASSUME RecordType, RunInv, OffersInv, Detector
    PROVE  OffersInv'
<1>1. UNCHANGED <<accepted, offers, restarts, restored, archived, promoting, queued, thread>>
  BY DEF Detector, SweepBegin, SweepResolve, SweepDead, SweepOrphan, SweepNothing, run,
         requests, history
<1>2. CASE SweepBegin \/ SweepNothing
  <2>1. UNCHANGED <<task, todo, copy>>
    BY <1>2 DEF SweepBegin, SweepNothing, record
  <2> QED BY <1>1, <2>1, OffersKept DEF OffersInv, RunsAlone
<1>3. CASE SweepResolve \/ SweepDead \/ SweepOrphan
  <2>1. IsFree("detector")
    BY <1>3 DEF SweepResolve, SweepDead, SweepOrphan, RunInv, Orderly
  <2>2. \E updates \in Seq(PlainUpdates) : Do("detector", updates)
    <3>1. CASE SweepResolve
      BY <3>1, PlainLists, Zenon DEF SweepResolve
    <3>2. CASE SweepDead
      <4>1. <<Move("failed_retryable", "")>> \in Seq(PlainUpdates)
        BY PlainMoves
      <4> QED BY <3>2, <4>1, Zenon DEF SweepDead
    <3>3. CASE SweepOrphan
      BY <3>3, PlainLists, Zenon DEF SweepOrphan
    <3> QED BY <1>3, <3>1, <3>2, <3>3
  <2>3. Taken /\ UNCHANGED <<task, copy>> /\ UNCHANGED todo["thread"]
    BY <2>1, <2>2, TakenBy DEF Writer
  <2> QED BY <1>1, <2>3, OffersKept DEF Taken, OffersInv, RunsAlone
<1> QED BY <1>2, <1>3 DEF Detector

LEMMA RestartKeepsOffers ==
    ASSUME RestType, OffersInv, Restart
    PROVE  OffersInv'
<1>1. accepted \in Int /\ offers \in Int /\ restarts \in Int /\ restored \in Int
  BY DEF RestType, CountType
<1>2. UNCHANGED <<accepted, offers, restored, archived>> /\ restarts' = restarts + 1
  BY DEF Restart
<1>3. AcceptedPerOffer' /\ OfferLeft'
  BY <1>1, <1>2 DEF OffersInv, AcceptedPerOffer, OfferLeft
<1>4. /\ \A w \in Writer : todo'[w] = <<>> /\ copy'[w] = NoCopy
      /\ ~queued' /\ thread' = "none"
  BY Zenon DEF Restart
<1>5. OnlyPromotionOffers'
  <2>1. \A w \in Writer : copy'[w].status \notin {"idea", "pending"}
    <3>1. NoCopy.status = ""
      BY DEF NoCopy
    <3> QED BY <1>4, <3>1, Zenon
  <2>2. todo'["loop"] = <<>> /\ todo'["thread"] = <<>> /\ todo'["detector"] = <<>>
    BY <1>4 DEF Writer
  <2> QED BY <2>1, <2>2, NotEmpty DEF OnlyPromotionOffers
<1> QED BY <1>3, <1>4, <1>5 DEF OffersInv, RunsAlone, Started

\* What is read as "pending" or "idea" is the loop's own promotion, or what a touch
\* finds in the record.
LEMMA ReadKeepsOffers ==
    ASSUME RecordType, OffersInv, NEW w \in Writer, Read(w)
    PROVE  OffersInv'
<1> DEFINE u == Head(todo[w])
<1>1. /\ todo[w] # <<>> /\ copy' = [copy EXCEPT ![w] = Changed(u)]
      /\ UNCHANGED <<task, todo, queued, thread, promoting>>
      /\ UNCHANGED <<accepted, offers, restarts, restored, archived>>
  BY DEF Read, IsFree, run, requests, history
<1>2. CASE todo[w] = Promotion
  <2>1. w = "loop"
    BY <1>2, NotPlain DEF OffersInv, OnlyPromotionOffers, Writer
  <2>2. Changed(u).status = "pending"
    <3>1. u = Set("pending")
      BY <1>2 DEF Promotion
    <3> HIDE DEF u
    <3> QED BY <3>1 DEF Changed, Set, RecordType, Record
  <2> HIDE DEF u
  <2>3. OnlyPromotionOffers' /\ RunsAlone'
    BY <1>1, <1>2, <2>1, <2>2 DEF OffersInv, OnlyPromotionOffers, RunsAlone, RecordType
  <2> QED BY <1>1, <2>3 DEF OffersInv, AcceptedPerOffer, Started, OfferLeft
<1>3. ASSUME Changed(u).status \notin {"pending", "idea"}, todo[w] # Promotion
      PROVE  OffersInv'
  <2> HIDE DEF u
  <2>1. OnlyPromotionOffers' /\ RunsAlone'
    BY <1>1, <1>3 DEF OffersInv, OnlyPromotionOffers, RunsAlone, RecordType
  <2> QED BY <1>1, <2>1 DEF OffersInv, AcceptedPerOffer, Started, OfferLeft
<1>4. CASE todo[w] = <<Touch>>
  <2>1. Changed(u) = task
    <3>1. u = Touch
      BY <1>4
    <3> HIDE DEF u
    <3> QED BY <3>1 DEF Changed, Touch, Set
  <2> HIDE DEF u
  <2>2. \A v \in Writer : copy'[v] = IF v = w THEN task ELSE copy[v]
    BY <1>1, <2>1 DEF RecordType
  <2>3. w \in {"loop", "thread"}
    BY <1>4, NotPlain DEF OffersInv, OnlyPromotionOffers, Writer
  <2>4. <<Touch>> \notin Start
    BY PlainLists, PlainMoves, NotPlain DEF Start
  <2>5. task.status = "pending" => archived
    <3>1. CASE w = "loop"
      BY <1>4, <3>1 DEF OffersInv, OnlyPromotionOffers
    <3>2. CASE w = "thread"
      BY <1>4, <2>4, <3>2 DEF OffersInv, OnlyPromotionOffers, Started
    <3> QED BY <2>3, <3>1, <3>2
  <2>6. task.status = "idea" => w = "loop"
    BY <1>4, <2>3 DEF OffersInv, OnlyPromotionOffers, RunsAlone
  <2>7. OnlyPromotionOffers' /\ RunsAlone'
    BY <1>1, <1>4, <2>2, <2>5, <2>6 DEF OffersInv, OnlyPromotionOffers, RunsAlone
  <2> QED BY <1>1, <2>7 DEF OffersInv, AcceptedPerOffer, Started, OfferLeft
<1>5. CASE todo[w] \in Seq(PlainUpdates)
  <2>1. u \in PlainUpdates
    BY <1>1, <1>5, HeadAndTail
  <2>2. Changed(u).status \notin {"pending", "idea"}
    <3> HIDE DEF u
    <3>1. CASE u.kind = "move"
      BY <2>1, <3>1 DEF PlainUpdates, Changed, LegacyStatus
    <3>2. CASE u.kind = "put"
      BY <2>1, <3>2 DEF PlainUpdates, Changed
    <3>3. CASE u.kind = "set"
      BY <2>1, <3>3 DEF PlainUpdates, Changed, RecordType, Record
    <3> QED BY <2>1, <3>1, <3>2, <3>3 DEF PlainUpdates, Update
  <2> QED BY <1>3, <1>5, <2>2, NotPlain
<1> QED BY <1>2, <1>4, <1>5 DEF OffersInv, OnlyPromotionOffers, Writer

LEMMA RefuseKeepsOffers ==
    ASSUME RecordType, OffersInv, NEW w \in Writer, Refuse(w)
    PROVE  OffersInv'
<1> DEFINE u == Head(todo[w])
           rest == Tail(todo[w])
           left == (IF u.status = "" THEN <<>> ELSE <<Set(u.status)>>) \o rest
<1>1. /\ todo[w] # <<>> /\ u.kind = "move" /\ todo' = [todo EXCEPT ![w] = left]
      /\ UNCHANGED <<task, copy, queued, thread, promoting>>
      /\ UNCHANGED <<accepted, offers, restarts, restored, archived>>
  BY DEF Refuse, IsFree, run, requests, history
<1>2. todo[w] # Promotion /\ todo[w] # <<Touch>>
  <2>1. Head(Promotion) = Set("pending") /\ Head(<<Touch>>) = Touch
    BY DEF Promotion
  <2>2. Set("pending").kind = "set" /\ Touch.kind = "set"
    BY DEF Touch, Set
  <2> QED BY <1>1, <2>1, <2>2
<1>3. todo[w] \in Seq(PlainUpdates)
  BY <1>2 DEF OffersInv, OnlyPromotionOffers, Writer
<1>4. u \in PlainUpdates /\ rest \in Seq(PlainUpdates)
  BY <1>1, <1>3, HeadAndTail
<1>5. left \in Seq(PlainUpdates)
  <2>1. u.status # "" => Set(u.status) \in PlainUpdates
    BY <1>4 DEF PlainUpdates, Update, Set, State, Verdict
  <2> QED BY <1>4, <2>1, OneMore
<1>6. todo[w] \in Start => left \in Start
  <2>1. ASSUME todo[w] = <<Move("running", "working")>> PROVE left \in Start
    <3>1. u = Move("running", "working") /\ rest = <<>>
      BY <2>1
    <3> HIDE DEF u, rest
    <3>2. u.status = "working"
      BY <3>1 DEF Move, MoveThen
    <3>3. left = <<Set("working")>>
      <4>1. \A x : <<x>> \o <<>> = <<x>>
        OBVIOUS
      <4> QED BY <3>1, <3>2, <4>1
    <3> QED BY <3>3 DEF Start
  <2>2. todo[w] # <<Set("working")>>
    <3>1. Set("working").kind = "set" /\ Head(<<Set("working")>>) = Set("working")
      BY DEF Set
    <3> QED BY <1>1, <3>1
  <2> QED BY <2>1, <2>2 DEF Start
<1>7. todo[w] \in Acceptance => left \in Acceptance
  <2>1. ASSUME todo[w] = <<Move("running", ""), Set("working")>> PROVE left \in Acceptance
    <3>1. u = Move("running", "") /\ rest = <<Set("working")>>
      <4>1. \A x, y : Head(<<x, y>>) = x /\ Tail(<<x, y>>) = <<y>>
        OBVIOUS
      <4> QED BY <2>1, <4>1, Zenon
    <3> HIDE DEF u, rest
    <3>2. u.status = ""
      BY <3>1 DEF Move, MoveThen
    <3>3. left = <<Set("working")>>
      <4>1. \A y : <<>> \o <<y>> = <<y>>
        OBVIOUS
      <4> QED BY <3>1, <3>2, <4>1
    <3> QED BY <3>3 DEF Acceptance
  <2>2. todo[w] # <<Set("working")>>
    <3>1. Set("working").kind = "set" /\ Head(<<Set("working")>>) = Set("working")
      BY DEF Set
    <3> QED BY <1>1, <3>1
  <2> QED BY <2>1, <2>2 DEF Acceptance
<1>8. \A v \in Writer : todo'[v] = IF v = w THEN left ELSE todo[v]
  BY <1>1 DEF RecordType
<1> HIDE DEF left, u, rest
<1>9. OnlyPromotionOffers'
  <2>1. /\ todo'["loop"] \in Seq(PlainUpdates) \cup {Promotion, <<Touch>>}
        /\ todo'["thread"] \in Seq(PlainUpdates) \cup {<<Touch>>}
        /\ todo'["detector"] \in Seq(PlainUpdates)
    BY <1>5, <1>8 DEF OffersInv, OnlyPromotionOffers, Writer
  <2>2. /\ todo'["loop"] = <<Touch>> => archived'
        /\ todo'["thread"] = <<Touch>> => thread' # "none"
    BY <1>1, <1>5, <1>8, NotPlain DEF OffersInv, OnlyPromotionOffers, Writer
  <2>3. \A v \in Writer :
           /\ copy'[v].status = "idea" => v = "loop" /\ todo'["loop"] = <<Touch>>
           /\ copy'[v].status = "pending" =>
                 (v = "loop" /\ todo'["loop"] = Promotion) \/ (todo'[v] = <<Touch>> /\ archived')
    BY <1>1, <1>2, <1>8 DEF OffersInv, OnlyPromotionOffers, Writer
  <2> QED BY <2>1, <2>2, <2>3 DEF OnlyPromotionOffers
<1>10. RunsAlone' /\ Started'
  BY <1>1, <1>5, <1>6, <1>8, NotPlain DEF OffersInv, RunsAlone, Started, Writer
<1> QED
  BY <1>1, <1>5, <1>7, <1>8, <1>9, <1>10, NotPlain
  DEF OffersInv, AcceptedPerOffer, OfferLeft, Writer
LEMMA WriteKeepsOffers ==
    ASSUME RecordType, RestType, OffersInv, NEW w \in Writer, Write(w), todo[w] # <<>>
    PROVE  OffersInv'
<1> DEFINE u == Head(todo[w])
           rest == Tail(todo[w])
           left == (IF u.after = "" THEN <<>> ELSE <<Move(u.after, "")>>) \o rest
<1>1. /\ task' = copy[w] /\ copy' = [copy EXCEPT ![w] = NoCopy]
      /\ todo' = [todo EXCEPT ![w] = left]
      /\ UNCHANGED <<queued, thread, promoting, accepted, offers, restarts, archived>>
  BY DEF Write, run, requests, history
<1>2. left \in Seq(PlainUpdates)
  <2>1. ASSUME NEW s, todo[w] = <<Set(s)>> PROVE left = <<>>
    <3>1. u = Set(s) /\ rest = <<>>
      BY <2>1
    <3> HIDE DEF u, rest
    <3>2. u.after = ""
      BY <3>1 DEF Set
    <3>3. <<>> \o <<>> = <<>>
      OBVIOUS
    <3> QED BY <3>1, <3>2, <3>3
  <2>2. CASE todo[w] = Promotion \/ todo[w] = <<Touch>>
    <3>1. left = <<>>
      BY <2>1, <2>2 DEF Promotion, Touch
    <3> QED BY <3>1, PlainLists
  <2>3. CASE todo[w] \in Seq(PlainUpdates)
    <3>1. u \in PlainUpdates /\ rest \in Seq(PlainUpdates)
      BY <2>3, HeadAndTail
    <3>2. u.after # "" => Move(u.after, "") \in PlainUpdates
      <4>1. u.after \in Verdict
        BY <3>1 DEF PlainUpdates
      <4> QED BY <4>1, PlainOnes DEF Verdict, Move
    <3> QED BY <3>1, <3>2, OneMore
  <2> QED BY <2>2, <2>3 DEF OffersInv, OnlyPromotionOffers, Writer
<1> HIDE DEF left, u, rest
<1>3. \A v \in Writer : /\ todo'[v] = IF v = w THEN left ELSE todo[v]
                       /\ copy'[v] = IF v = w THEN NoCopy ELSE copy[v]
  BY <1>1 DEF RecordType
<1>4. /\ task'.status = "idea" => w = "loop"
      /\ task'.status = "pending" =>
            (w = "loop" /\ todo["loop"] = Promotion) \/ (todo[w] = <<Touch>> /\ archived)
  BY <1>1 DEF OffersInv, OnlyPromotionOffers
<1>5. /\ restored' \in {restored, restored + 1}
      /\ restored' # restored => archived
      /\ task'.status = "pending" /\ task.status # "pending" /\ todo[w] = <<Touch>>
            => restored' = restored + 1
  <2>1. restored' = IF copy[w].status = "pending" /\ Head(todo[w]) = Touch /\ task.status # "pending"
                    THEN restored + 1 ELSE restored
    BY DEF Write
  <2>2. todo[w] = Promotion => Head(todo[w]) # Touch
    <3>1. Head(Promotion) = Set("pending")
      BY DEF Promotion
    <3>2. Set("pending") # Touch
      BY DEF Set, Touch
    <3> QED BY <3>1, <3>2
  <2>3. todo[w] = <<Touch>> => Head(todo[w]) = Touch
    OBVIOUS
  <2> QED BY <1>1, <1>4, <2>1, <2>2, <2>3
<1>6. /\ AcceptedPerOffer' /\ (OfferLeft => OfferLeft')
      /\ restored' = restored + 1 => OfferLeft'
  <2>1. accepted \in Int /\ offers \in Int /\ restarts \in Int /\ restored \in Nat
    BY DEF RestType, CountType
  <2>2. accepted <= offers + restarts + restored /\ (restored > 0 => archived)
    BY DEF OffersInv, AcceptedPerOffer
  <2>3. UNCHANGED <<accepted, offers, restarts, archived>>
    BY <1>1
  <2>4. CASE restored' = restored
    BY <2>1, <2>2, <2>3, <2>4 DEF AcceptedPerOffer, OfferLeft
  <2>5. CASE restored' = restored + 1
    <3>1. archived
      BY <1>5, <2>1, <2>5
    <3> QED BY <2>1, <2>2, <2>3, <2>5, <3>1 DEF AcceptedPerOffer, OfferLeft
  <2> QED BY <1>5, <2>1, <2>4, <2>5
<1>7. task'.status = "pending" => OfferLeft' \/ todo'["loop"] \in Acceptance
  <2> SUFFICES ASSUME task'.status = "pending", ~OfferLeft'
               PROVE  todo'["loop"] \in Acceptance
    OBVIOUS
  <2>1. todo[w] = <<Touch>>
    BY <1>4, <1>6 DEF OffersInv
  <2>2. task.status = "pending"
    BY <1>5, <1>6, <2>1
  <2>3. todo["loop"] \in Acceptance
    BY <1>6, <2>2 DEF OffersInv
  <2>4. <<Touch>> \notin Acceptance
    BY PlainLists, NotPlain DEF Acceptance
  <2> QED BY <1>3, <2>1, <2>3, <2>4 DEF Writer
<1>8. OnlyPromotionOffers'
  <2>1. /\ todo'["loop"] \in Seq(PlainUpdates) \cup {Promotion, <<Touch>>}
        /\ todo'["thread"] \in Seq(PlainUpdates) \cup {<<Touch>>}
        /\ todo'["detector"] \in Seq(PlainUpdates)
    BY <1>2, <1>3 DEF OffersInv, OnlyPromotionOffers, Writer
  <2>2. /\ todo'["loop"] = <<Touch>> => archived'
        /\ todo'["thread"] = <<Touch>> => thread' # "none"
    BY <1>1, <1>2, <1>3, NotPlain DEF OffersInv, OnlyPromotionOffers, Writer
  <2>3. NoCopy.status = ""
    BY DEF NoCopy
  <2>4. \A v \in Writer :
           /\ copy'[v].status = "idea" => v = "loop" /\ todo'["loop"] = <<Touch>>
           /\ copy'[v].status = "pending" =>
                 (v = "loop" /\ todo'["loop"] = Promotion) \/ (todo'[v] = <<Touch>> /\ archived')
    BY <1>1, <1>3, <2>3 DEF OffersInv, OnlyPromotionOffers, Writer
  <2> QED BY <2>1, <2>2, <2>4 DEF OnlyPromotionOffers
<1>9. RunsAlone'
  <2> SUFFICES ASSUME queued \/ thread # "none" PROVE RunsAlone'
    BY <1>1 DEF RunsAlone
  <2>1. /\ copy["loop"].status # "idea" /\ promoting = 0 /\ todo["loop"] # Promotion
    BY DEF OffersInv, RunsAlone
  <2>2. NoCopy.status # "idea"
    BY DEF NoCopy
  <2> QED BY <1>1, <1>2, <1>3, <1>4, <2>1, <2>2, NotPlain DEF RunsAlone, Writer
<1>10. Started'
  <2> SUFFICES ASSUME thread # "none", ~archived PROVE task'.status # "pending"
    BY <1>1 DEF Started
  <2> QED BY <1>4 DEF OffersInv, RunsAlone
<1>11. todo'["loop"] = Promotion => OfferLeft'
  BY <1>2, <1>3, <1>6, NotPlain DEF OffersInv, Writer
<1> QED BY <1>6, <1>7, <1>8, <1>9, <1>10, <1>11 DEF OffersInv

LEMMA OffersStep ==
    ASSUME Inv, OffersInv, [Next]_vars
    PROVE  OffersInv'
<1> USE InvParts
<1>1. CASE Executor
  BY <1>1, AcceptKeepsOffers, ExecutorKeepsOffers DEF Executor
<1>2. CASE Operator
  BY <1>2, CreateKeepsOffers, PromoteKeepsOffers, OperatorKeepsOffers,
           ArchiveKeepsOffers DEF Operator
<1>3. CASE Question
  BY <1>3, QuestionKeepsOffers
<1>4. CASE Run
  BY <1>4, RunKeepsOffers
<1>5. CASE Detector
  BY <1>5, DetectorKeepsOffers
<1>6. CASE Restart
  BY <1>6, RestartKeepsOffers
<1>7. CASE \E w \in Writer : Writes(w)
  BY <1>7, ReadKeepsOffers, RefuseKeepsOffers, WriteKeepsOffers, WriteKeeps DEF Writes
<1>8. CASE UNCHANGED vars
  BY <1>8 DEF vars, OffersInv, AcceptedPerOffer, OnlyPromotionOffers, RunsAlone, Started,
              OfferLeft
<1> QED BY <1>1, <1>2, <1>3, <1>4, <1>5, <1>6, <1>7, <1>8 DEF Next

\* No executor is given the task without an offer that nobody has taken, unless a
\* restart has cut an accept off or a touch after an archiving has put an old "pending"
\* back; where a promotion, a run and those two leave the record is part of the invariant.
THEOREM OffersCorrect == Spec => []OffersInv
<1>1. Init => OffersInv
  <2> SUFFICES ASSUME Init PROVE OffersInv
    OBVIOUS
  <2>1. /\ task = [v2_state |-> "new", status |-> "none"]
        /\ \A w \in Writer : todo[w] = <<>> /\ copy[w] = NoCopy
        /\ accepted = 0 /\ offers = 0 /\ restarts = 0 /\ restored = 0
        /\ ~queued /\ thread = "none"
    BY DEF Init
  <2>2. OnlyPromotionOffers
    <3>1. NoCopy.status = ""
      BY DEF NoCopy
    <3> QED BY <2>1, <3>1, NotEmpty, PlainLists DEF OnlyPromotionOffers, Writer
  <2> QED BY <2>1, <2>2, NotEmpty DEF OffersInv, AcceptedPerOffer, RunsAlone, Started, Writer
<1> QED BY <1>1, OffersStep, InvHolds, PTL DEF Spec

\* A task is handed to no more executors than it was offered for, with the two
\* exceptions that AcceptedPerOffer counts.
THEOREM AcceptsAreOffered == Spec => []AcceptedPerOffer
<1>1. OffersInv => AcceptedPerOffer
  BY DEF OffersInv
<1> QED BY <1>1, OffersCorrect, PTL

=============================================================================
