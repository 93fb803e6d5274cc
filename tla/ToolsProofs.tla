----------------------------- MODULE ToolsProofs -----------------------------
(***************************************************************************)
(* Proofs about the programs that are run now and then: the server's own   *)
(* decisions (PMAutonomy), the slicer (SpecSlicer), the PM's client        *)
(* (SpecPipeline), the day's drafts (ContentDesk), the training videos     *)
(* (TrainingPipeline) and the table of the tasks (TaskStore), for every    *)
(* value of their constants.  Each part has the inductive invariant its    *)
(* properties rest on; the last section joins the parts' types.            *)
(***************************************************************************)
EXTENDS MCTools, FiniteSetTheorems, WellFoundedInduction, TLAPS

\* The least of some numbers.
LEMMA MinIsLeast ==
  ASSUME NEW T, T \subseteq Nat, T # {}
  PROVE  Min(T) \in T /\ \A y \in T : Min(T) <= y
<1> DEFINE R == OpToRel(<, Nat)
<1>1. PICK x \in T : \A y \in T : <<y, x>> \notin R
  BY NatLessThanWellFounded, WFMin
<1>2. \A y \in Nat : y < x => <<y, x>> \in Nat \X Nat /\ <<y, x>>[1] < <<y, x>>[2]
  OBVIOUS
<1>3. \A y \in Nat : y < x => <<y, x>> \in R
  BY <1>2 DEF OpToRel
<1>4. \A y \in T : x <= y
  <2> SUFFICES ASSUME NEW y \in T PROVE x <= y
    OBVIOUS
  <2>1. x \in Nat /\ y \in Nat
    OBVIOUS
  <2>2. ~(y < x)
    BY <1>1, <1>3, <2>1
  <2> QED
    BY <2>1, <2>2
<1>5. QED
  BY <1>4 DEF Min

-----------------------------------------------------------------------------
(* PMAutonomy: the tiers.                                                  *)

\* The stored value is neither True nor False, so no decision is ever counted.
LEMMA NothingEvaluated == \A k : Evaluated(k) = 0
<1>1. \A k, v : {b \in Builds : action[b].kind = k /\ Is(action[b].correct, v)} = {}
  BY DEF Is
<1>2. \A k, v : Count(k, v) = 0
  BY <1>1, FS_EmptySet DEF Count
<1>3. QED
  BY <1>2 DEF Evaluated

LEMMA AdjustedIsSame == \A k : Adjusted(k) = tiers[k]
<1>1. MinInstances \in Nat \ {0}
  BY AutonomyAssumption
<1>2. \A k : Evaluated(k) < MinInstances /\ ~(Evaluated(k) >= MinInstances)
  BY <1>1, NothingEvaluated
<1>3. QED
  BY <1>2 DEF Adjusted

TiersAsShipped == tiers = DefaultTiers

LEMMA TiersStep == TiersAsShipped /\ [AutonomyNext]_autonomyVars => TiersAsShipped'
<1> SUFFICES ASSUME TiersAsShipped, [AutonomyNext]_autonomyVars PROVE tiers' = DefaultTiers
  BY DEF TiersAsShipped
<1>1. CASE Evaluate
  <2>1. tiers' = [k \in Kinds |-> tiers[k]]
    BY <1>1, AdjustedIsSame DEF Evaluate
  <2>2. QED
    BY <2>1 DEF TiersAsShipped, DefaultTiers
<1>2. CASE Restart
  BY <1>2 DEF Restart
<1>3. CASE AutoApprove
  BY <1>3 DEF AutoApprove, TiersAsShipped
<1>4. ASSUME NEW b \in Builds, Builder(b) \/ Handler(b) \/ Loop(b) PROVE tiers' = tiers
  BY <1>4 DEF Builder, Ends, Blocks, Unblocks, Handler, Record, SendWord, UpdateAction,
     WritePlan, Loop, Outcome, ClosePlan, ComesDue
<1>5. CASE UNCHANGED autonomyVars
  BY <1>5 DEF autonomyVars, TiersAsShipped
<1>6. QED
  BY <1>1, <1>2, <1>3, <1>4, <1>5 DEF AutonomyNext, TiersAsShipped

\* No evaluation ever promotes or demotes a kind of decision, however many were
\* judged and however (action_stats, evaluate_tiers): the tiers are always the
\* ones the server starts with.
THEOREM TiersNeverMove == AutonomySpec => [](tiers = DefaultTiers)
<1>1. AutonomyInit => TiersAsShipped
  BY DEF AutonomyInit, TiersAsShipped
<1>2. TiersAsShipped => tiers = DefaultTiers
  BY DEF TiersAsShipped
<1>3. QED
  BY <1>1, <1>2, TiersStep, PTL DEF AutonomySpec

-----------------------------------------------------------------------------
(* PMAutonomy: what people said.                                           *)

Decisions == [kind : Kinds \cup {"none"}, tier : Tiers,
              status : {"none", "pending", "executing", "approved", "completed"},
              correct : Verdicts \cup {"none"}, due : BOOLEAN]

ActionStatuses == {"none", "pending", "executing", "approved", "completed"}

\* A decision that is written to stays one, and reads as it was written.
LEMMA Written ==
  ASSUME NEW a \in Decisions, NEW st \in ActionStatuses, NEW c \in Verdicts \cup {"none"}
  PROVE  /\ UpdateStatus(a, st, c) \in Decisions
         /\ UpdateStatus(a, st, c).status = st /\ UpdateStatus(a, st, c).correct = c
BY DEF UpdateStatus, Decisions, ActionStatuses

LEMMA ComesDueWritten ==
  ASSUME NEW a \in Decisions
  PROVE  /\ [a EXCEPT !.due = TRUE] \in Decisions
         /\ [a EXCEPT !.due = TRUE].status = a.status
         /\ [a EXCEPT !.due = TRUE].correct = a.correct
BY DEF Decisions

LEMMA TypeInit == AutonomyInit => AutonomyTypeOK
BY AutonomyAssumption DEF AutonomyInit, AutonomyTypeOK, NoAction, Tiers, Kinds, DefaultTiers,
   Causes

\* The decision a handler writes has the kind and the tier of its cause.
LEMMA HandlerType ==
  ASSUME AutonomyTypeOK, NEW b \in Builds, Handler(b) PROVE AutonomyTypeOK'
<1> USE DEF AutonomyTypeOK
<1>1. CASE Record(b)
  <2>1. ClassifyDecision(b) \in Kinds
    BY DEF ClassifyDecision, Kinds, IsInfra
  <2>2. tiers[ClassifyDecision(b)] \in Tiers
    BY <2>1
  <2>3. QED
    BY <1>1, <2>1, <2>2 DEF Record
<1>2. CASE SendWord(b)
  BY <1>2 DEF SendWord, Tell
<1>3. CASE UpdateAction(b)
  <2>1. PICK st \in {"pending", "executing"} :
          action' = [action EXCEPT ![b] = UpdateStatus(action[b], st, "none")]
    BY <1>3 DEF UpdateAction
  <2>2. action \in [Builds -> Decisions] /\ st \in ActionStatuses
    BY DEF Decisions, ActionStatuses
  <2>3. UpdateStatus(action[b], st, "none") \in Decisions
    BY <2>2, Written
  <2>4. action' \in [Builds -> Decisions]
    BY <2>1, <2>2, <2>3
  <2>5. QED
    BY <1>3, <2>4 DEF UpdateAction, Decisions
<1>4. CASE WritePlan(b)
  BY <1>4 DEF WritePlan
<1>5. QED
  BY <1>1, <1>2, <1>3, <1>4 DEF Handler

LEMMA TypeStep ==
  AutonomyTypeOK /\ TiersAsShipped' /\ [AutonomyNext]_autonomyVars => AutonomyTypeOK'
<1> SUFFICES ASSUME AutonomyTypeOK, TiersAsShipped', [AutonomyNext]_autonomyVars
             PROVE  AutonomyTypeOK'
  OBVIOUS
<1> USE DEF AutonomyTypeOK
<1>0. MaxCalls \in Nat /\ tiers' \in [Kinds -> Tiers]
  BY AutonomyAssumption DEF TiersAsShipped, DefaultTiers, Tiers
<1>1. ASSUME NEW b \in Builds, Builder(b) PROVE AutonomyTypeOK'
  <2>1. ASSUME NEW st \in {"completed", "failed"}, NEW c \in Causes, Ends(b, st, c)
        PROVE  AutonomyTypeOK'
    BY <2>1 DEF Ends, Handled
  <2>2. ASSUME NEW c \in Causes, Blocks(b, c) PROVE AutonomyTypeOK'
    <3>1. alerts' \in [Builds -> SUBSET {"pm", "ops"}]
      <4>1. \A who \in {"pm", "ops"} : alerts[b] \cup {who} \in SUBSET {"pm", "ops"}
        OBVIOUS
      <4>2. alerts' = alerts \/ \E who \in {"pm", "ops"} :
                                  alerts' = [alerts EXCEPT ![b] = alerts[b] \cup {who}]
        BY <2>2 DEF Blocks, Tell
      <4>3. QED
        BY <4>1, <4>2
    <3>2. QED
      BY <2>2, <3>1 DEF Blocks
  <2>3. CASE Unblocks(b)
    BY <2>3 DEF Unblocks
  <2>4. "other" \in Causes
    BY DEF Causes
  <2>5. QED
    BY <1>1, <2>1, <2>2, <2>3, <2>4 DEF Builder
<1>2. ASSUME NEW b \in Builds, Handler(b) PROVE AutonomyTypeOK'
  BY <1>2, HandlerType
<1>3. ASSUME NEW b \in Builds, NEW v \in Verdicts, Outcome(b, v) PROVE AutonomyTypeOK'
  <2>1. UpdateStatus(action[b], "completed", v) \in Decisions
    BY Written DEF Decisions, ActionStatuses
  <2>2. action' \in [Builds -> Decisions]
    BY <1>3, <2>1 DEF Outcome, Decisions
  <2>3. QED
    BY <1>0, <1>3, <2>2 DEF Outcome, Call, Hurried, Decisions
<1>4. ASSUME NEW b \in Builds, NEW v \in {"completed", "failed"}, ClosePlan(b, v)
      PROVE  AutonomyTypeOK'
  BY <1>0, <1>4 DEF ClosePlan, Call, Hurried
<1>5. ASSUME NEW b \in Builds, ComesDue(b) PROVE AutonomyTypeOK'
  <2>1. action' \in [Builds -> Decisions]
    BY <1>5, ComesDueWritten DEF ComesDue, Decisions
  <2>2. QED
    BY <1>5, <2>1 DEF ComesDue, Decisions
<1>6. CASE AutoApprove
  <2>1. \A b \in Builds : UpdateStatus(action[b], "approved", "none") \in Decisions
    BY Written DEF Decisions, ActionStatuses
  <2>2. action' \in [Builds -> Decisions]
    BY <1>6, <2>1 DEF AutoApprove, Decisions
  <2>3. QED
    BY <1>6, <2>2 DEF AutoApprove, Decisions
<1>7. CASE Evaluate
  BY <1>0, <1>7 DEF Evaluate, Call
<1>8. CASE Restart
  BY <1>0, <1>8 DEF Restart, Call
<1>9. CASE UNCHANGED autonomyVars
  BY <1>9 DEF autonomyVars
<1>10. QED
  BY <1>1, <1>2, <1>3, <1>4, <1>5, <1>6, <1>7, <1>8, <1>9 DEF AutonomyNext, Loop

\* Nothing is decided or judged about a build that has not ended, and who closes its plan
\* does so in haste.
UntouchedBefore ==
  \A b \in Builds : build[b] \in {"running", "blocked"} =>
    handler[b] = "none" /\ action[b] = NoAction /\ judged[b] = "none"
    /\ (closed[b] = "none" \/ b \in hasty)
\* The handler of a build that was judged or closed in peace is through.
HandlerThrough ==
  \A b \in Builds \ hasty : judged[b] # "none" \/ closed[b] # "none" => handler[b] = "none"

WordInv == AutonomyTypeOK /\ TiersAsShipped /\ UntouchedBefore /\ HandlerThrough /\ HumanWordStands

LEMMA WordInit == AutonomyInit => WordInv
BY TypeInit DEF AutonomyInit, WordInv, TiersAsShipped, UntouchedBefore, HandlerThrough,
   HumanWordStands

\* The build itself: it was not judged before, so nothing can be contradicted.
LEMMA BuilderKeeps ==
  ASSUME WordInv, NEW b \in Builds, Builder(b), TiersAsShipped', AutonomyTypeOK'
  PROVE  WordInv'
<1> USE DEF WordInv, AutonomyTypeOK
<1>1. UNCHANGED <<action, planned, judged, closed, hasty>>
  BY DEF Builder, Ends, Blocks, Unblocks
<1>2. /\ build[b] \in {"running", "blocked"} /\ judged[b] = "none"
      /\ closed[b] = "none" \/ b \in hasty
  BY DEF Builder, Ends, Blocks, Unblocks, UntouchedBefore
<1>3. /\ build' = [build EXCEPT ![b] = build'[b]]
      /\ handler' = [handler EXCEPT ![b] = handler'[b]]
      /\ build'[b] \in {"running", "blocked"} => handler' = handler
  BY DEF Builder, Ends, Blocks, Unblocks, Handled
<1>4. UntouchedBefore' /\ HandlerThrough'
  BY <1>1, <1>2, <1>3 DEF UntouchedBefore, HandlerThrough
<1>5. HumanWordStands'
  BY <1>1 DEF HumanWordStands
<1>6. QED
  BY <1>4, <1>5

\* The handler writes only about a build whose handler is not through.
LEMMA HandlerKeeps ==
  ASSUME WordInv, NEW b \in Builds, Handler(b), TiersAsShipped', AutonomyTypeOK'
  PROVE  WordInv'
<1> USE DEF WordInv, AutonomyTypeOK
<1>1. handler[b] # "none" /\ UNCHANGED <<build, judged, closed, hasty>>
  BY DEF Handler, Record, SendWord, UpdateAction, WritePlan
<1>2. /\ build[b] \notin {"running", "blocked"}
      /\ b \in hasty \/ (judged[b] = "none" /\ closed[b] = "none")
  BY <1>1 DEF UntouchedBefore, HandlerThrough
<1>3. /\ handler' = [handler EXCEPT ![b] = handler'[b]]
      /\ planned' = [planned EXCEPT ![b] = planned'[b]]
      /\ action' = [action EXCEPT ![b] = action'[b]]
  BY DEF Handler, Record, SendWord, UpdateAction, WritePlan
<1>4. UntouchedBefore' /\ HandlerThrough'
  BY <1>1, <1>2, <1>3 DEF UntouchedBefore, HandlerThrough
<1>5. HumanWordStands'
  BY <1>1, <1>2, <1>3 DEF HumanWordStands
<1>6. QED
  BY <1>4, <1>5

\* A judgement or a verdict is in the books the moment it is given.
LEMMA LoopKeeps ==
  ASSUME WordInv, NEW b \in Builds, Loop(b), TiersAsShipped', AutonomyTypeOK'
  PROVE  WordInv'
<1> USE DEF WordInv, AutonomyTypeOK
<1>1. ASSUME NEW v \in Verdicts, Outcome(b, v) PROVE WordInv'
  <2>1. /\ action[b] # NoAction /\ UNCHANGED <<build, handler, planned, closed>>
        /\ action' = [action EXCEPT ![b] = UpdateStatus(@, "completed", v)]
        /\ judged' = [judged EXCEPT ![b] = v]
        /\ hasty' = IF IsThrough(b) THEN hasty ELSE hasty \cup {b}
    BY <1>1 DEF Outcome, Hurried
  <2>2. /\ action'[b] \in Decisions /\ action'[b].correct = v
        /\ action'[b].status = "completed"
    BY <2>1 DEF UpdateStatus, Decisions
  <2>3. UntouchedBefore' /\ HandlerThrough'
    BY <2>1 DEF UntouchedBefore, HandlerThrough, IsThrough
  <2>4. HumanWordStands'
    BY <2>1, <2>2 DEF HumanWordStands
  <2>5. QED
    BY <2>3, <2>4
<1>2. ASSUME NEW v \in {"completed", "failed"}, ClosePlan(b, v) PROVE WordInv'
  <2>1. /\ UNCHANGED <<build, handler, action, judged>>
        /\ planned' = [planned EXCEPT ![b] = v] /\ closed' = [closed EXCEPT ![b] = v]
        /\ hasty' = IF IsThrough(b) THEN hasty ELSE hasty \cup {b}
    BY <1>2 DEF ClosePlan, Hurried
  <2>2. UntouchedBefore' /\ HandlerThrough'
    BY <2>1 DEF UntouchedBefore, HandlerThrough, IsThrough
  <2>3. HumanWordStands'
    BY <2>1 DEF HumanWordStands
  <2>4. QED
    BY <2>2, <2>3
<1>3. CASE ComesDue(b)
  <2>1. /\ action[b] # NoAction
        /\ UNCHANGED <<build, handler, planned, judged, closed, hasty>>
        /\ action' = [action EXCEPT ![b].due = TRUE]
    BY <1>3 DEF ComesDue
  <2>2. /\ action'[b] \in Decisions /\ action'[b].correct = action[b].correct
        /\ action'[b].status = action[b].status
    BY <2>1 DEF Decisions
  <2>3. UntouchedBefore' /\ HandlerThrough' /\ HumanWordStands'
    BY <2>1, <2>2 DEF UntouchedBefore, HandlerThrough, HumanWordStands
  <2>4. QED
    BY <2>3
<1>4. QED
  BY <1>1, <1>2, <1>3 DEF Loop

\* The approval of old proposals looks at the status, and a judged decision is
\* "completed".
LEMMA ApproveKeeps == ASSUME WordInv, AutoApprove, TiersAsShipped', AutonomyTypeOK'
  PROVE  WordInv'
<1> USE DEF WordInv, AutonomyTypeOK
<1>1. /\ UNCHANGED <<build, handler, planned, judged, closed, hasty>>
      /\ action' = [b \in Builds |-> IF PendingApproval(action[b])
                      THEN UpdateStatus(action[b], "approved", "none") ELSE action[b]]
  BY DEF AutoApprove
<1>2. \A b \in Builds : action[b].status # "pending" => action'[b] = action[b]
  BY <1>1 DEF PendingApproval
<1>3. \A b \in Builds : action[b] = NoAction => action'[b] = action[b]
  <2>1. NoAction.status = "none"
    BY DEF NoAction
  <2>2. QED
    BY <1>2, <2>1
<1>4. UntouchedBefore' /\ HandlerThrough'
  BY <1>1, <1>3 DEF UntouchedBefore, HandlerThrough
<1>5. HumanWordStands'
  BY <1>1, <1>2 DEF HumanWordStands
<1>6. QED
  BY <1>4, <1>5

LEMMA WordStep == WordInv /\ [AutonomyNext]_autonomyVars => WordInv'
<1> SUFFICES ASSUME WordInv, [AutonomyNext]_autonomyVars PROVE WordInv'
  OBVIOUS
<1>0. TiersAsShipped' /\ AutonomyTypeOK'
  BY TiersStep, TypeStep DEF WordInv
<1>1. ASSUME NEW b \in Builds, Builder(b) \/ Handler(b) \/ Loop(b) PROVE WordInv'
  BY <1>0, <1>1, BuilderKeeps, HandlerKeeps, LoopKeeps
<1>2. CASE AutoApprove
  BY <1>0, <1>2, ApproveKeeps
<1>3. CASE Evaluate \/ UNCHANGED autonomyVars
  BY <1>0, <1>3 DEF Evaluate, autonomyVars, WordInv, UntouchedBefore,
     HandlerThrough, HumanWordStands
<1>4. CASE Restart
  <2>1. /\ UNCHANGED <<action, planned, judged, closed, hasty>>
        /\ handler' = [b \in Builds |-> "none"]
        /\ build' = [b \in Builds |-> IF build[b] = "running" THEN "lost" ELSE build[b]]
    BY <1>4 DEF Restart
  <2>2. QED
    BY <1>0, <2>1 DEF WordInv, UntouchedBefore, HandlerThrough, HumanWordStands
<1>5. QED
  BY <1>1, <1>2, <1>3, <1>4 DEF AutonomyNext

\* Type correctness of the server's decisions: every decision keeps a kind, a
\* tier and a status the rest of the code knows.
THEOREM DecisionsTypeCorrect == AutonomySpec => []AutonomyTypeOK
<1>1. WordInv => AutonomyTypeOK
  BY DEF WordInv
<1>2. QED
  BY <1>1, WordInit, WordStep, PTL DEF AutonomySpec

\* What Brad judged and what the PM closed stays so, whatever is approved,
\* evaluated, ended or restarted later (update_status, update_outcome).
THEOREM HumanWordIsKept == AutonomySpec => []HumanWordStands
<1>1. WordInv => HumanWordStands
  BY DEF WordInv
<1>2. QED
  BY <1>1, WordInit, WordStep, PTL DEF AutonomySpec

-----------------------------------------------------------------------------
(* SpecSlicer: neighbours that share a file.                               *)

\* What the sections are, how far they are counted, and what a spec is.
Sections == [parts : Seq(1 .. MaxSections), files : SUBSET Paths,
             criteria : SUBSET Criteria]
SpecOK == /\ home \in [Criteria -> 0 .. MaxSections]
          /\ touches \in [1 .. MaxSections -> SUBSET Paths]
          /\ found \in [{"primary", "secondary", "numbered"} -> Nat]
          /\ \A x \in {"primary", "secondary", "numbered"} :
               found[x] < 2 \/ found[x] <= MaxSections

\* The vehicles are built from the sections as they are when all run; what was
\* started had its dependencies completed; and nothing runs that has ended.
SliceInv ==
  /\ MaxSections \in Nat /\ SpecOK /\ sections \in Seq(Sections) /\ unmapped \subseteq Criteria
  /\ stage = "merge" => cursor \in Nat \ {0}
  /\ stage = "run" =>
       vehicles = [i \in DOMAIN sections |->
                     [depends_on |-> DependsOn(i), parallelizable |-> Parallelizable(i)]]
  /\ stage # "run" => vehicles = <<>>
  /\ running \cup ended \subseteq DOMAIN vehicles /\ running \cap ended = {}
  /\ \A i \in running : vehicles[i].depends_on \subseteq ended

LEMMA WaysAre == /\ DOMAIN Ways = {1, 2, 3} /\ ToSet(Ways) = {"primary", "secondary", "numbered"}
                 /\ Ways[1] = "primary" /\ Ways[2] = "secondary" /\ Ways[3] = "numbered"
BY DEF Ways, ToSet

LEMMA SliceInit == SlicerInit => SliceInv
<1> SUFFICES ASSUME SlicerInit PROVE SliceInv
  OBVIOUS
<1>1. MaxSections \in Nat
  BY SlicerAssumption
<1>2. SpecOK
  BY <1>1, WaysAre DEF SlicerInit, SpecOK
<1>3. QED
  BY <1>1, <1>2 DEF SlicerInit, SliceInv

\* Two sections merged into one keep the parts, files and criteria of both.
LEMMA MergeType ==
  ASSUME NEW q \in Seq(Sections), NEW i \in 1 .. Len(q) - 1
  PROVE  MergeAt(q, i) \in Seq(Sections)
<1>1. q[i] \in Sections /\ q[i + 1] \in Sections
  OBVIOUS
<1>2. Absorb(q[i], q[i + 1]) \in Sections
  <2>1. q[i].parts \o q[i + 1].parts \in Seq(1 .. MaxSections)
    BY <1>1 DEF Sections
  <2>2. QED
    BY <1>1, <2>1 DEF Absorb, Sections
<1>3. SubSeq(q, 1, i - 1) \in Seq(Sections) /\ SubSeq(q, i + 2, Len(q)) \in Seq(Sections)
  OBVIOUS
<1>4. <<Absorb(q[i], q[i + 1])>> \in Seq(Sections)
  BY <1>2
<1>5. QED
  BY <1>3, <1>4 DEF MergeAt

LEMMA SliceStep == SliceInv /\ [SlicerNext]_slicerVars => SliceInv'
<1> SUFFICES ASSUME SliceInv, [SlicerNext]_slicerVars PROVE SliceInv'
  OBVIOUS
<1> USE DEF SliceInv
<1>1. CASE FindSections
  <2>1. UNCHANGED <<spec, cursor, vehicles, running, ended>> /\ stage = "find" /\ stage' \notin {"merge", "run"}
    BY <1>1 DEF FindSections
  <2>2. SpecOK'
    BY <2>1 DEF SpecOK, spec
  <2>3. sections' \in Seq(Sections) /\ unmapped' \subseteq Criteria
    <3> DEFINE good == {i \in DOMAIN Ways : found[Ways[i]] >= 2}
               n    == IF good = {} THEN 0 ELSE found[Ways[Min(good)]]
    <3>1. CASE PassThrough(n)
      BY <1>1, <3>1 DEF FindSections
    <3>2. CASE ~PassThrough(n)
      <4>1. good # {} => Min(good) \in good
        <5>1. good \subseteq {1, 2, 3}
          BY WaysAre
        <5>2. good # {} => \E x \in good : \A y \in good : x <= y
          BY <5>1
        <5>3. QED
          BY <5>2 DEF Min
      <4>2. n \in 1 .. MaxSections
        BY <3>2, <4>1, WaysAre DEF PassThrough, SpecOK
      <4>3. /\ sections' = [i \in 1 .. n |-> Section(i)]
            /\ unmapped' = {c \in Criteria : home[c] \notin 1 .. n}
        BY <1>1, <3>2 DEF FindSections
      <4>4. \A i \in 1 .. n : Section(i) \in Sections
        <5>1. \A i \in 1 .. n : i \in 1 .. MaxSections /\ <<i>> \in Seq(1 .. MaxSections)
          BY <4>2
        <5>2. QED
          BY <5>1 DEF Section, Sections, SpecOK
      <4>5. QED
        BY <4>2, <4>3, <4>4
    <3>3. QED
      BY <3>1, <3>2
  <2>4. QED
    BY <2>1, <2>2, <2>3
<1>2. CASE Distribute
  <2>1. /\ UNCHANGED <<spec, vehicles, running, ended>> /\ stage = "distribute"
        /\ stage' = "merge" /\ cursor' = 1
    BY <1>2 DEF Distribute
  <2>2. SpecOK'
    BY <2>1 DEF SpecOK, spec
  <2>3. sections' \in Seq(Sections) /\ unmapped' \subseteq Criteria
    <3>1. ASSUME NEW x \in Sections PROVE [x EXCEPT !.criteria = unmapped] \in Sections
      BY <3>1 DEF Sections
    <3>2. CASE Bare = {}
      BY <1>2, <3>2 DEF Distribute
    <3>3. CASE Bare # {}
      <4>1. /\ sections' = [sections EXCEPT ![Min(Bare)] =
                              [sections[Min(Bare)] EXCEPT !.criteria = unmapped]]
            /\ unmapped' = {}
        BY <1>2, <3>3 DEF Distribute
      <4>2. \A i \in DOMAIN sections : sections[i] \in Sections
        OBVIOUS
      <4>3. \A i \in DOMAIN sections : sections'[i] \in Sections
        BY <3>1, <4>1, <4>2
      <4>4. DOMAIN sections' = DOMAIN sections /\ sections' = [i \in DOMAIN sections |-> sections'[i]]
        BY <4>1
      <4>5. DOMAIN sections = 1 .. Len(sections) /\ Len(sections) \in Nat
        OBVIOUS
      <4>6. sections' \in Seq(Sections)
        BY <4>3, <4>4, <4>5
      <4>7. QED
        BY <4>1, <4>6
    <3>4. QED
      BY <3>2, <3>3
  <2>4. QED
    BY <2>1, <2>2, <2>3
<1>3. CASE Merge
  <2>1. UNCHANGED <<spec, stage, unmapped, vehicles, running, ended>> /\ stage = "merge"
    BY <1>3 DEF Merge
  <2>2. SpecOK'
    BY <2>1 DEF SpecOK, spec
  <2>3. /\ cursor' \in Nat \ {0}
        /\ \/ sections' = sections
           \/ \E i \in 1 .. Len(sections) - 1 : sections' = MergeAt(sections, i)
    <3>1. CASE cursor \notin Bare
      BY <1>3, <2>1, <3>1 DEF Merge
    <3>2. CASE cursor \in Bare /\ cursor < Len(sections)
      <4>1. sections' = MergeAt(sections, cursor) /\ cursor' = cursor
        BY <1>3, <3>2 DEF Merge
      <4>2. QED
        BY <2>1, <3>2, <4>1
    <3>3. CASE cursor \in Bare /\ cursor = Len(sections) /\ cursor > 1
      <4>1. sections' = MergeAt(sections, cursor - 1) /\ cursor' = cursor - 1
        BY <1>3, <3>3 DEF Merge
      <4>2. QED
        BY <2>1, <3>3, <4>1
    <3>4. CASE cursor \in Bare /\ cursor = Len(sections) /\ cursor = 1
      BY <1>3, <3>4 DEF Merge
    <3>5. cursor <= Len(sections) /\ Len(sections) \in Nat /\ cursor \in Nat \ {0}
      BY <1>3, <2>1 DEF Merge
    <3>6. QED
      BY <3>1, <3>2, <3>3, <3>4, <3>5
  <2>4. sections' \in Seq(Sections)
    BY <2>3, MergeType
  <2>5. QED
    BY <2>1, <2>2, <2>3, <2>4
<1>4. CASE BuildVehicles
  <2>1. /\ UNCHANGED <<spec, sections, unmapped, cursor, running, ended>>
        /\ stage = "merge" /\ stage' = "run"
        /\ vehicles' = [i \in DOMAIN sections |->
                 [depends_on |-> DependsOn(i), parallelizable |-> Parallelizable(i)]]
    BY <1>4 DEF BuildVehicles
  <2>2. SpecOK'
    BY <2>1 DEF SpecOK, spec
  <2>3. running = {} /\ ended = {}
    BY <2>1
  <2>4. \A i : DependsOn(i)' = DependsOn(i) /\ Parallelizable(i)' = Parallelizable(i)
    BY <2>1 DEF DependsOn, Parallelizable, Apart
  <2>5. QED
    BY <2>1, <2>2, <2>3, <2>4
<1>5. ASSUME NEW i \in DOMAIN vehicles, StartVehicle(i) \/ VehicleCompletes(i)
      PROVE  SliceInv'
  <2>1. /\ UNCHANGED <<spec, stage, sections, unmapped, cursor, vehicles>>
        /\ \/ /\ i \notin running \cup ended /\ vehicles[i].depends_on \subseteq ended
              /\ running' = running \cup {i} /\ ended' = ended
           \/ i \in running /\ running' = running \ {i} /\ ended' = ended \cup {i}
    BY <1>5 DEF StartVehicle, VehicleCompletes
  <2>2. SpecOK'
    BY <2>1 DEF SpecOK, spec
  <2>3. \A k : DependsOn(k)' = DependsOn(k) /\ Parallelizable(k)' = Parallelizable(k)
    BY <2>1 DEF DependsOn, Parallelizable, Apart
  <2>4. stage' = "run" =>
          vehicles' = [k \in DOMAIN sections' |->
             [depends_on |-> DependsOn(k)', parallelizable |-> Parallelizable(k)']]
    BY <2>1, <2>3
  <2>5. QED
    BY <2>1, <2>2, <2>4
<1>6. CASE UNCHANGED slicerVars
  <2>1. \A k : DependsOn(k)' = DependsOn(k) /\ Parallelizable(k)' = Parallelizable(k)
    BY <1>6 DEF slicerVars, DependsOn, Parallelizable, Apart
  <2>2. SpecOK'
    BY <1>6 DEF slicerVars, SpecOK
  <2>3. QED
    BY <1>6, <2>1, <2>2 DEF slicerVars
<1>7. QED
  BY <1>1, <1>2, <1>3, <1>4, <1>5, <1>6 DEF SlicerNext, Slice, Run

\* However the spec was cut and its sections merged, a vehicle never runs at the
\* same time as the one before it when they share a file or one names none
\* (step 6 of slice_spec, Dispatcher.dispatch).
THEOREM NeighboursAreApart == SlicerSpec => []NeighboursApart
<1>1. SliceInv => NeighboursApart
  <2> SUFFICES ASSUME SliceInv, NEW i \in running, i + 1 \in running PROVE Apart(i, i + 1)
    BY DEF NeighboursApart
  <2>1. /\ stage = "run" /\ i \in DOMAIN sections /\ i + 1 \in DOMAIN sections
        /\ vehicles[i + 1].depends_on = DependsOn(i + 1)
    BY DEF SliceInv
  <2>2. DependsOn(i + 1) \subseteq ended /\ i \notin ended
    BY <2>1 DEF SliceInv
  <2>3. QED
    <3>1. i \in Nat
      BY <2>1 DEF SliceInv
    <3>2. i \in {(i + 1) - 1} \cap DOMAIN sections
      BY <2>1, <3>1
    <3>3. QED
      BY <2>2, <3>1, <3>2 DEF DependsOn, Apart
<1>2. QED
  BY <1>1, SliceInit, SliceStep, PTL DEF SlicerSpec

-----------------------------------------------------------------------------
(* SpecSlicer: the vehicles are the spec.                                  *)

\* The sections lie as they lay in the spec and hold their criteria through all
\* the merging; what the merging has passed has criteria if anything has; the
\* criteria that fit nowhere are in hand, or dropped because none was bare.
Parted == InOneOrder(sections) /\ WithTheirSections(sections)
OneWay == \A w, x \in ToSet(Ways) : found[w] >= 2 /\ found[x] >= 2 => w = x
Bounded == Len(sections) <= MaxSections /\ cursor \in 0 .. MaxSections + 1
PassedHaveCriteria ==
  (\E v \in DOMAIN sections : sections[v].criteria # {}) =>
    \A v \in DOMAIN sections : v < cursor => sections[v].criteria # {}
WholeInv ==
  /\ SliceInv /\ OneWay /\ Bounded
  /\ stage \in {"find", "single", "distribute", "merge", "run"}
  /\ stage \in {"distribute", "merge", "run"} => SectionCount \in 2 .. MaxSections /\ Parted
  /\ stage = "distribute" => /\ sections = [i \in 1 .. SectionCount |-> Section(i)]
                             /\ unmapped = {c \in Criteria : home[c] \notin 1 .. SectionCount}
  /\ stage \in {"merge", "run"} =>
       /\ (unmapped # {} => \A i \in 1 .. SectionCount : \E c \in Criteria : home[c] = i)
       /\ cursor \in 1 .. Len(sections) + 1 /\ PassedHaveCriteria
  /\ stage = "run" => cursor = Len(sections) + 1

LEMMA WholeInit == SlicerInit => WholeInv
<1> SUFFICES ASSUME SlicerInit PROVE WholeInv
  OBVIOUS
<1>1. SliceInv
  BY SliceInit
<1>2. OneWay
  BY WaysAre DEF SlicerInit, OneWay
<1>3. Bounded
  BY <1>1 DEF SlicerInit, Bounded, SliceInv
<1> QED
  BY <1>1, <1>2, <1>3 DEF SlicerInit, WholeInv

LEMMA PutTogether ==
  ASSUME NEW S, NEW a \in Seq(S), NEW t \in Seq(S)
  PROVE  /\ a \o t \in Seq(S) /\ Len(a \o t) = Len(a) + Len(t)
         /\ \A k \in 1 .. Len(a) : (a \o t)[k] = a[k]
         /\ \A k \in 1 .. Len(t) : (a \o t)[Len(a) + k] = t[k]
OBVIOUS

\* What a merge leaves where, and what of the two it has put together.
LEMMA Merged ==
  ASSUME NEW q \in Seq(Sections), NEW i \in 1 .. Len(q) - 1
  PROVE  /\ Len(MergeAt(q, i)) = Len(q) - 1 /\ MergeAt(q, i)[i] = Absorb(q[i], q[i + 1])
         /\ \A k \in 1 .. i - 1 : MergeAt(q, i)[k] = q[k]
         /\ \A k \in i + 1 .. Len(q) - 1 : MergeAt(q, i)[k] = q[k + 1]
<1>1. q[i] \in Sections /\ q[i + 1] \in Sections
  OBVIOUS
<1> DEFINE a == SubSeq(q, 1, i - 1)
           b == SubSeq(q, i + 2, Len(q))
           m == Absorb(q[i], q[i + 1])
<1>2. m \in Sections
  <2>1. q[i].parts \o q[i + 1].parts \in Seq(1 .. MaxSections)
    BY <1>1 DEF Sections
  <2>2. QED
    BY <1>1, <2>1 DEF Absorb, Sections
<1>3. /\ a \in Seq(Sections) /\ Len(a) = i - 1 /\ \A k \in 1 .. i - 1 : a[k] = q[k]
      /\ b \in Seq(Sections) /\ Len(b) = Len(q) - i - 1
      /\ \A k \in 1 .. Len(q) - i - 1 : b[k] = q[k + i + 1]
  OBVIOUS
<1>4. MergeAt(q, i) = a \o <<m>> \o b
  BY DEF MergeAt
<1> HIDE DEF a, b, m
<1>5. /\ a \o <<m>> \in Seq(Sections) /\ Len(a \o <<m>>) = i /\ (a \o <<m>>)[i] = m
      /\ \A k \in 1 .. i - 1 : (a \o <<m>>)[k] = a[k]
  <2>1. <<m>> \in Seq(Sections) /\ Len(<<m>>) = 1 /\ <<m>>[1] = m
    BY <1>2
  <2>2. Len(a) \in Nat /\ Len(a) = i - 1
    BY <1>3
  <2>3. PICK t : t = <<m>>
    OBVIOUS
  <2>4. /\ a \o t \in Seq(Sections) /\ Len(a \o t) = i /\ (a \o t)[i] = t[1]
        /\ \A k \in 1 .. i - 1 : (a \o t)[k] = a[k]
    <3>1. a \in Seq(Sections) /\ t \in Seq(Sections) /\ Len(t) = 1 /\ Len(a) + 1 = i /\ i \in Nat
      BY <1>3, <2>1, <2>2, <2>3
    <3>2. /\ a \o t \in Seq(Sections) /\ Len(a \o t) = Len(a) + 1 /\ (a \o t)[Len(a) + 1] = t[1]
          /\ \A k \in 1 .. Len(a) : (a \o t)[k] = a[k]
      <4>1. /\ a \o t \in Seq(Sections) /\ Len(a \o t) = Len(a) + Len(t)
            /\ \A k \in 1 .. Len(a) : (a \o t)[k] = a[k]
            /\ \A k \in 1 .. Len(t) : (a \o t)[Len(a) + k] = t[k]
        <5>1. a \in Seq(Sections) /\ t \in Seq(Sections)
          BY <3>1
        <5> QED
          BY <5>1, PutTogether
      <4>3. (a \o t)[Len(a) + 1] = t[1]
        BY <3>1, <4>1
      <4> QED
        BY <3>1, <4>1, <4>3
    <3> QED
      BY <1>3, <3>1, <3>2
  <2> QED
    BY <2>1, <2>3, <2>4
<1> DEFINE am == a \o <<m>>
<1> HIDE DEF am
<1>6. am \in Seq(Sections) /\ Len(am) = i /\ am[i] = m /\ \A k \in 1 .. i - 1 : am[k] = q[k]
  BY <1>3, <1>5 DEF am
<1>7. /\ Len(am \o b) = Len(q) - 1
      /\ \A k \in 1 .. i : (am \o b)[k] = am[k]
      /\ \A k \in i + 1 .. Len(q) - 1 : (am \o b)[k] = b[k - i]
  <2>1. am \in Seq(Sections) /\ b \in Seq(Sections)
    BY <1>3, <1>6
  <2>2. /\ Len(am \o b) = Len(am) + Len(b)
        /\ \A k \in 1 .. Len(am) : (am \o b)[k] = am[k]
        /\ \A k \in 1 .. Len(b) : (am \o b)[Len(am) + k] = b[k]
    BY <2>1, PutTogether
  <2>3. Len(am) = i /\ Len(b) = Len(q) - i - 1 /\ i \in Nat /\ Len(q) \in Nat
    BY <1>3, <1>6
  <2>4. ASSUME NEW k \in i + 1 .. Len(q) - 1 PROVE (am \o b)[k] = b[k - i]
    <3>1. k - i \in 1 .. Len(b) /\ Len(am) + (k - i) = k
      BY <2>3
    <3> QED
      BY <2>2, <3>1
  <2>5. Len(am \o b) = Len(q) - 1
    BY <2>2, <2>3
  <2> QED
    BY <2>2, <2>3, <2>4, <2>5
<1>8. ASSUME NEW k \in i + 1 .. Len(q) - 1
      PROVE  k - i \in 1 .. Len(q) - i - 1 /\ b[k - i] = q[k + 1]
  <2>1. k - i \in 1 .. Len(q) - i - 1 /\ (k - i) + i + 1 = k + 1
    OBVIOUS
  <2>2. b[k - i] = q[(k - i) + i + 1]
    BY <1>3, <2>1
  <2> QED
    BY <2>1, <2>2
<1>9. MergeAt(q, i) = am \o b
  BY <1>4 DEF am
<1> QED
  BY <1>6, <1>7, <1>8, <1>9 DEF m

\* Two runs of sections, the second of which goes on where the first one ends.
LEMMA Joined ==
  ASSUME NEW p \in Seq(1 .. MaxSections), NEW r \in Seq(1 .. MaxSections), MaxSections \in Nat,
         Successive(p), Successive(r), r[1] = Last(p) + 1
  PROVE  /\ Successive(p \o r) /\ (p \o r)[1] = p[1] /\ Last(p \o r) = Last(r)
         /\ ToSet(p \o r) = ToSet(p) \cup ToSet(r)
<1>1. /\ Len(p) \in Nat \ {0} /\ Len(r) \in Nat \ {0} /\ Len(p \o r) = Len(p) + Len(r)
      /\ \A k \in 1 .. Len(p) : (p \o r)[k] = p[k] /\ p[k] \in Nat
      /\ \A k \in Len(p) + 1 .. Len(p) + Len(r) : (p \o r)[k] = r[k - Len(p)]
      /\ \A k \in 1 .. Len(r) : r[k] \in Nat /\ (p \o r)[Len(p) + k] = r[k]
      /\ DOMAIN p = 1 .. Len(p) /\ DOMAIN r = 1 .. Len(r) /\ DOMAIN (p \o r) = 1 .. Len(p) + Len(r)
  BY SMTT(30) DEF Successive
<1>s. /\ \A k \in 1 .. Len(p) : p[k] = p[1] + k - 1
      /\ \A k \in 1 .. Len(r) : r[k] = r[1] + k - 1
  BY <1>1 DEF Successive
<1>2. r[1] = p[1] + Len(p)
  <2>1. p[Len(p)] = p[1] + Len(p) - 1 /\ p[1] \in Nat
    BY <1>1, <1>s
  <2> QED
    BY <1>1, <2>1 DEF Last
<1>3. ASSUME NEW k \in 1 .. Len(p) + Len(r) PROVE (p \o r)[k] = p[1] + k - 1
  <2>1. CASE k <= Len(p)
    BY <1>1, <1>s, <2>1
  <2>2. CASE k > Len(p)
    <3>1. k - Len(p) \in 1 .. Len(r) /\ k \in Len(p) + 1 .. Len(p) + Len(r)
      BY <1>1, <2>2
    <3>2. r[k - Len(p)] = r[1] + (k - Len(p)) - 1
      BY <1>s, <3>1
    <3> QED
      BY <1>1, <1>2, <3>1, <3>2, SMTT(30)
  <2> QED
    BY <1>1, <2>1, <2>2
<1>4. (p \o r)[1] = p[1] /\ (p \o r)[Len(p) + Len(r)] = r[Len(r)]
  BY <1>1
<1>5. ToSet(p \o r) = ToSet(p) \cup ToSet(r)
  <2>1. ASSUME NEW x \in ToSet(p \o r) PROVE x \in ToSet(p) \cup ToSet(r)
    <3>1. PICK k \in 1 .. Len(p) + Len(r) : x = (p \o r)[k]
      BY <1>1 DEF ToSet
    <3>2. CASE k <= Len(p)
      BY <1>1, <3>1, <3>2 DEF ToSet
    <3>3. CASE k > Len(p)
      <4>1. k - Len(p) \in 1 .. Len(r) /\ k \in Len(p) + 1 .. Len(p) + Len(r)
        BY <1>1, <3>3
      <4> QED
        BY <1>1, <3>1, <4>1 DEF ToSet
    <3> QED
      BY <1>1, <3>2, <3>3
  <2>2. ToSet(p) \subseteq ToSet(p \o r)
    BY <1>1 DEF ToSet
  <2>3. ToSet(r) \subseteq ToSet(p \o r)
    <3> SUFFICES ASSUME NEW k \in 1 .. Len(r) PROVE r[k] \in ToSet(p \o r)
      BY <1>1 DEF ToSet
    <3>1. Len(p) + k \in DOMAIN (p \o r) /\ r[k] = (p \o r)[Len(p) + k]
      BY <1>1
    <3> QED
      BY <3>1 DEF ToSet
  <2> QED
    BY <2>1, <2>2, <2>3
<1>6. p \o r # <<>>
  BY <1>1
<1> QED
  BY <1>1, <1>3, <1>4, <1>5, <1>6 DEF Successive, Last

\* Merging a section with the next keeps the sections' order and their criteria.
LEMMA MergeKeepsParted ==
  ASSUME NEW q \in Seq(Sections), NEW i \in 1 .. Len(q) - 1, MaxSections \in Nat,
         InOneOrder(q), WithTheirSections(q)
  PROVE  InOneOrder(MergeAt(q, i)) /\ WithTheirSections(MergeAt(q, i))
<1> DEFINE m == Absorb(q[i], q[i + 1])
<1>1. PICK r : r = MergeAt(q, i)
  OBVIOUS
<1>2. PICK n : n = Len(q) - 1
  OBVIOUS
<1>3. /\ n \in Nat /\ i \in 1 .. n /\ Len(q) = n + 1 /\ DOMAIN q = 1 .. n + 1
      /\ r \in Seq(Sections) /\ Len(r) = n /\ DOMAIN r = 1 .. n
      /\ r[i] = m /\ \A k \in 1 .. i - 1 : r[k] = q[k]
      /\ \A k \in i + 1 .. n : r[k] = q[k + 1]
  BY <1>1, <1>2, Merged, MergeType
<1>4. /\ q[i].parts \in Seq(1 .. MaxSections) /\ q[i + 1].parts \in Seq(1 .. MaxSections)
      /\ i + 1 \in DOMAIN q \ {1} /\ (i + 1) - 1 = i
  <2>1. q[i] \in Sections /\ q[i + 1] \in Sections
    OBVIOUS
  <2> QED
    BY <1>3, <2>1 DEF Sections
<1>5. /\ Successive(q[i].parts) /\ Successive(q[i + 1].parts)
      /\ q[i + 1].parts[1] = Last(q[i].parts) + 1
  <2>1. PICK j : j = i + 1
    OBVIOUS
  <2>2. j \in DOMAIN q \ {1} /\ j - 1 = i /\ i \in DOMAIN q
    BY <1>3, <1>4, <2>1
  <2>3. /\ Successive(q[i].parts) /\ Successive(q[j].parts)
        /\ q[j].parts[1] = Last(q[j - 1].parts) + 1
    BY <2>2 DEF InOneOrder
  <2> QED
    BY <2>1, <2>2, <2>3
<1>6. m.parts = q[i].parts \o q[i + 1].parts /\ m.criteria = q[i].criteria \cup q[i + 1].criteria
  BY DEF Absorb
<1> HIDE DEF m
<1>7. /\ Successive(m.parts) /\ m.parts[1] = q[i].parts[1] /\ Last(m.parts) = Last(q[i + 1].parts)
      /\ ToSet(m.parts) = ToSet(q[i].parts) \cup ToSet(q[i + 1].parts)
  <2>1. PICK p, p2 : p = q[i].parts /\ p2 = q[i + 1].parts
    OBVIOUS
  <2>2. /\ p \in Seq(1 .. MaxSections) /\ p2 \in Seq(1 .. MaxSections)
        /\ Successive(p) /\ Successive(p2) /\ p2[1] = Last(p) + 1
    BY <1>4, <1>5, <2>1
  <2>3. /\ Successive(p \o p2) /\ (p \o p2)[1] = p[1] /\ Last(p \o p2) = Last(p2)
        /\ ToSet(p \o p2) = ToSet(p) \cup ToSet(p2)
    BY <2>2, Joined
  <2> QED
    BY <1>6, <2>1, <2>3
\* Where a section of the result begins and ends among those before.
<1>8. ASSUME NEW k \in 1 .. n
      PROVE  \E x, y \in 1 .. n + 1 :
               /\ r[k].parts[1] = q[x].parts[1] /\ Last(r[k].parts) = Last(q[y].parts)
               /\ x = (IF k <= i THEN k ELSE k + 1) /\ y = (IF k < i THEN k ELSE k + 1)
               /\ Successive(r[k].parts)
  <2>1. CASE k < i
    BY <1>3, <2>1 DEF InOneOrder
  <2>2. CASE k = i
    BY <1>3, <1>7, <2>2
  <2>3. CASE k > i
    <3>1. k + 1 \in 1 .. n + 1 /\ r[k] = q[k + 1]
      BY <1>3, <2>3
    <3> QED
      BY <1>3, <2>3, <3>1 DEF InOneOrder
  <2> QED
    BY <1>3, <2>1, <2>2, <2>3
<1>9. InOneOrder(r)
  <2>1. r # <<>> /\ \A v \in DOMAIN r : Successive(r[v].parts)
    BY <1>3, <1>8
  <2>2. r[1].parts[1] = 1
    BY <1>3, <1>8 DEF InOneOrder
  <2>3. Last(r[Len(r)].parts) = SectionCount
    <3>1. Last(r[n].parts) = Last(q[n + 1].parts)
      BY <1>3, <1>8
    <3> QED
      BY <1>3, <3>1 DEF InOneOrder
  <2>4. ASSUME NEW v \in DOMAIN r \ {1} PROVE r[v].parts[1] = Last(r[v - 1].parts) + 1
    <3> DEFINE x == IF v <= i THEN v ELSE v + 1
    <3>1. v \in 1 .. n /\ v - 1 \in 1 .. n
      BY <1>3
    <3>2. r[v].parts[1] = q[x].parts[1]
      BY <1>8, <3>1
    <3>3. Last(r[v - 1].parts) = Last(q[x - 1].parts)
      <4>1. x - 1 = IF v - 1 < i THEN v - 1 ELSE (v - 1) + 1
        BY <1>3, <3>1
      <4> QED
        BY <1>8, <3>1, <4>1
    <3>4. x \in DOMAIN q \ {1}
      BY <1>3, <3>1
    <3> QED
      BY <3>2, <3>3, <3>4 DEF InOneOrder
  <2> QED
    BY <2>1, <2>2, <2>3, <2>4 DEF InOneOrder
<1>10. WithTheirSections(r)
  <2> SUFFICES ASSUME NEW v \in DOMAIN r, NEW c \in Criteria, home[c] \in 1 .. SectionCount
               PROVE c \in r[v].criteria <=> home[c] \in ToSet(r[v].parts)
    BY DEF WithTheirSections
  <2>1. CASE v < i
    BY <1>3, <2>1 DEF WithTheirSections
  <2>2. CASE v = i
    <3>1. i \in DOMAIN q /\ i + 1 \in DOMAIN q
      BY <1>3
    <3>2. /\ c \in q[i].criteria <=> home[c] \in ToSet(q[i].parts)
          /\ c \in q[i + 1].criteria <=> home[c] \in ToSet(q[i + 1].parts)
      BY <3>1 DEF WithTheirSections
    <3> QED
      BY <1>3, <1>6, <1>7, <2>2, <3>2
  <2>3. CASE v > i
    <3>1. v + 1 \in DOMAIN q /\ r[v] = q[v + 1]
      BY <1>3, <2>3
    <3> QED
      BY <3>1 DEF WithTheirSections
  <2> QED
    BY <1>3, <2>1, <2>2, <2>3
<1> QED
  BY <1>1, <1>9, <1>10

\* How many sections there are is settled from the start.
LEMMA WholeFind == ASSUME WholeInv, SliceInv', FindSections PROVE WholeInv'
<1> DEFINE good == {i \in DOMAIN Ways : found[Ways[i]] >= 2}
           n    == IF good = {} THEN 0 ELSE found[Ways[Min(good)]]
<1>1. /\ stage = "find" /\ UNCHANGED <<large, home, touches, found, cursor, vehicles>>
      /\ IF PassThrough(n) THEN stage' = "single" /\ UNCHANGED <<sections, unmapped>>
         ELSE /\ sections' = [i \in 1 .. n |-> Section(i)]
              /\ unmapped' = {c \in Criteria : home[c] \notin 1 .. n}
              /\ stage' = "distribute"
  BY DEF FindSections, spec
<1>2. OneWay' /\ SpecOK /\ MaxSections \in Nat /\ Bounded
  BY <1>1 DEF WholeInv, OneWay, SliceInv
<1>3. CASE PassThrough(n)
  <2>1. stage' = "single" /\ Bounded'
    BY <1>1, <1>2, <1>3 DEF Bounded
  <2> QED
    BY <1>2, <2>1 DEF WholeInv
<1>4. CASE ~PassThrough(n)
  <2>1. good # {} /\ n >= 2
    <3>1. n \in Nat /\ ~(n < 2)
      <4>1. ~(n < 2)
        BY <1>4 DEF PassThrough
      <4>2. good # {} => Min(good) \in good
        <5>1. good \subseteq Nat
          BY WaysAre
        <5> QED
          BY <5>1, MinIsLeast
      <4>3. good # {} => found[Ways[Min(good)]] \in Nat
        BY <1>2, <4>2, WaysAre DEF SpecOK
      <4> QED
        BY <4>1, <4>3
    <3>2. good = {} => n = 0
      OBVIOUS
    <3> QED
      BY <3>1, <3>2
  <2>2. Min(good) \in good
    <3>1. good \subseteq Nat
      BY WaysAre
    <3> QED
      BY <2>1, <3>1, MinIsLeast
  <2>3. PICK w : w = Ways[Min(good)]
    OBVIOUS
  <2>4. w \in ToSet(Ways) /\ found[w] >= 2 /\ n = found[w]
    BY <2>1, <2>2, <2>3 DEF ToSet
  <2>5. SectionCount = n
    <3>1. \A x \in ToSet(Ways) : found[x] >= 2 => x = w
      BY <2>4 DEF WholeInv, OneWay
    <3>2. (CHOOSE x \in ToSet(Ways) : found[x] >= 2) = w
      BY <2>4, <3>1
    <3> QED
      BY <2>4, <3>2 DEF SectionCount
  <2>6. n \in 2 .. MaxSections
    BY <1>2, <2>4, WaysAre DEF SpecOK
  <2>7. PICK k : k = n
    OBVIOUS
  <2> HIDE DEF n, good
  <2>8. /\ sections' = [i \in 1 .. k |-> Section(i)] /\ stage' = "distribute"
        /\ unmapped' = {c \in Criteria : home[c] \notin 1 .. k}
        /\ k \in 2 .. MaxSections /\ SectionCount' = k /\ Len(sections') = k
        /\ DOMAIN sections' = 1 .. k /\ \A i : Section(i)' = Section(i)
    BY <1>1, <1>2, <1>4, <2>5, <2>6, <2>7 DEF SectionCount, Section
  <2>9. Bounded'
    BY <1>1, <1>2, <2>8 DEF Bounded
  <2>10. \A i \in 1 .. k : /\ sections'[i].parts = <<i>>
                           /\ sections'[i].criteria = {c \in Criteria : home[c] = i}
    BY <2>8 DEF Section
  <2>11. \A i \in 1 .. k : /\ <<i>> # <<>> /\ <<i>>[1] = i /\ Last(<<i>>) = i /\ DOMAIN <<i>> = {1}
                           /\ ToSet(<<i>>) = {i}
    BY DEF Last, ToSet
  <2>12. InOneOrder(sections)'
    <3>1. \A i \in 1 .. k : Successive(<<i>>)
      <4> SUFFICES ASSUME NEW i \in 1 .. k PROVE Successive(<<i>>)
        OBVIOUS
      <4>1. <<i>> # <<>> /\ <<i>>[1] = i /\ DOMAIN <<i>> = {1} /\ i = i + 1 - 1
        OBVIOUS
      <4> QED
        BY <4>1 DEF Successive
    <3>2. \A i \in DOMAIN sections' : Successive(sections'[i].parts)
      BY <2>8, <2>10, <3>1
    <3>3. sections' # <<>> /\ 1 \in 1 .. k /\ k \in 1 .. k
      BY <1>2, <2>8
    <3>4. sections'[1].parts[1] = 1 /\ Last(sections'[k].parts) = k
      BY <2>10, <2>11, <3>3
    <3>5. ASSUME NEW v \in DOMAIN sections' \ {1}
          PROVE  sections'[v].parts[1] = Last(sections'[v - 1].parts) + 1
      <4>1. v \in 1 .. k /\ v - 1 \in 1 .. k /\ (v - 1) + 1 = v
        BY <1>2, <2>8
      <4> QED
        BY <2>10, <2>11, <4>1
    <3> QED
      BY <2>8, <3>2, <3>3, <3>4, <3>5 DEF InOneOrder
  <2>13. WithTheirSections(sections)'
    <3>1. ASSUME NEW v \in 1 .. k, NEW c \in Criteria
          PROVE  c \in sections'[v].criteria <=> home'[c] \in ToSet(sections'[v].parts)
      <4>1. sections'[v].criteria = {d \in Criteria : home[d] = v} /\ ToSet(sections'[v].parts) = {v}
        BY <2>10, <2>11
      <4> QED
        BY <1>1, <4>1
    <3> QED
      BY <2>8, <3>1 DEF WithTheirSections
  <2>14. Parted'
    BY <2>12, <2>13 DEF Parted, InOneOrder, WithTheirSections
  <2> QED
    BY <1>1, <1>2, <2>8, <2>9, <2>14 DEF WholeInv
<1> QED
  BY <1>3, <1>4

\* The criteria without a section go to one that has none.
LEMMA WholeDistribute == ASSUME WholeInv, SliceInv', Distribute PROVE WholeInv'
<1>1. /\ stage = "distribute" /\ stage' = "merge" /\ cursor' = 1
      /\ UNCHANGED <<large, home, touches, found, vehicles>>
  BY DEF Distribute, spec
<1>2. /\ SectionCount' = SectionCount /\ OneWay' /\ SectionCount \in 2 .. MaxSections
      /\ MaxSections \in Nat /\ sections \in Seq(Sections) /\ Len(sections) <= MaxSections
      /\ InOneOrder(sections) /\ WithTheirSections(sections)
      /\ unmapped = {c \in Criteria : home[c] \notin 1 .. SectionCount}
      /\ sections = [i \in 1 .. SectionCount |-> Section(i)]
  BY <1>1 DEF WholeInv, OneWay, SectionCount, SliceInv, Bounded, Parted
<1>3. sections # <<>> /\ Len(sections) \in Nat \ {0} /\ DOMAIN sections = 1 .. Len(sections)
  BY <1>2 DEF InOneOrder
<1>4. ASSUME Len(sections') = Len(sections), DOMAIN sections' = DOMAIN sections,
             \A v \in DOMAIN sections : sections'[v].parts = sections[v].parts,
             WithTheirSections(sections)',
             unmapped' # {} => \A i \in 1 .. SectionCount : \E c \in Criteria : home[c] = i
      PROVE  WholeInv'
  <2>1. InOneOrder(sections)'
    <3>1. sections' # <<>> /\ \A v \in DOMAIN sections' : Successive(sections'[v].parts)
      BY <1>2, <1>3, <1>4 DEF InOneOrder
    <3>2. /\ 1 \in DOMAIN sections /\ Len(sections) \in DOMAIN sections
          /\ \A v \in DOMAIN sections \ {1} : v - 1 \in DOMAIN sections
      BY <1>3
    <3>3. sections'[1].parts[1] = 1 /\ Last(sections'[Len(sections')].parts) = SectionCount'
      BY <1>2, <1>4, <3>2 DEF InOneOrder
    <3>4. \A v \in DOMAIN sections' \ {1} : sections'[v].parts[1] = Last(sections'[v - 1].parts) + 1
      BY <1>2, <1>4, <3>2 DEF InOneOrder
    <3> QED
      BY <3>1, <3>3, <3>4 DEF InOneOrder
  <2>2. PassedHaveCriteria'
    BY <1>1, <1>3, <1>4 DEF PassedHaveCriteria
  <2>3. Bounded' /\ cursor' \in 1 .. Len(sections') + 1
    BY <1>1, <1>2, <1>3, <1>4 DEF Bounded
  <2> QED
    BY <1>1, <1>2, <1>4, <2>1, <2>2, <2>3 DEF WholeInv, Parted
<1>5. CASE Bare = {}
  <2>1. UNCHANGED <<sections, unmapped>>
    BY <1>5 DEF Distribute
  <2>2. WithTheirSections(sections)'
    BY <1>1, <1>2, <2>1 DEF WithTheirSections
  <2>3. ASSUME NEW i \in 1 .. SectionCount PROVE \E c \in Criteria : home[c] = i
    <3>1. sections[i].criteria = {c \in Criteria : home[c] = i} /\ i \in DOMAIN sections
      BY <1>2 DEF Section
    <3> QED
      BY <1>5, <3>1 DEF Bare
  <2> QED
    BY <1>4, <2>1, <2>2, <2>3
<1>6. CASE Bare # {}
  <2>1. PICK k : k = Min(Bare)
    OBVIOUS
  <2>2. k \in DOMAIN sections /\ sections[k].criteria = {}
    <3>1. Bare \subseteq Nat
      BY <1>3 DEF Bare
    <3>2. k \in Bare
      BY <1>6, <2>1, <3>1, MinIsLeast
    <3> QED
      BY <3>2 DEF Bare
  <2>3. /\ sections' = [sections EXCEPT ![k] = [sections[k] EXCEPT !.criteria = unmapped]]
        /\ unmapped' = {}
    BY <1>6, <2>1 DEF Distribute
  <2>4. \A v \in DOMAIN sections : v # k => sections'[v] = sections[v]
    BY <2>3
  <2>5. sections[k] \in Sections /\ sections'[k] = [sections[k] EXCEPT !.criteria = unmapped]
    BY <1>2, <2>2, <2>3
  <2>6. sections'[k].parts = sections[k].parts /\ sections'[k].criteria = unmapped
    BY <2>5 DEF Sections
  <2>7. DOMAIN sections' = DOMAIN sections /\ sections' \in Seq(Sections)
    BY <2>3 DEF SliceInv
  <2>8. Len(sections') = Len(sections)
    BY <1>2, <2>7
  <2>9. WithTheirSections(sections)'
    <3> SUFFICES ASSUME NEW v \in DOMAIN sections, NEW c \in Criteria, home[c] \in 1 .. SectionCount
                 PROVE c \in sections'[v].criteria <=> home[c] \in ToSet(sections'[v].parts)
      BY <1>1, <1>2, <2>7 DEF WithTheirSections
    <3>1. c \in sections[v].criteria <=> home[c] \in ToSet(sections[v].parts)
      BY <1>2 DEF WithTheirSections
    <3>2. c \notin unmapped
      BY <1>2
    <3> QED
      BY <2>2, <2>4, <2>6, <3>1, <3>2
  <2> QED
    BY <1>4, <2>3, <2>4, <2>6, <2>7, <2>8, <2>9
<1> QED
  BY <1>5, <1>6

\* What was to be shown of a merge of the i-th section with the next.
LEMMA WholeAfterMerge ==
  ASSUME WholeInv, SliceInv', stage = "merge", stage' = "merge", NEW i \in 1 .. Len(sections) - 1,
         sections' = MergeAt(sections, i), cursor' = i, i \in Bare \/ i + 1 \in Bare,
         cursor = i \/ cursor = i + 1,
         UNCHANGED <<spec, unmapped, vehicles>>
  PROVE  WholeInv'
<1>1. /\ SectionCount' = SectionCount /\ OneWay' /\ SectionCount \in 2 .. MaxSections
      /\ MaxSections \in Nat /\ sections \in Seq(Sections) /\ Len(sections) <= MaxSections
      /\ InOneOrder(sections) /\ WithTheirSections(sections) /\ PassedHaveCriteria
      /\ unmapped # {} => \A k \in 1 .. SectionCount : \E c \in Criteria : home[c] = k
  BY DEF spec, WholeInv, OneWay, SectionCount, SliceInv, Bounded, Parted
<1>2. InOneOrder(MergeAt(sections, i)) /\ WithTheirSections(MergeAt(sections, i))
  BY <1>1, MergeKeepsParted
<1>3. InOneOrder(sections)' /\ WithTheirSections(sections)'
  BY <1>1, <1>2 DEF InOneOrder, WithTheirSections, spec
<1>4. /\ Len(sections') = Len(sections) - 1 /\ sections'[i] = Absorb(sections[i], sections[i + 1])
      /\ \A k \in 1 .. i - 1 : sections'[k] = sections[k]
      /\ \A k \in i + 1 .. Len(sections) - 1 : sections'[k] = sections[k + 1]
      /\ sections' \in Seq(Sections)
  BY <1>1, Merged, MergeType
<1>5. PICK n : n = Len(sections) - 1
  OBVIOUS
<1>6. /\ n \in Nat /\ i \in 1 .. n /\ DOMAIN sections = 1 .. n + 1 /\ DOMAIN sections' = 1 .. n
      /\ Len(sections') = n /\ Len(sections) = n + 1
  BY <1>1, <1>4, <1>5
<1>7. Bounded' /\ cursor' \in 1 .. Len(sections') + 1
  BY <1>1, <1>6 DEF Bounded
<1>8. PassedHaveCriteria'
  <2> SUFFICES ASSUME NEW v \in 1 .. n, sections'[v].criteria # {}, NEW u \in 1 .. n, u < i
               PROVE sections'[u].criteria # {}
    BY <1>6 DEF PassedHaveCriteria
  <2>1. \E x \in DOMAIN sections : sections[x].criteria # {}
    <3>1. CASE v < i
      BY <1>4, <1>6, <3>1
    <3>2. CASE v = i
      <4>1. sections'[i].criteria = sections[i].criteria \cup sections[i + 1].criteria
        BY <1>4 DEF Absorb
      <4>2. i \in DOMAIN sections /\ i + 1 \in DOMAIN sections
        BY <1>6
      <4>3. sections[i].criteria # {} \/ sections[i + 1].criteria # {}
        BY <3>2, <4>1
      <4> QED
        BY <4>2, <4>3
    <3>3. CASE v > i
      <4>1. v + 1 \in DOMAIN sections /\ sections'[v] = sections[v + 1]
        BY <1>4, <1>6, <3>3
      <4> QED
        BY <4>1
    <3> QED
      BY <1>6, <3>1, <3>2, <3>3
  <2>2. u \in DOMAIN sections /\ u < cursor /\ sections'[u] = sections[u]
    BY <1>4, <1>6
  <2> QED
    BY <1>1, <2>1, <2>2 DEF PassedHaveCriteria
<1> QED
  BY <1>1, <1>3, <1>7, <1>8 DEF WholeInv, Parted, spec

LEMMA WholeMerge == ASSUME WholeInv, SliceInv', Merge PROVE WholeInv'
<1>1. /\ stage = "merge" /\ stage' = "merge" /\ cursor <= Len(sections)
      /\ UNCHANGED <<spec, unmapped, vehicles>>
  BY DEF Merge
<1>2. /\ cursor \in 1 .. Len(sections) + 1 /\ sections \in Seq(Sections) /\ Len(sections) \in Nat
      /\ DOMAIN sections = 1 .. Len(sections)
  BY <1>1 DEF WholeInv, SliceInv
<1>3. CASE cursor \in Bare /\ cursor < Len(sections)
  <2>1. sections' = MergeAt(sections, cursor) /\ cursor' = cursor
    BY <1>3 DEF Merge
  <2>2. cursor \in 1 .. Len(sections) - 1
    BY <1>2, <1>3
  <2> QED
    BY <1>1, <1>3, <2>1, <2>2, WholeAfterMerge
<1>4. CASE cursor \in Bare /\ cursor = Len(sections) /\ cursor > 1
  <2>1. sections' = MergeAt(sections, cursor - 1) /\ cursor' = cursor - 1
    BY <1>4 DEF Merge
  <2>2. PICK i : i = cursor - 1
    OBVIOUS
  <2>3. i \in 1 .. Len(sections) - 1 /\ cursor = i + 1
    BY <1>2, <1>4, <2>2
  <2> QED
    BY <1>1, <1>4, <2>1, <2>2, <2>3, WholeAfterMerge
\* Looked at and left: it has criteria, or is the only one there is.
<1>5. ASSUME sections' = sections, cursor' = cursor + 1,
             cursor \notin Bare \/ (cursor = 1 /\ Len(sections) = 1 /\ cursor \in Bare)
      PROVE  WholeInv'
  <2>1. PassedHaveCriteria'
    <3> SUFFICES ASSUME NEW v \in DOMAIN sections, sections[v].criteria # {},
                        NEW u \in DOMAIN sections, u < cursor + 1
                 PROVE sections[u].criteria # {}
      BY <1>5 DEF PassedHaveCriteria
    <3>1. CASE u < cursor
      BY <1>1, <3>1 DEF WholeInv, PassedHaveCriteria
    <3>2. CASE u = cursor
      <4>1. CASE cursor \notin Bare
        BY <3>2, <4>1 DEF Bare
      <4>2. CASE cursor = 1 /\ Len(sections) = 1 /\ cursor \in Bare
        BY <1>2, <4>2 DEF Bare
      <4> QED
        BY <1>5, <4>1, <4>2
    <3> QED
      BY <1>2, <3>1, <3>2
  <2>2. cursor' \in 1 .. Len(sections) + 1
    BY <1>1, <1>2, <1>5
  <2>3. OneWay' /\ SectionCount' = SectionCount /\ Parted' = Parted
    BY <1>1, <1>5 DEF WholeInv, OneWay, SectionCount, Parted, InOneOrder, WithTheirSections, spec
  <2>4. Bounded'
    BY <1>1, <1>2, <1>5, <2>2 DEF WholeInv, Bounded, SliceInv
  <2> QED
    BY <1>1, <1>5, <2>1, <2>2, <2>3, <2>4 DEF WholeInv, spec
<1>6. CASE cursor \notin Bare
  BY <1>5, <1>6 DEF Merge
<1>7. CASE cursor \in Bare /\ cursor = Len(sections) /\ cursor = 1
  <2>1. cursor' = 2 /\ sections' = sections
    BY <1>7 DEF Merge
  <2> QED
    BY <1>5, <1>7, <2>1
<1>8. cursor = 1 \/ cursor > 1
  BY <1>2
<1>9. cursor < Len(sections) \/ cursor = Len(sections)
  <2>1. cursor \in Nat /\ Len(sections) \in Nat /\ cursor <= Len(sections)
    BY <1>1, <1>2
  <2> QED
    BY <2>1
<1> QED
  BY <1>3, <1>4, <1>6, <1>7, <1>8, <1>9

LEMMA WholeStep == WholeInv /\ [SlicerNext]_slicerVars => WholeInv'
<1> SUFFICES ASSUME WholeInv, [SlicerNext]_slicerVars PROVE WholeInv'
  OBVIOUS
<1>1. SliceInv'
  BY SliceStep DEF WholeInv
<1>2. CASE BuildVehicles
  <2>1. /\ UNCHANGED <<spec, sections, unmapped, cursor>>
        /\ stage = "merge" /\ cursor > Len(sections) /\ stage' = "run"
    BY <1>2 DEF BuildVehicles
  <2>2. /\ OneWay' = OneWay /\ SectionCount' = SectionCount /\ Parted' = Parted /\ Bounded' = Bounded
        /\ PassedHaveCriteria' = PassedHaveCriteria
    BY <2>1 DEF OneWay, SectionCount, Parted, InOneOrder, WithTheirSections, Bounded,
       PassedHaveCriteria, spec
  <2>3. cursor = Len(sections) + 1
    BY <2>1 DEF WholeInv, SliceInv
  <2> QED
    BY <1>1, <2>1, <2>2, <2>3 DEF WholeInv, spec
<1>3. CASE Run \/ UNCHANGED slicerVars
  <2>1. UNCHANGED <<spec, stage, sections, unmapped, cursor, vehicles>>
    BY <1>3 DEF Run, StartVehicle, VehicleCompletes, slicerVars, spec
  <2>2. /\ OneWay' = OneWay /\ SectionCount' = SectionCount /\ Parted' = Parted /\ Bounded' = Bounded
        /\ PassedHaveCriteria' = PassedHaveCriteria /\ \A i : Section(i)' = Section(i)
    BY <2>1 DEF OneWay, SectionCount, Parted, InOneOrder, WithTheirSections, Bounded,
       PassedHaveCriteria, Section, spec
  <2> QED
    BY <1>1, <2>1, <2>2 DEF WholeInv, spec
<1> QED
  BY <1>1, <1>2, <1>3, WholeFind, WholeDistribute, WholeMerge DEF SlicerNext, Slice

\* The invariant of cutting a spec, merging its sections and running the vehicles.
THEOREM SlicingCorrect == SlicerSpec => []WholeInv
<1> QED
  BY WholeInit, WholeStep, PTL DEF SlicerSpec

\* However a spec is cut and its sections merged, the vehicles are all of it, in
\* its order, each with its criteria, and none without if any has (slice_spec).
THEOREM SpecStaysWhole == SlicerSpec => []SpecIsWhole
<1>1. WholeInv => SpecIsWhole
  <2> SUFFICES ASSUME WholeInv, stage = "run" PROVE SpecIsWhole
    BY DEF SpecIsWhole
  <2>1. /\ cursor = Len(sections) + 1 /\ sections \in Seq(Sections) /\ Parted /\ PassedHaveCriteria
        /\ unmapped # {} => \A i \in 1 .. SectionCount : \E c \in Criteria : home[c] = i
    BY DEF WholeInv, SliceInv
  <2>2. \A v \in DOMAIN sections : v < cursor
    BY <2>1
  <2> QED
    BY <2>1, <2>2 DEF SpecIsWhole, Parted, PassedHaveCriteria
<1> QED
  BY <1>1, SlicingCorrect, PTL

LEMMA SlicerType == WholeInv => SlicerTypeOK
<1> SUFFICES ASSUME WholeInv PROVE SlicerTypeOK
  OBVIOUS
<1>1. /\ SliceInv /\ Bounded /\ MaxSections \in Nat /\ sections \in Seq(Sections)
      /\ Len(sections) <= MaxSections /\ Len(sections) \in Nat
      /\ DOMAIN sections = 1 .. Len(sections)
  BY DEF WholeInv, SliceInv, Bounded
<1>2. vehicles \in Seq([depends_on : SUBSET (1 .. MaxSections), parallelizable : BOOLEAN])
  <2>1. CASE stage = "run"
    <3>1. \A i \in 1 .. Len(sections) :
            /\ DependsOn(i) \in SUBSET (1 .. MaxSections) /\ Parallelizable(i) \in BOOLEAN
      BY <1>1 DEF DependsOn, Parallelizable
    <3>2. vehicles = [i \in 1 .. Len(sections) |->
                        [depends_on |-> DependsOn(i), parallelizable |-> Parallelizable(i)]]
      BY <1>1, <2>1 DEF SliceInv
    <3> QED
      BY <1>1, <3>1, <3>2
  <2>2. CASE stage # "run"
    BY <1>1, <2>2 DEF SliceInv
  <2> QED
    BY <2>1, <2>2
<1> QED
  BY <1>1, <1>2 DEF WholeInv, SliceInv, Bounded, SlicerTypeOK, Sections

-----------------------------------------------------------------------------
(* SpecPipeline: the spec files.                                           *)

\* The part of the type that the files rest on.
FileRecords == [spec : Nat, task : Nat, status : {"none", "sent", "completed", "failed"},
                retro : {"none", "pending", "written", "blank"}]
TaskRecords == [spec : Nat, status : {"pending", "working", "completed", "failed", "ended_past"}]
StepNames   == {"idle", "gates", "plan", "name", "save", "post", "linkPlan", "linkFile"}
FilesOK == /\ files \in [Names -> FileRecords] /\ sends \in Nat
           /\ own \in [Clients -> Nat] /\ got \in [Clients -> Nat]
           /\ step \in [Clients -> StepNames]
           /\ path = [c \in Clients |-> path[c]]
           /\ tasks \in Seq(TaskRecords)

\* The steps between the choice of a name and the last write of its file.
Naming == {"save", "post", "linkPlan", "linkFile"}
\* A name that is about to be saved is free, and a name in two hands is clashed.
NameIsFree == \A c \in Clients : step[c] = "save" /\ path[c] \notin clashed => ~Exists(path[c])
OneHand == \A c, d \in Clients :
             c # d /\ {step[c], step[d]} \subseteq Naming /\ path[c] = path[d] => path[c] \in clashed
FileInv == FilesOK /\ NameIsFree /\ OneHand

LEMMA FileInit == PipelineInit => FileInv
<1> SUFFICES ASSUME PipelineInit PROVE FileInv
  OBVIOUS
<1>1. tasks \in Seq(TaskRecords) /\ NoFile \in FileRecords
  BY DEF PipelineInit, NoFile, FileRecords
<1>2. FilesOK
  BY <1>1 DEF PipelineInit, FilesOK, StepNames
<1>3. QED
  BY <1>2 DEF PipelineInit, FileInv, NameIsFree, OneHand, Naming

\* Steps that write no file and choose no name.
Elsewhere(c) == RetroGate(c) \/ OtherGates(c) \/ CreatePlan(c) \/ PostSpec(c) \/ LinkPlan(c)
                \/ ClientDies(c)
LEMMA ElsewhereKeeps ==
  ASSUME FileInv, NEW c \in Clients, Elsewhere(c) PROVE FileInv' /\ files' = files
<1> USE DEF FileInv, FilesOK
<1>1. files' = files /\ clashed' = clashed
  BY DEF Elsewhere, RetroGate, OtherGates, CreatePlan, PostSpec, LinkPlan, ClientDies, shared, books
<1>2. /\ step' = [step EXCEPT ![c] = step'[c]] /\ step'[c] \in StepNames
      /\ step'[c] # "save"
      /\ step'[c] \in Naming => step[c] \in Naming /\ path'[c] = path[c]
  BY DEF StepNames, Elsewhere, RetroGate, OtherGates, CreatePlan, PostSpec, LinkPlan, ClientDies, Moves, Naming
<1>3. /\ path' = [d \in Clients |-> path'[d]]
      /\ \A d \in Clients \ {c} : path'[d] = path[d]
  BY DEF Elsewhere, RetroGate, OtherGates, CreatePlan, PostSpec, LinkPlan, ClientDies
<1>4. tasks' \in Seq(TaskRecords)
  <2>1. [spec |-> own[c], status |-> "pending"] \in TaskRecords
    BY DEF TaskRecords
  <2>2. tasks' = tasks \/ tasks' = Append(tasks, [spec |-> own[c], status |-> "pending"])
    BY DEF Elsewhere, RetroGate, OtherGates, CreatePlan, PostSpec, LinkPlan, ClientDies, shared,
       NewTask
  <2>3. ASSUME NEW x \in TaskRecords PROVE Append(tasks, x) \in Seq(TaskRecords)
    OBVIOUS
  <2>4. QED
    BY <2>1, <2>2, <2>3
<1>5. sends' \in Nat /\ own' \in [Clients -> Nat] /\ got' \in [Clients -> Nat]
  <2>1. CASE PostSpec(c)
    <3>1. sends' = sends /\ (own' = own \/ own' = [own EXCEPT ![c] = 0])
      BY <2>1 DEF PostSpec
    <3>2. got' = got \/ got' = [got EXCEPT ![c] = Len(tasks')]
      BY <2>1 DEF PostSpec
    <3>3. Len(tasks') \in Nat
      BY <1>4
    <3>4. got' \in [Clients -> Nat]
      BY <3>2, <3>3
    <3>5. own' \in [Clients -> Nat]
      BY <3>1
    <3>6. QED
      BY <3>1, <3>4, <3>5
  <2>2. CASE RetroGate(c)
    <3>1. /\ sends' = sends + 1 /\ own' = [own EXCEPT ![c] = sends + 1] /\ got' = got
      BY <2>2 DEF RetroGate
    <3>2. QED
      BY <3>1
  <2>3. CASE OtherGates(c)
    <3>1. sends' = sends /\ (own' = own \/ own' = [own EXCEPT ![c] = 0]) /\ got' = got
      BY <2>3 DEF OtherGates
    <3>2. QED
      BY <3>1
  <2>4. CASE CreatePlan(c) \/ LinkPlan(c)
    BY <2>4 DEF CreatePlan, LinkPlan
  <2>5. CASE ClientDies(c)
    <3>1. /\ sends' = sends /\ own' = [own EXCEPT ![c] = 0]
          /\ got' = [got EXCEPT ![c] = 0]
      BY <2>5 DEF ClientDies
    <3>2. QED
      BY <3>1
  <2>6. QED
    BY <2>1, <2>2, <2>3, <2>4, <2>5 DEF Elsewhere
<1>6. FilesOK'
  BY <1>1, <1>2, <1>3, <1>4, <1>5
<1>7. NameIsFree'
  BY <1>1, <1>2, <1>3 DEF NameIsFree, Exists
<1>8. OneHand'
  <2>1. \A d \in Clients : step'[d] \in Naming => step[d] \in Naming /\ path'[d] = path[d]
    BY <1>2, <1>3
  <2>2. QED
    BY <1>1, <2>1 DEF OneHand
<1>9. QED
  BY <1>1, <1>6, <1>7, <1>8

\* A name is chosen when it is free; if somebody else has it in hand already,
\* it is clashed from now on.
LEMMA ChooseKeeps ==
  ASSUME FileInv, NEW c \in Clients, ChooseName(c) PROVE FileInv' /\ files' = files
<1> USE DEF FileInv, FilesOK
<1>1. /\ UNCHANGED <<sends, files, tasks, own, got>>
      /\ step' = [step EXCEPT ![c] = "save"]
  BY DEF ChooseName, Moves, shared, StepNames
<1>2. /\ path' = [path EXCEPT ![c] = path'[c]] /\ ~Exists(path'[c])
      /\ clashed' = IF \E d \in Clients \ {c} : step[d] # "idle" /\ path[d] = path'[c]
                      THEN clashed \cup {path'[c]} ELSE clashed
  BY DEF ChooseName, UniqueName
<1>3. FilesOK'
  BY <1>1, <1>2 DEF StepNames
<1>4. NameIsFree'
  BY <1>1, <1>2 DEF NameIsFree, Exists
<1>5. OneHand'
  <2> SUFFICES ASSUME NEW d \in Clients, NEW e \in Clients, d # e,
                      {step'[d], step'[e]} \subseteq Naming, path'[d] = path'[e]
               PROVE  path'[d] \in clashed'
    BY DEF OneHand
  <2>1. CASE d # c /\ e # c
    BY <2>1, <1>1, <1>2 DEF OneHand
  <2>2. ASSUME NEW f \in Clients \ {c}, step'[f] \in Naming, path'[f] = path'[c]
        PROVE  path'[c] \in clashed'
    <3>1. step[f] # "idle" /\ path[f] = path'[c]
      BY <2>2, <1>1, <1>2 DEF Naming
    <3>2. QED
      BY <3>1, <1>2
  <2>3. QED
    BY <2>1, <2>2
<1>6. QED
  BY <1>1, <1>3, <1>4, <1>5

\* A save makes a name taken that nobody else has in hand, unless it clashed.
LEMMA SaveKeeps ==
  ASSUME FileInv, NEW c \in Clients, SaveFile(c)
  PROVE  /\ FileInv'
         /\ \A n \in Names \ clashed : Exists(n) => files'[n] = files[n]
<1> USE DEF FileInv, FilesOK
<1>1. /\ UNCHANGED <<sends, tasks, own, got, path, clashed>>
      /\ step[c] = "save" /\ step' = [step EXCEPT ![c] = "post"]
      /\ files' = [files EXCEPT ![path[c]] =
                     [spec |-> own[c], task |-> 0, status |-> "sent", retro |-> "pending"]]
  BY DEF SaveFile, Moves, books
<1>2. FilesOK'
  <2>1. [spec |-> own[c], task |-> 0, status |-> "sent", retro |-> "pending"] \in FileRecords
    BY DEF FileRecords
  <2>2. files' \in [Names -> FileRecords]
    BY <1>1, <2>1
  <2>3. QED
    BY <1>1, <2>2 DEF StepNames
<1>3. NameIsFree'
  <2> SUFFICES ASSUME NEW d \in Clients, step'[d] = "save", path'[d] \notin clashed'
               PROVE  files'[path'[d]] = NoFile
    BY DEF NameIsFree, Exists
  <2>1. d # c /\ step[d] = "save" /\ path[d] \notin clashed
    BY <1>1
  <2>2. path[d] # path[c]
    BY <2>1, <1>1 DEF OneHand, Naming
  <2>3. files[path[d]] = NoFile
    BY <2>1 DEF NameIsFree, Exists
  <2>4. files'[path[d]] = files[path[d]]
    BY <1>1, <2>2
  <2>5. QED
    BY <1>1, <2>3, <2>4
<1>4. OneHand'
  BY <1>1 DEF OneHand, Naming
<1>5. ASSUME NEW n \in Names \ clashed, Exists(n) PROVE files'[n] = files[n]
  <2>1. n # path[c]
    BY <1>5, <1>1 DEF NameIsFree
  <2>2. QED
    BY <1>1, <2>1
<1>6. QED
  BY <1>2, <1>3, <1>4, <1>5

\* The task's id, and the PM's word and text, are written into a file that is
\* there or is not: which spec it has stays.
LEMMA WritesKeep ==
  ASSUME FileInv, NEW c \in Clients, LinkFile(c) \/ CloseTask(c)
  PROVE  /\ FileInv'
         /\ \A n \in Names : files'[n].spec = files[n].spec
<1> USE DEF FileInv, FilesOK
<1>1. CASE LinkFile(c)
  <2>1. /\ UNCHANGED <<sends, tasks, clashed>> /\ step' = [step EXCEPT ![c] = "idle"]
        /\ files' = [files EXCEPT ![path[c]].task = got[c]]
        /\ own' = [own EXCEPT ![c] = 0] /\ got' = [got EXCEPT ![c] = 0]
        /\ path' = [path EXCEPT ![c] = <<>>]
    BY <1>1 DEF LinkFile, Moves, books
  <2>2. \A r \in FileRecords : /\ [r EXCEPT !.task = got[c]] \in FileRecords
                                /\ [r EXCEPT !.task = got[c]].spec = r.spec
    BY DEF FileRecords
  <2>3. files' \in [Names -> FileRecords] /\ \A n \in Names : files'[n].spec = files[n].spec
    BY <2>1, <2>2
  <2>4. FilesOK'
    BY <2>1, <2>3 DEF StepNames
  <2>5. step[c] = "linkFile"
    BY <1>1 DEF LinkFile, Moves
  <2>6. OneHand'
    BY <2>1 DEF OneHand, Naming
  <2>7. ASSUME NEW d \in Clients, step'[d] = "save", path'[d] \notin clashed'
        PROVE  files'[path'[d]] = NoFile
    <3>1. d # c /\ step[d] = "save" /\ path'[d] = path[d] /\ path[d] \notin clashed
      BY <2>1, <2>7
    <3>2. path[d] # path[c]
      BY <2>5, <3>1 DEF OneHand, Naming
    <3>3. files'[path[d]] = files[path[d]]
      BY <2>1, <3>2
    <3>4. QED
      BY <3>1, <3>3 DEF NameIsFree, Exists
  <2>8. QED
    BY <2>3, <2>4, <2>6, <2>7 DEF NameIsFree, Exists
<1>2. CASE CloseTask(c)
  <2>1. PICK t \in DOMAIN tasks, word \in {"completed", "failed"}, retro \in {"written", "blank"} :
          UpdateSpec(c, t, word, retro)
    BY <1>2 DEF CloseTask
  <2>2. PICK n \in Names : /\ files[n].task = t
                           /\ files' = [files EXCEPT ![n].status = word, ![n].retro = retro]
    BY <2>1 DEF UpdateSpec
  <2>3. UNCHANGED <<sends, tasks, step, own, path, got, clashed>>
    BY <2>1 DEF UpdateSpec, books
  <2>4. ASSUME NEW r \in FileRecords
        PROVE  /\ [[r EXCEPT !.status = word] EXCEPT !.retro = retro] \in FileRecords
               /\ [[r EXCEPT !.status = word] EXCEPT !.retro = retro].spec = r.spec
    <3>1. [r EXCEPT !.status = word] \in FileRecords /\ [r EXCEPT !.status = word].spec = r.spec
      BY DEF FileRecords
    <3>2. ASSUME NEW q \in FileRecords
          PROVE  [q EXCEPT !.retro = retro] \in FileRecords /\ [q EXCEPT !.retro = retro].spec = q.spec
      BY DEF FileRecords
    <3>3. QED
      BY <3>1, <3>2
  <2>5. files' = [files EXCEPT ![n] = [[files[n] EXCEPT !.status = word] EXCEPT !.retro = retro]]
    BY <2>2
  <2>6. files' \in [Names -> FileRecords] /\ \A k \in Names : files'[k].spec = files[k].spec
    BY <2>4, <2>5
  <2>7. ASSUME NEW d \in Clients, step[d] = "save", path[d] \notin clashed
        PROVE  files'[path[d]] = NoFile
    <3>1. files[path[d]] = NoFile
      BY <2>7 DEF NameIsFree, Exists
    <3>2. n # path[d]
      BY <2>1, <2>2, <3>1 DEF NoFile
    <3>3. QED
      BY <2>5, <3>1, <3>2
  <2>8. QED
    BY <2>3, <2>6, <2>7 DEF OneHand, NameIsFree, Exists
<1>3. QED
  BY <1>1, <1>2

\* The server writes no file and holds no name.
LEMMA ServerKeeps == ASSUME FileInv, Server PROVE FileInv' /\ files' = files
<1> USE DEF FileInv, FilesOK
<1>1. UNCHANGED <<sends, files, step, own, path, got, clashed>>
  BY DEF Server, Works, TaskEnds, EndsPast, books
<1>2. PICK t \in DOMAIN tasks, st \in {"working", "completed", "failed", "ended_past"} :
        tasks' = [tasks EXCEPT ![t].status = st]
  BY DEF Server, Works, TaskEnds, EndsPast
<1>3. tasks' \in Seq(TaskRecords)
  <2>1. ASSUME NEW r \in TaskRecords PROVE [r EXCEPT !.status = st] \in TaskRecords
    BY DEF TaskRecords
  <2>2. [tasks[t] EXCEPT !.status = st] \in TaskRecords
    BY <2>1
  <2>3. tasks' = [tasks EXCEPT ![t] = [tasks[t] EXCEPT !.status = st]]
    BY <1>2
  <2>4. QED
    BY <2>2, <2>3
<1>4. QED
  BY <1>1, <1>3 DEF NameIsFree, OneHand, Exists

\* Every step keeps the invariant, and the spec of every file whose name did not
\* clash.
LEMMA FileStep ==
  ASSUME FileInv, [PipelineNext]_specVars
  PROVE  /\ FileInv'
         /\ \A n \in Names \ clashed : Exists(n) => files'[n].spec = files[n].spec
<1>1. CASE Server
  BY <1>1, ServerKeeps
<1>2. ASSUME NEW c \in Clients, SendSpec(c) \/ CloseTask(c) \/ ClientDies(c)
      PROVE  /\ FileInv'
             /\ \A n \in Names \ clashed : Exists(n) => files'[n].spec = files[n].spec
  <2>1. CASE Elsewhere(c)
    BY <2>1, ElsewhereKeeps
  <2>2. CASE ChooseName(c)
    BY <2>2, ChooseKeeps
  <2>3. CASE SaveFile(c)
    BY <2>3, SaveKeeps
  <2>4. CASE LinkFile(c) \/ CloseTask(c)
    BY <2>4, WritesKeep
  <2>5. QED
    BY <1>2, <2>1, <2>2, <2>3, <2>4 DEF SendSpec, Elsewhere
<1>3. CASE UNCHANGED specVars
  BY <1>3 DEF specVars, shared, books, FileInv, FilesOK, NameIsFree, OneHand, Exists
<1>4. QED
  BY <1>1, <1>2, <1>3 DEF PipelineNext

\* However many clients send at once, a saved spec is never overwritten by
\* another, except under a name that two of them chose at the same time
\* (_unique_spec_path).
THEOREM SpecIsKept == PipelineSpec => SpecKept
<1>1. FileInv /\ [PipelineNext]_specVars => FileInv'
  BY FileStep
<1>2. FileInv /\ [PipelineNext]_specVars =>
        [\A n \in Names \ clashed : Exists(n) => files'[n].spec = files[n].spec]_specVars
  BY FileStep
<1>3. QED
  BY <1>1, <1>2, FileInit, PTL DEF PipelineSpec, SpecKept

-----------------------------------------------------------------------------
(* SpecPipeline: the tasks and their files and plans.                       *)

\* A client that is not idle has a send of its own, and a name of its slug once it chose.
OneSendEach ==
  /\ \A c \in Clients : step[c] = "idle" <=> own[c] = 0
  /\ \A c \in Clients : own[c] <= sends
  /\ \A s \in 1 .. sends : slug[s] \in Slugs
  /\ \A c, d \in Clients : c # d /\ own[c] = own[d] => own[c] = 0
  /\ \A c \in Clients : step[c] \in Naming => path[c] \in Names /\ path[c][1] = slug[own[c]]
\* A send has one task at most, and its client knows it from the post on.
Linking == {"linkPlan", "linkFile"}
OneTaskEach ==
  /\ \A t \in DOMAIN tasks : tasks[t].spec \in 1 .. sends
  /\ \A t, u \in DOMAIN tasks : tasks[t].spec = tasks[u].spec => t = u
  /\ \A c \in Clients, t \in DOMAIN tasks : own[c] = tasks[t].spec => step[c] \in Linking
  /\ \A c \in Clients : step[c] \in Linking =>
       got[c] \in DOMAIN tasks /\ tasks[got[c]].spec = own[c]
\* A file has a name of its spec's slug, and is still the one its client saved.
OfItsSlug(n) == files[n].spec # 0 => files[n].spec <= sends /\ n[1] = slug[files[n].spec]
Saved == \A c \in Clients : step[c] \in {"post", "linkPlan", "linkFile"} =>
           path[c] \in clashed \/ (files[path[c]].spec = own[c] /\ files[path[c]].task = 0)
\* A plan's task is the one of its send, and was not linked before its client did.
PlansOfTasks ==
  /\ \A p \in SendIds : plans[p].task # 0 =>
       plans[p].task \in DOMAIN tasks /\ tasks[plans[p].task].spec = p
  /\ \A p \in SendIds : plans[p].status = "sent" => plans[p].task # 0
  /\ \A c \in Clients : step[c] \notin {"idle", "linkFile"} => plans[own[c]].task = 0
  /\ \A c \in Clients : step[c] = "linkPlan" /\ tasks[got[c]].status \in {"completed", "failed"} =>
       own[c] \in early

PipelineInv == /\ PipelineTypeOK /\ FileInv /\ OneSendEach /\ OneTaskEach
               /\ (\A n \in Names : OfItsSlug(n)) /\ Saved /\ PlansOfTasks /\ TasksAreFiled

LEMMA PipelineStarts == PipelineInit => PipelineInv
<1> SUFFICES ASSUME PipelineInit PROVE PipelineInv
  OBVIOUS
<1> USE DEF PipelineInit
<1>1. PipelineTypeOK
  <2>1. tasks \in Seq([spec : SendIds, status : {"pending", "working", "completed", "failed", "ended_past"}])
    OBVIOUS
  <2>2. 0 \in 0 .. MaxSends /\ 0 \in 0 .. MaxUnlucky
    BY SpecAssumption
  <2> QED
    BY <2>1, <2>2 DEF PipelineTypeOK, NoFile, NoPlan
<1>2. FileInv
  BY FileInit
<1>3. OneSendEach
  BY DEF OneSendEach, Naming
<1>4. DOMAIN tasks = {} /\ OneTaskEach
  BY DEF OneTaskEach, Linking
<1>5. \A n \in Names : OfItsSlug(n)
  BY DEF OfItsSlug, NoFile
<1>6. Saved
  BY DEF Saved
<1>7. PlansOfTasks
  BY DEF PlansOfTasks, NoPlan
<1>8. TasksAreFiled
  BY <1>4 DEF TasksAreFiled, TaskHasItsFile, PlanFollowsTask, NoPlan
<1> QED
  BY <1>1, <1>2, <1>3, <1>4, <1>5, <1>6, <1>7, <1>8 DEF PipelineInv

\* One task per send, so no more tasks than sends.
LEMMA TasksAreFew ==
  ASSUME NEW ts \in Seq(TaskRecords), NEW n \in Nat,
         \A t \in DOMAIN ts : ts[t].spec \in 1 .. n,
         \A t, u \in DOMAIN ts : ts[t].spec = ts[u].spec => t = u
  PROVE  Len(ts) <= n /\ Len(ts) \in Nat /\ DOMAIN ts = 1 .. Len(ts)
<1> DEFINE f == [t \in 1 .. Len(ts) |-> ts[t].spec]
<1>0. DOMAIN ts = 1 .. Len(ts) /\ Len(ts) \in Nat
  OBVIOUS
<1>1. f \in Injection(1 .. Len(ts), 1 .. n)
  BY <1>0 DEF Injection, IsInjective
<1>2. 1 \in Int /\ Len(ts) \in Int /\ n \in Int
  BY <1>0
<1>3. Cardinality(1 .. Len(ts)) = IF 1 > Len(ts) THEN 0 ELSE Len(ts) - 1 + 1
  BY <1>2, FS_Interval
<1>4. /\ IsFiniteSet(1 .. n)
      /\ Cardinality(1 .. n) = IF 1 > n THEN 0 ELSE n - 1 + 1
  BY <1>2, FS_Interval
<1>5. Cardinality(1 .. Len(ts)) <= Cardinality(1 .. n)
  BY <1>1, <1>4, FS_Injection
<1> QED
  BY <1>0, <1>3, <1>4, <1>5

\* What clients do to who they are and what they hold: nothing, one is given up, a name
\* is chosen, a send is begun, or one goes on.
ClientVars == <<step, own, path, got, sends, slug>>
Drops(c) == /\ step' = [step EXCEPT ![c] = "idle"] /\ own' = [own EXCEPT ![c] = 0]
            /\ \A d \in Clients \ {c} : path'[d] = path[d] /\ got'[d] = got[d]
            /\ UNCHANGED <<sends, slug>>
Passes(c) == /\ step[c] # "idle" /\ step'[c] # "idle" /\ step' = [step EXCEPT ![c] = step'[c]]
             /\ step'[c] \in Naming => step[c] \in Naming
             /\ UNCHANGED <<own, path, sends, slug>>

LEMMA HeldSteps ==
  ASSUME PipelineTypeOK, PipelineNext
  PROVE  \/ UNCHANGED ClientVars /\ (Server \/ \E c \in Clients : CloseTask(c))
         \/ \E c \in Clients :
              \/ RetroGate(c) \/ ChooseName(c)
              \/ Passes(c) /\ (OtherGates(c) \/ CreatePlan(c) \/ SaveFile(c) \/ PostSpec(c)
                               \/ LinkPlan(c))
              \/ Drops(c) /\ (OtherGates(c) \/ PostSpec(c) \/ LinkFile(c) \/ ClientDies(c))
<1> USE DEF PipelineTypeOK
<1>1. CASE Server
  BY <1>1 DEF Server, Works, TaskEnds, EndsPast, ClientVars
<1>2. ASSUME NEW c \in Clients, CloseTask(c) PROVE UNCHANGED ClientVars
  BY <1>2 DEF CloseTask, UpdateSpec, ClientVars
<1>3. ASSUME NEW c \in Clients, OtherGates(c) PROVE Passes(c) \/ Drops(c)
  BY <1>3 DEF OtherGates, Moves, Passes, Drops, Naming
<1>4. ASSUME NEW c \in Clients, CreatePlan(c) PROVE Passes(c)
  BY <1>4 DEF CreatePlan, Moves, Passes, Naming
<1>5. ASSUME NEW c \in Clients, SaveFile(c) PROVE Passes(c)
  BY <1>5 DEF SaveFile, Moves, Passes, Naming
<1>6. ASSUME NEW c \in Clients, PostSpec(c) PROVE Passes(c) \/ Drops(c)
  BY <1>6 DEF PostSpec, Moves, Passes, Drops, Naming
<1>7. ASSUME NEW c \in Clients, LinkPlan(c) PROVE Passes(c)
  BY <1>7 DEF LinkPlan, Moves, Passes, Naming
<1>8. ASSUME NEW c \in Clients, LinkFile(c) PROVE Drops(c)
  BY <1>8 DEF LinkFile, Moves, Drops
<1>9. ASSUME NEW c \in Clients, ClientDies(c) PROVE Drops(c)
  BY <1>9 DEF ClientDies, Drops
<1> QED
  BY <1>1, <1>2, <1>3, <1>4, <1>5, <1>6, <1>7, <1>8, <1>9 DEF PipelineNext, SendSpec

LEMMA SendsKept == ASSUME PipelineInv, PipelineNext PROVE OneSendEach'
<1> USE DEF OneSendEach
<1>t. /\ step \in [Clients -> StepNames] /\ own \in [Clients -> 0 .. MaxSends]
      /\ sends \in Nat /\ OneSendEach /\ slug \in [SendIds -> Slugs \cup {0}] /\ MaxSends \in Nat
      /\ path \in [Clients -> Names \cup {<<>>}]
  BY SpecAssumption DEF PipelineInv, PipelineTypeOK, StepNames
<1>1. CASE UNCHANGED ClientVars
  BY <1>1, <1>t DEF ClientVars
<1>2. ASSUME NEW c \in Clients, RetroGate(c) PROVE OneSendEach'
  <2>1. PICK g \in Slugs : slug' = [slug EXCEPT ![sends + 1] = g]
    BY <1>2 DEF RetroGate
  <2>2. /\ sends < MaxSends /\ sends' = sends + 1 /\ own' = [own EXCEPT ![c] = sends + 1]
        /\ step[c] = "idle" /\ step' = [step EXCEPT ![c] = "gates"] /\ path' = path
    BY <1>2 DEF RetroGate, Moves
  <2>3. \A d \in Clients : own[d] # sends + 1 /\ own[d] \in Nat
    BY <1>t
  <2>4. \A d \in Clients : step'[d] \in Naming => d # c /\ own'[d] = own[d] /\ step[d] \in Naming
    BY <2>2, <1>t DEF Naming
  <2>5. \A d \in Clients : step'[d] \in Naming => slug'[own'[d]] = slug[own[d]]
    <3>1. ASSUME NEW d \in Clients, step'[d] \in Naming PROVE slug'[own'[d]] = slug[own[d]]
      <4>1. own'[d] = own[d] /\ own[d] # sends + 1 /\ own[d] # 0 /\ own[d] \in SendIds
        BY <3>1, <2>3, <2>4, <1>t DEF Naming, SendIds
      <4> QED
        BY <4>1, <2>1, <1>t
    <3> QED
      BY <3>1
  <2>6. \A d \in Clients : step'[d] \in Naming => path'[d] \in Names /\ path'[d][1] = slug'[own'[d]]
    BY <2>2, <2>4, <2>5, <1>t
  <2>7. \A d \in Clients : (step'[d] = "idle" <=> own'[d] = 0) /\ own'[d] <= sends'
    BY <2>2, <2>3, <1>t
  <2>8. \A d, e \in Clients : d # e /\ own'[d] = own'[e] => own'[d] = 0
    BY <2>2, <2>3, <1>t
  <2>9. \A s \in 1 .. sends' : slug'[s] \in Slugs
    BY <2>1, <2>2, <1>t DEF SendIds
  <2> QED
    BY <2>6, <2>7, <2>8, <2>9
<1>3. ASSUME NEW c \in Clients, ChooseName(c) PROVE OneSendEach'
  <2>1. PICK k \in SendIds : path' = [path EXCEPT ![c] = <<slug[own[c]], k>>]
    BY <1>3 DEF ChooseName
  <2>2. /\ UNCHANGED <<own, sends, slug>> /\ step[c] = "name"
        /\ step' = [step EXCEPT ![c] = "save"]
    BY <1>3 DEF ChooseName, Moves
  <2>3. own[c] \in 1 .. sends /\ own[c] \in SendIds
    BY <2>2, <1>t DEF SendIds
  <2>4. slug[own[c]] \in Slugs
    BY <2>3, <1>t
  <2>5. path'[c] \in Names /\ path'[c][1] = slug[own[c]]
    BY <2>1, <2>4, <1>t DEF Names
  <2> QED
    BY <2>1, <2>2, <2>5, <1>t DEF Naming
<1>4. ASSUME NEW c \in Clients, Passes(c) PROVE OneSendEach'
  BY <1>4, <1>t DEF Passes
<1>5. ASSUME NEW c \in Clients, Drops(c) PROVE OneSendEach'
  BY <1>5, <1>t DEF Drops, Naming
<1> QED
  BY <1>1, <1>2, <1>3, <1>4, <1>5, HeldSteps DEF PipelineInv

\* What becomes of the tasks: one has another status, one is new, or nothing.
LEMMA TaskSteps ==
  ASSUME PipelineInv, PipelineNext
  PROVE  \/ UNCHANGED tasks
         \/ \E t \in DOMAIN tasks, st \in {"working", "completed", "failed", "ended_past"} :
              tasks' = [tasks EXCEPT ![t].status = st]
         \/ \E c \in Clients : PostSpec(c) /\ NewTask(own[c])
<1>1. CASE Server
  BY <1>1 DEF Server, Works, TaskEnds, EndsPast
<1>2. ASSUME NEW c \in Clients, SendSpec(c) \/ CloseTask(c) \/ ClientDies(c)
      PROVE  UNCHANGED tasks \/ (PostSpec(c) /\ NewTask(own[c]))
  BY <1>2 DEF SendSpec, CloseTask, ClientDies, RetroGate, OtherGates, CreatePlan, ChooseName,
     SaveFile, PostSpec, LinkPlan, LinkFile, UpdateSpec, shared
<1> QED
  BY <1>1, <1>2 DEF PipelineNext

LEMMA TasksKept == ASSUME PipelineInv, PipelineNext PROVE OneTaskEach'
<1> USE DEF OneTaskEach
<1>t. /\ step \in [Clients -> StepNames] /\ own \in [Clients -> 0 .. MaxSends]
      /\ got \in [Clients -> 0 .. MaxSends]
      /\ sends \in Nat /\ OneSendEach /\ OneTaskEach /\ tasks \in Seq(TaskRecords) /\ MaxSends \in Nat
      /\ DOMAIN tasks = 1 .. Len(tasks) /\ Len(tasks) \in Nat
  BY SpecAssumption DEF PipelineInv, PipelineTypeOK, StepNames, FileInv, FilesOK
<1>1. ASSUME NEW t \in DOMAIN tasks, NEW st, tasks' = [tasks EXCEPT ![t].status = st]
      PROVE  DOMAIN tasks' = DOMAIN tasks /\ \A u \in DOMAIN tasks : tasks'[u].spec = tasks[u].spec
  <2>1. tasks' = [tasks EXCEPT ![t] = [tasks[t] EXCEPT !.status = st]] /\ tasks[t] \in TaskRecords
    BY <1>1, <1>t
  <2>2. [tasks[t] EXCEPT !.status = st].spec = tasks[t].spec
    BY <2>1 DEF TaskRecords
  <2> QED
    BY <2>1, <2>2, <1>t
<1>2. CASE UNCHANGED ClientVars /\ (Server \/ \E c \in Clients : CloseTask(c))
  <2>1. DOMAIN tasks' = DOMAIN tasks /\ \A u \in DOMAIN tasks : tasks'[u].spec = tasks[u].spec
    <3>1. \A c \in Clients : ~(step[c] = "post" /\ step'[c] # step[c])
      BY <1>2 DEF ClientVars
    <3>2. \A c \in Clients : ~PostSpec(c)
      BY <3>1, <1>t DEF PostSpec, Moves, StepNames
    <3> QED
      BY <3>2, <1>1, TaskSteps
  <2> QED
    BY <1>2, <2>1, <1>t DEF ClientVars
<1>3. ASSUME NEW c \in Clients, RetroGate(c) PROVE OneTaskEach'
  <2>1. /\ sends' = sends + 1 /\ own' = [own EXCEPT ![c] = sends + 1] /\ UNCHANGED <<tasks, got>>
        /\ step[c] = "idle" /\ step' = [step EXCEPT ![c] = "gates"]
    BY <1>3 DEF RetroGate, Moves, shared
  <2>2. \A t \in DOMAIN tasks : tasks[t].spec \in 1 .. sends /\ tasks[t].spec # sends + 1
    BY <1>t
  <2>3. \A d \in Clients : step'[d] \in Linking => d # c
    BY <2>1, <1>t DEF Linking
  <2>4. \A t \in DOMAIN tasks' : tasks'[t].spec \in 1 .. sends'
    BY <2>1, <2>2, <1>t
  <2> QED
    BY <2>1, <2>2, <2>3, <2>4, <1>t
<1>4. ASSUME NEW c \in Clients, UNCHANGED <<tasks, own, got, sends>>,
             step' = [step EXCEPT ![c] = step'[c]], step'[c] \in Linking <=> step[c] \in Linking
      PROVE  OneTaskEach'
  <2>1. \A d \in Clients : step'[d] \in Linking <=> step[d] \in Linking
    BY <1>4, <1>t
  <2> QED
    BY <2>1, <1>4, <1>t
<1>5. ASSUME NEW c \in Clients, ChooseName(c) \/ CreatePlan(c) \/ SaveFile(c) \/ LinkPlan(c)
      PROVE  OneTaskEach'
  BY <1>4, <1>5, <1>t, SMTT(30) DEF ChooseName, CreatePlan, SaveFile, LinkPlan, Moves, Linking, shared
<1>6. ASSUME NEW c \in Clients, Passes(c), OtherGates(c) PROVE OneTaskEach'
  BY <1>4, <1>6, <1>t DEF OtherGates, Moves, Linking, shared, Passes
<1>7. ASSUME NEW c \in Clients, PostSpec(c), NewTask(own[c]),
             \/ Passes(c) /\ step'[c] = "linkPlan" /\ got' = [got EXCEPT ![c] = Len(tasks')]
             \/ Drops(c)
      PROVE  OneTaskEach'
  <2> DEFINE n == Len(tasks) + 1
  <2>1. /\ DOMAIN tasks' = 1 .. n /\ Len(tasks') = n
        /\ \A t \in DOMAIN tasks : tasks'[t] = tasks[t]
        /\ tasks'[n].spec = own[c]
    BY <1>7, <1>t DEF NewTask
  <2>2. own[c] \in 1 .. sends /\ step[c] = "post" /\ sends' = sends
    <3>1. step[c] = "post" /\ sends' = sends
      BY <1>7 DEF PostSpec, Moves
    <3> QED
      BY <3>1, <1>t DEF OneSendEach
  <2>3. \A t \in DOMAIN tasks : tasks[t].spec # own[c]
    BY <2>2, <1>t DEF Linking
  <2>4. \A t \in DOMAIN tasks' : t \in DOMAIN tasks \/ t = n
    BY <2>1, <1>t
  <2>5. \A t \in DOMAIN tasks' : tasks'[t].spec \in 1 .. sends'
    BY <2>1, <2>2, <2>4, <1>t
  <2>6. \A t, u \in DOMAIN tasks' : tasks'[t].spec = tasks'[u].spec => t = u
    BY <2>1, <2>3, <2>4, <1>t
  <2>7. \A d \in Clients \ {c} : own'[d] = own[d] /\ step'[d] = step[d] /\ got'[d] = got[d]
    BY <1>7, <1>t DEF Passes, Drops
  <2>8. \A d \in Clients \ {c} : own[d] # own[c]
    BY <2>2, <1>t DEF OneSendEach
  <2>9. \/ step'[c] = "linkPlan" /\ own'[c] = own[c] /\ got'[c] = n
        \/ step'[c] = "idle" /\ own'[c] = 0
    BY <1>7, <2>1, <1>t DEF Passes, Drops
  <2>10. ASSUME NEW d \in Clients, NEW t \in DOMAIN tasks', own'[d] = tasks'[t].spec
         PROVE  step'[d] \in Linking
    BY <2>10, <2>1, <2>4, <2>5, <2>7, <2>8, <2>9, <1>t, SMTT(30) DEF Linking
  <2>11. ASSUME NEW d \in Clients, step'[d] \in Linking
         PROVE  got'[d] \in DOMAIN tasks' /\ tasks'[got'[d]].spec = own'[d]
    <3>1. CASE d = c
      BY <3>1, <2>11, <2>9, <2>1, <1>t DEF Linking
    <3>2. CASE d # c
      BY <3>2, <2>11, <2>7, <2>1, <1>t
    <3> QED
      BY <3>1, <3>2
  <2> QED
    BY <2>5, <2>6, <2>10, <2>11
<1>8. ASSUME NEW c \in Clients, Drops(c), UNCHANGED tasks PROVE OneTaskEach'
  <2>1. \A d \in Clients : step'[d] \in Linking => d # c
    BY <1>8, <1>t DEF Drops, Linking
  <2>2. \A t \in DOMAIN tasks : tasks[t].spec # 0
    BY <1>t
  <2> QED
    BY <1>8, <2>1, <2>2, <1>t DEF Drops
<1>9. ASSUME NEW c \in Clients, PostSpec(c), Passes(c) \/ Drops(c) PROVE OneTaskEach'
  <2>1. \/ step'[c] = "linkPlan" /\ NewTask(own[c]) /\ got' = [got EXCEPT ![c] = Len(tasks')]
        \/ step'[c] = "idle" /\ (NewTask(own[c]) \/ UNCHANGED tasks)
    BY <1>9, <1>t DEF PostSpec, Moves
  <2>2. step'[c] = "linkPlan" => Passes(c)
    BY <1>9, <1>t DEF Drops
  <2>3. step'[c] = "idle" => Drops(c)
    BY <1>9, <1>t DEF Passes
  <2> QED
    BY <1>7, <1>8, <1>9, <2>1, <2>2, <2>3
<1>10. ASSUME NEW c \in Clients, OtherGates(c) \/ LinkFile(c) \/ ClientDies(c) PROVE UNCHANGED tasks
  BY <1>10 DEF OtherGates, LinkFile, ClientDies, shared
<1>11. PipelineTypeOK
  BY DEF PipelineInv
<1> QED
  BY <1>2, <1>3, <1>5, <1>6, <1>8, <1>9, <1>10, <1>11, HeldSteps

LEMMA SlugsKept ==
  ASSUME PipelineInv, PipelineNext PROVE \A s \in 1 .. sends : slug'[s] = slug[s]
<1>t. sends \in Nat /\ slug \in [SendIds -> Slugs \cup {0}] /\ sends <= MaxSends /\ MaxSends \in Nat
  BY SpecAssumption DEF PipelineInv, PipelineTypeOK
<1>1. ASSUME NEW c \in Clients, RetroGate(c) PROVE \A s \in 1 .. sends : slug'[s] = slug[s]
  <2>1. PICK g \in Slugs : slug' = [slug EXCEPT ![sends + 1] = g]
    BY <1>1 DEF RetroGate
  <2> QED
    BY <2>1, <1>t DEF SendIds
<1>2. \/ slug' = slug \/ \E c \in Clients : RetroGate(c)
  BY HeldSteps DEF PipelineInv, ClientVars, Passes, Drops, ChooseName
<1> QED
  BY <1>1, <1>2

\* What becomes of the files: one is saved, linked or closed, or nothing.
Closes(n, word, retro) ==
  /\ files[n].task # 0
  /\ files' = [files EXCEPT ![n] = [[files[n] EXCEPT !.status = word] EXCEPT !.retro = retro]]
LEMMA FileSteps ==
  ASSUME FileInv, PipelineNext
  PROVE  \/ UNCHANGED files
         \/ \E c \in Clients : SaveFile(c) \/ LinkFile(c)
         \/ /\ UNCHANGED <<ClientVars, clashed, tasks>>
            /\ \E n \in Names, word \in {"completed", "failed"}, retro \in {"written", "blank"} :
                 Closes(n, word, retro)
<1>1. CASE Server
  BY <1>1 DEF Server, Works, TaskEnds, EndsPast
<1>2. ASSUME NEW c \in Clients, CloseTask(c)
      PROVE  /\ UNCHANGED <<ClientVars, clashed, tasks>>
             /\ \E n \in Names, word \in {"completed", "failed"}, retro \in {"written", "blank"} :
                  Closes(n, word, retro)
  <2>1. PICK t \in DOMAIN tasks, word \in {"completed", "failed"}, retro \in {"written", "blank"} :
          UpdateSpec(c, t, word, retro)
    BY <1>2 DEF CloseTask
  <2>2. PICK n \in Names : /\ files[n].task = t
                           /\ files' = [files EXCEPT ![n].status = word, ![n].retro = retro]
    BY <2>1 DEF UpdateSpec
  <2>3. t # 0
    BY <2>1 DEF FileInv, FilesOK
  <2>4. Closes(n, word, retro)
    BY <2>2, <2>3 DEF Closes
  <2> QED
    BY <2>1, <2>4 DEF UpdateSpec, ClientVars, books
<1>3. ASSUME NEW c \in Clients, SendSpec(c) \/ ClientDies(c)
      PROVE  UNCHANGED files \/ SaveFile(c) \/ LinkFile(c)
  BY <1>3 DEF SendSpec, ClientDies, RetroGate, OtherGates, CreatePlan, ChooseName,
     PostSpec, LinkPlan, shared
<1> QED
  BY <1>1, <1>2, <1>3 DEF PipelineNext

LEMMA ClosedFile ==
  ASSUME files \in [Names -> FileRecords], NEW n \in Names, NEW word, NEW retro, Closes(n, word, retro)
  PROVE  \A m \in Names : files'[m].spec = files[m].spec /\ files'[m].task = files[m].task
<1> DEFINE r == [[files[n] EXCEPT !.status = word] EXCEPT !.retro = retro]
<1>1. files[n] \in FileRecords /\ files' = [files EXCEPT ![n] = r]
  BY DEF Closes
<1>2. r.spec = files[n].spec /\ r.task = files[n].task
  BY <1>1 DEF FileRecords
<1> HIDE DEF r
<1> QED
  BY <1>1, <1>2

LEMMA LinkedFile ==
  ASSUME files \in [Names -> FileRecords], NEW c \in Clients, LinkFile(c), path[c] \in Names
  PROVE  /\ \A m \in Names : files'[m].spec = files[m].spec
         /\ \A m \in Names \ {path[c]} : files'[m] = files[m]
         /\ files'[path[c]].task = got[c]
<1>1. files' = [files EXCEPT ![path[c]] = [files[path[c]] EXCEPT !.task = got[c]]]
  BY DEF LinkFile
<1>2. files[path[c]] \in FileRecords
  OBVIOUS
<1>3. /\ [files[path[c]] EXCEPT !.task = got[c]].spec = files[path[c]].spec
      /\ [files[path[c]] EXCEPT !.task = got[c]].task = got[c]
  BY <1>2 DEF FileRecords
<1> QED
  BY <1>1, <1>3

LEMMA SavedFile ==
  ASSUME files \in [Names -> FileRecords], NEW c \in Clients, SaveFile(c), path[c] \in Names
  PROVE  /\ \A m \in Names \ {path[c]} : files'[m] = files[m]
         /\ files'[path[c]].spec = own[c] /\ files'[path[c]].task = 0
BY DEF SaveFile

LEMMA SlugsOfFiles == ASSUME PipelineInv, PipelineNext PROVE \A n \in Names : OfItsSlug(n)'
<1>t. /\ files \in [Names -> FileRecords] /\ sends \in Nat /\ sends' \in Nat /\ sends <= sends'
      /\ \A n \in Names : OfItsSlug(n) /\ files[n].spec \in Nat
      /\ \A s \in 1 .. sends : slug'[s] = slug[s]
      /\ OneSendEach /\ step \in [Clients -> StepNames] /\ own \in [Clients -> Nat]
  <2>1. files \in [Names -> FileRecords] /\ sends \in Nat /\ own \in [Clients -> Nat]
    BY DEF PipelineInv, FileInv, FilesOK
  <2>2. \A n \in Names : files[n].spec \in Nat
    BY <2>1 DEF FileRecords
  <2>3. sends' = sends \/ sends' = sends + 1
    BY HeldSteps DEF PipelineInv, ClientVars, Passes, Drops, ChooseName, RetroGate
  <2> QED
    BY <2>1, <2>2, <2>3, SlugsKept DEF PipelineInv, FileInv, FilesOK
<1>1. ASSUME NEW n \in Names, files'[n].spec = files[n].spec PROVE OfItsSlug(n)'
  BY <1>1, <1>t DEF OfItsSlug
<1>2. ASSUME NEW c \in Clients, SaveFile(c) PROVE \A n \in Names : OfItsSlug(n)'
  <2>1. step[c] = "save" /\ path[c] \in Names /\ path[c][1] = slug[own[c]] /\ own[c] \in 1 .. sends
    BY <1>2, <1>t DEF SaveFile, Moves, OneSendEach, Naming
  <2>2. OfItsSlug(path[c])'
    <3>1. files'[path[c]].spec = own[c] /\ UNCHANGED <<sends, slug, path>>
      BY <1>2, <1>t, <2>1, SavedFile DEF SaveFile
    <3> QED
      BY <2>1, <3>1 DEF OfItsSlug
  <2>3. \A n \in Names \ {path[c]} : files'[n].spec = files[n].spec
    BY <1>2, <1>t, <2>1, SavedFile
  <2>4. path' = path
    BY <1>2 DEF SaveFile
  <2> QED
    BY <1>1, <2>2, <2>3, <2>4
<1>3. ASSUME NEW c \in Clients, LinkFile(c) PROVE \A n \in Names : files'[n].spec = files[n].spec
  <2>1. path[c] \in Names
    BY <1>3, <1>t DEF LinkFile, Moves, OneSendEach, Naming
  <2> QED
    BY <1>3, <1>t, <2>1, LinkedFile
<1> QED
  BY <1>1, <1>2, <1>3, <1>t, FileSteps, ClosedFile DEF PipelineInv

LEMMA SavedKept == ASSUME PipelineInv, PipelineNext PROVE Saved'
<1> DEFINE Late == {"post", "linkPlan", "linkFile"}
<1>t. /\ files \in [Names -> FileRecords] /\ OneSendEach /\ OneHand /\ Saved
      /\ step \in [Clients -> StepNames] /\ path = [c \in Clients |-> path[c]]
      /\ clashed \subseteq clashed'
      /\ \A c \in Clients : step[c] \in Naming => path[c] \in Names
  <2>1. ASSUME NEW c \in Clients, SendSpec(c) \/ CloseTask(c) \/ ClientDies(c)
        PROVE  clashed \subseteq clashed'
    BY <2>1 DEF SendSpec, CloseTask, ClientDies, RetroGate, OtherGates, CreatePlan, ChooseName,
       SaveFile, PostSpec, LinkPlan, LinkFile, UpdateSpec, books
  <2>2. Server => clashed' = clashed
    BY DEF Server, Works, TaskEnds, EndsPast, books
  <2> QED
    BY <2>1, <2>2 DEF PipelineInv, FileInv, FilesOK, PipelineNext, OneSendEach
<1>1. ASSUME NEW d \in Clients, step'[d] \in Late,
             step[d] \in Late, path'[d] = path[d], own'[d] = own[d],
             \/ path[d] \in clashed
             \/ files'[path[d]].spec = files[path[d]].spec /\ files'[path[d]].task = files[path[d]].task
      PROVE  path'[d] \in clashed' \/ (files'[path'[d]].spec = own'[d] /\ files'[path'[d]].task = 0)
  BY <1>1, <1>t DEF Saved
<1>2. ASSUME NEW c \in Clients, SaveFile(c) PROVE Saved'
  <2>1. /\ step[c] = "save" /\ path[c] \in Names /\ step' = [step EXCEPT ![c] = "post"]
        /\ UNCHANGED <<own, path, clashed>>
    BY <1>2, <1>t DEF SaveFile, Moves, Naming, books
  <2>2. ASSUME NEW d \in Clients \ {c}, step[d] \in Late
        PROVE  path[d] \in clashed \/ files'[path[d]] = files[path[d]]
    <3>1. path[d] = path[c] => path[d] \in clashed
      BY <2>1, <2>2, <1>t DEF OneHand, Naming
    <3>2. path[d] \in Names
      BY <2>2, <1>t DEF Naming
    <3> QED
      BY <3>1, <3>2, <1>2, <2>1, <1>t, SavedFile
  <2>3. \A d \in Clients \ {c} : step'[d] = step[d]
    BY <2>1, <1>t
  <2>4. files'[path[c]].spec = own[c] /\ files'[path[c]].task = 0
    BY <1>2, <1>t, <2>1, SavedFile
  <2> QED
    BY <1>1, <2>1, <2>2, <2>3, <2>4 DEF Saved
<1>3. ASSUME NEW c \in Clients, LinkFile(c) PROVE Saved'
  <2>1. /\ step[c] = "linkFile" /\ path[c] \in Names /\ step' = [step EXCEPT ![c] = "idle"]
        /\ own' = [own EXCEPT ![c] = 0] /\ path' = [path EXCEPT ![c] = <<>>] /\ clashed' = clashed
    BY <1>3, <1>t DEF LinkFile, Moves, Naming, books
  <2>2. ASSUME NEW d \in Clients \ {c}, step[d] \in Late
        PROVE  path[d] \in clashed \/ files'[path[d]] = files[path[d]]
    <3>1. path[d] = path[c] => path[d] \in clashed
      BY <2>1, <2>2, <1>t DEF OneHand, Naming
    <3>2. path[d] \in Names
      BY <2>2, <1>t DEF Naming
    <3> QED
      BY <3>1, <3>2, <1>3, <2>1, <1>t, LinkedFile
  <2>3. \A d \in Clients \ {c} : step'[d] = step[d] /\ own'[d] = own[d] /\ path'[d] = path[d]
    BY <2>1, <1>t DEF PipelineInv, PipelineTypeOK
  <2>4. step'[c] \notin Late
    BY <2>1, <1>t
  <2> QED
    BY <1>1, <2>2, <2>3, <2>4 DEF Saved
<1>4. ASSUME NEW n \in Names, NEW word, NEW retro, Closes(n, word, retro), UNCHANGED ClientVars
      PROVE  Saved'
  <2>1. \A m \in Names : files'[m].spec = files[m].spec /\ files'[m].task = files[m].task
    BY <1>4, <1>t, ClosedFile
  <2>2. \A d \in Clients : step[d] \in Late => path[d] \in Names
    BY <1>t DEF Naming
  <2> QED
    BY <1>1, <1>4, <2>1, <2>2 DEF Saved, ClientVars
<1>5. CASE UNCHANGED files
  <2>1. ASSUME NEW d \in Clients, step'[d] \in Late, ~\E c \in Clients : SaveFile(c)
        PROVE  step[d] \in Late /\ path'[d] = path[d] /\ own'[d] = own[d]
    <3>1. ASSUME NEW c \in Clients, Passes(c), OtherGates(c) \/ CreatePlan(c) \/ PostSpec(c) \/ LinkPlan(c)
          PROVE  step'[c] \in Late => step[c] \in Late
      BY <3>1 DEF OtherGates, CreatePlan, PostSpec, LinkPlan, Moves, PipelineInv, PipelineTypeOK
    <3>2. ASSUME NEW c \in Clients, RetroGate(c) \/ ChooseName(c)
          PROVE  step'[d] \in Late /\ d # c /\ path'[d] = path[d] /\ own'[d] = own[d] /\ step'[d] = step[d]
      <4>1. step'[c] \notin Late
        BY <3>2, <1>t DEF RetroGate, ChooseName, Moves
      <4> QED
        BY <3>2, <4>1, <2>1, <1>t DEF RetroGate, ChooseName, Moves, PipelineInv, PipelineTypeOK
    <3>3. ASSUME NEW c \in Clients, Drops(c)
          PROVE  d # c /\ path'[d] = path[d] /\ own'[d] = own[d] /\ step'[d] = step[d]
      BY <3>3, <2>1, <1>t DEF Drops, PipelineInv, PipelineTypeOK
    <3>4. ASSUME NEW c \in Clients, Passes(c)
          PROVE  /\ path'[d] = path[d] /\ own'[d] = own[d]
                 /\ d # c => step'[d] = step[d]
      BY <3>4, <1>t DEF Passes
    <3>5. PipelineTypeOK /\ (UNCHANGED ClientVars => step'[d] = step[d] /\ path'[d] = path[d] /\ own'[d] = own[d])
      BY DEF PipelineInv, ClientVars
    <3> QED
      BY <2>1, <3>1, <3>2, <3>3, <3>4, <3>5, HeldSteps
  <2>2. CASE ~\E c \in Clients : SaveFile(c)
    BY <1>1, <1>5, <2>1, <2>2 DEF Saved
  <2> QED
    BY <2>2, <1>2
<1> QED
  BY <1>2, <1>3, <1>4, <1>5, FileSteps DEF PipelineInv

\* What becomes of the plans: one is made or linked, those of a task have another status,
\* which is not "sent", or nothing.
PlanRecords == [task : 0 .. MaxSends, status : {"none", "draft", "sent", "completed", "failed",
                                                "completed_unverified"}]
Restated(t) ==
  /\ plans' \in [SendIds -> PlanRecords]
  /\ \A p \in SendIds : plans'[p].task = plans[p].task
  /\ \A p \in SendIds : IF plans[p].task = t THEN plans'[p].status # "sent" ELSE plans'[p] = plans[p]
Makes(c) == /\ plans' \in [SendIds -> PlanRecords]
            /\ \A p \in SendIds : /\ plans'[p].task = plans[p].task
                                  /\ plans'[p] # plans[p] => plans'[p].status = "draft"
Links(c) == /\ plans' \in [SendIds -> PlanRecords]
            /\ \A p \in SendIds \ {own[c]} : plans'[p] = plans[p]
            /\ \/ plans'[own[c]] = plans[own[c]]
               \/ plans'[own[c]].task = got[c] /\ plans'[own[c]].status = "sent"

LEMMA RestatedBy ==
  ASSUME plans \in [SendIds -> PlanRecords], NEW t, NEW st,
         st \in {"completed", "failed", "completed_unverified"},
         plans' = [p \in SendIds |-> IF p \in PlansOf(t) THEN [plans[p] EXCEPT !.status = st]
                                                         ELSE plans[p]]
  PROVE  Restated(t)
<1>1. ASSUME NEW r \in PlanRecords
      PROVE  /\ [r EXCEPT !.status = st] \in PlanRecords
             /\ [r EXCEPT !.status = st].task = r.task /\ [r EXCEPT !.status = st].status = st
  BY DEF PlanRecords
<1>2. \A p \in SendIds : p \in PlansOf(t) <=> plans[p].task = t
  BY DEF PlansOf
<1>3. \A p \in SendIds : plans'[p] \in PlanRecords
  BY <1>1
<1>4. plans' \in [SendIds -> PlanRecords]
  BY <1>3
<1>5. \A p \in SendIds : plans'[p].task = plans[p].task
  BY <1>1
<1>6. \A p \in SendIds : IF plans[p].task = t THEN plans'[p].status # "sent" ELSE plans'[p] = plans[p]
  BY <1>1, <1>2
<1> QED
  BY <1>4, <1>5, <1>6 DEF Restated

LEMMA PlanSteps ==
  ASSUME PipelineInv, PipelineNext
  PROVE  \/ UNCHANGED plans
         \/ \E t \in DOMAIN tasks : /\ Restated(t) /\ UNCHANGED ClientVars
                                    /\ \/ UNCHANGED <<tasks, early>>
                                       \/ \E st \in {"completed", "failed"} : TaskEnds(t, st)
         \/ \E c \in Clients : CreatePlan(c) /\ Makes(c)
         \/ \E c \in Clients : LinkPlan(c) /\ Links(c)
<1>t. /\ plans \in [SendIds -> PlanRecords] /\ own \in [Clients -> 0 .. MaxSends]
      /\ got \in [Clients -> 0 .. MaxSends]
  BY DEF PipelineInv, PipelineTypeOK, PlanRecords
<1>1. ASSUME NEW t \in DOMAIN tasks, NEW st \in {"completed", "failed"}, TaskEnds(t, st)
      PROVE  Restated(t) /\ UNCHANGED ClientVars
  <2>1. PICK x \in {"failed", "completed_unverified"} :
          plans' = [p \in SendIds |-> IF p \in PlansOf(t) THEN [plans[p] EXCEPT !.status = x]
                                                          ELSE plans[p]]
    BY <1>1 DEF TaskEnds
  <2> QED
    BY <2>1, <1>1, <1>t, RestatedBy DEF TaskEnds, ClientVars
<1>2. ASSUME NEW c \in Clients, CloseTask(c)
      PROVE  \E t \in DOMAIN tasks : Restated(t) /\ UNCHANGED <<ClientVars, tasks, early>>
  <2>1. PICK t \in DOMAIN tasks, word \in {"completed", "failed"}, retro \in {"written", "blank"} :
          UpdateSpec(c, t, word, retro)
    BY <1>2 DEF CloseTask
  <2>2. Restated(t)
    BY <2>1, <1>t, RestatedBy DEF UpdateSpec
  <2> QED
    BY <2>1, <2>2 DEF UpdateSpec, ClientVars, books
<1>3. ASSUME NEW c \in Clients, CreatePlan(c) PROVE Makes(c)
  <2>1. ASSUME NEW r \in PlanRecords
        PROVE  /\ [r EXCEPT !.status = "draft"] \in PlanRecords
               /\ [r EXCEPT !.status = "draft"].task = r.task
               /\ [r EXCEPT !.status = "draft"].status = "draft"
    BY DEF PlanRecords
  <2>2. plans' = plans \/ plans' = [plans EXCEPT ![own[c]] = [plans[own[c]] EXCEPT !.status = "draft"]]
    BY <1>3 DEF CreatePlan
  <2>3. own[c] \in SendIds => plans[own[c]] \in PlanRecords
    BY <1>t
  <2>4. own[c] \notin SendIds => plans' = plans
    BY <2>2, <1>t
  <2> QED
    BY <2>1, <2>2, <2>3, <2>4, <1>t DEF Makes
<1>4. ASSUME NEW c \in Clients, LinkPlan(c) PROVE Links(c)
  <2>1. /\ plans' = [plans EXCEPT ![own[c]] = Linked(plans[own[c]], got[c])]
        /\ step[c] = "linkPlan"
    BY <1>4 DEF LinkPlan, Moves
  <2>2. own[c] \in SendIds
    BY <2>1, <1>t DEF PipelineInv, OneSendEach, SendIds
  <2>3. [task |-> got[c], status |-> "sent"] \in PlanRecords
    BY <1>t DEF PlanRecords
  <2>4. \/ plans' = [plans EXCEPT ![own[c]] = plans[own[c]]]
        \/ plans' = [plans EXCEPT ![own[c]] = [task |-> got[c], status |-> "sent"]]
    BY <2>1 DEF Linked
  <2> QED
    BY <2>2, <2>3, <2>4, <1>t DEF Links
<1>5. ASSUME NEW c \in Clients,
             \/ RetroGate(c) \/ OtherGates(c) \/ ChooseName(c) \/ SaveFile(c) \/ PostSpec(c)
             \/ LinkFile(c) \/ ClientDies(c)
      PROVE  UNCHANGED plans
  BY <1>5 DEF RetroGate, OtherGates, ChooseName, SaveFile, PostSpec, LinkFile, ClientDies, shared
<1>6. \A t \in DOMAIN tasks : Works(t) \/ EndsPast(t) => UNCHANGED plans
  BY DEF Works, EndsPast
<1> QED
  BY <1>1, <1>2, <1>3, <1>4, <1>5, <1>6 DEF PipelineNext, Server, SendSpec

LEMMA TasksGrow ==
  ASSUME PipelineInv, PipelineNext
  PROVE  \A t \in DOMAIN tasks :
           /\ t \in DOMAIN tasks' /\ tasks'[t].spec = tasks[t].spec
           /\ tasks'[t].status # tasks[t].status /\ tasks'[t].status \in {"completed", "failed"} =>
                \E st \in {"completed", "failed"} : TaskEnds(t, st)
<1>t. tasks \in Seq(TaskRecords)
  BY DEF PipelineInv, FileInv, FilesOK
<1>1. ASSUME NEW t \in DOMAIN tasks, NEW st, tasks' = [tasks EXCEPT ![t].status = st]
      PROVE  /\ DOMAIN tasks' = DOMAIN tasks
             /\ \A u \in DOMAIN tasks : /\ tasks'[u].spec = tasks[u].spec
                                        /\ tasks'[u].status # tasks[u].status => u = t
             /\ tasks'[t].status = st
  <2>1. tasks' = [tasks EXCEPT ![t] = [tasks[t] EXCEPT !.status = st]] /\ tasks[t] \in TaskRecords
    BY <1>1, <1>t
  <2>2. /\ [tasks[t] EXCEPT !.status = st].spec = tasks[t].spec
        /\ [tasks[t] EXCEPT !.status = st].status = st
    BY <2>1 DEF TaskRecords
  <2> QED
    BY <2>1, <2>2, <1>t
<1>2. ASSUME NEW t \in DOMAIN tasks, Works(t) PROVE tasks' = [tasks EXCEPT ![t].status = "working"]
  BY <1>2 DEF Works
<1>3. /\ \A t \in DOMAIN tasks : \A st : TaskEnds(t, st) => tasks' = [tasks EXCEPT ![t].status = st]
      /\ \A t \in DOMAIN tasks : EndsPast(t) => tasks' = [tasks EXCEPT ![t].status = "ended_past"]
  BY DEF TaskEnds, EndsPast
<1>4. ASSUME NEW c, NewTask(own[c])
      PROVE  \A t \in DOMAIN tasks : t \in DOMAIN tasks' /\ tasks'[t] = tasks[t]
  BY <1>4, <1>t DEF NewTask
<1>5. CASE Server
  BY <1>1, <1>2, <1>3, <1>5 DEF Server
<1>6. ASSUME NEW c \in Clients, SendSpec(c) \/ CloseTask(c) \/ ClientDies(c)
      PROVE  UNCHANGED tasks \/ NewTask(own[c])
  BY <1>6 DEF SendSpec, CloseTask, ClientDies, RetroGate, OtherGates, CreatePlan, ChooseName,
     SaveFile, PostSpec, LinkPlan, LinkFile, UpdateSpec, shared
<1> QED
  BY <1>4, <1>5, <1>6 DEF PipelineNext

\* A task whose client has not linked its plan yet has no plan.
LEMMA NoPlanYet ==
  ASSUME PipelineInv, NEW c \in Clients, step[c] = "linkPlan"
  PROVE  PlansOf(got[c]) = {}
<1>1. /\ got[c] \in DOMAIN tasks /\ tasks[got[c]].spec = own[c] /\ plans[own[c]].task = 0
  BY DEF PipelineInv, OneTaskEach, Linking, PlansOfTasks
<1>2. got[c] # 0
  BY <1>1 DEF PipelineInv, FileInv, FilesOK
<1>3. ASSUME NEW p \in PlansOf(got[c]) PROVE FALSE
  BY <1>1, <1>2, <1>3 DEF PlansOf, PipelineInv, PlansOfTasks
<1> QED
  BY <1>3

LEMMA PlansKept == ASSUME PipelineInv, PipelineNext PROVE PlansOfTasks'
<1> DEFINE Ended == {"completed", "failed"}
<1>t. /\ plans \in [SendIds -> PlanRecords] /\ own \in [Clients -> 0 .. MaxSends]
      /\ got \in [Clients -> 0 .. MaxSends] /\ step \in [Clients -> StepNames]
      /\ OneSendEach /\ OneTaskEach /\ PlansOfTasks /\ sends \in Nat
      /\ MaxSends \in Nat /\ tasks \in Seq(TaskRecords) /\ PipelineTypeOK
  BY SpecAssumption DEF PipelineInv, PipelineTypeOK, PlanRecords, FileInv, FilesOK, StepNames
<1>g. \A t \in DOMAIN tasks : t \in DOMAIN tasks' /\ tasks'[t].spec = tasks[t].spec
  BY TasksGrow
<1>e. early \subseteq early'
  <2>1. ASSUME NEW c \in Clients, SendSpec(c) \/ CloseTask(c) \/ ClientDies(c) PROVE early' = early
    BY <2>1 DEF SendSpec, CloseTask, ClientDies, RetroGate, OtherGates, CreatePlan, ChooseName,
       SaveFile, PostSpec, LinkPlan, LinkFile, UpdateSpec, books
  <2>2. Server => early \subseteq early'
    BY DEF Server, Works, TaskEnds, EndsPast, books
  <2> QED
    BY <2>1, <2>2 DEF PipelineNext
<1>1. \A p \in SendIds : plans'[p].task # 0 =>
        plans'[p].task \in DOMAIN tasks' /\ tasks'[plans'[p].task].spec = p
  <2>1. \A p \in SendIds : plans'[p].task = plans[p].task =>
          (plans'[p].task # 0 => plans'[p].task \in DOMAIN tasks' /\ tasks'[plans'[p].task].spec = p)
    BY <1>t, <1>g DEF PlansOfTasks
  <2>2. ASSUME NEW c \in Clients, LinkPlan(c), Links(c), NEW p \in SendIds
        PROVE  \/ plans'[p].task = plans[p].task
               \/ plans'[p].task \in DOMAIN tasks' /\ tasks'[plans'[p].task].spec = p
    <3>1. step[c] = "linkPlan" /\ got[c] \in DOMAIN tasks /\ tasks[got[c]].spec = own[c]
      BY <2>2, <1>t DEF LinkPlan, Moves, OneTaskEach, Linking
    <3> QED
      BY <2>2, <3>1, <1>g DEF Links
  <2> QED
    BY <2>1, <2>2, PlanSteps DEF Restated, Makes
<1>2. \A p \in SendIds : plans'[p].status = "sent" => plans'[p].task # 0
  <2>1. ASSUME NEW c \in Clients, LinkPlan(c), Links(c), NEW p \in SendIds, plans'[p].status = "sent"
        PROVE  plans'[p].task # 0
    <3>1. got[c] # 0
      BY <2>1, <1>t DEF LinkPlan, Moves, OneTaskEach, Linking
    <3> QED
      BY <2>1, <3>1, <1>t DEF Links, PlansOfTasks
  <2>2. ASSUME NEW c \in Clients, Makes(c), NEW p \in SendIds, plans'[p].status = "sent"
        PROVE  plans'[p].task # 0
    BY <2>2, <1>t DEF Makes, PlansOfTasks
  <2>3. ASSUME NEW t \in DOMAIN tasks, Restated(t), NEW p \in SendIds, plans'[p].status = "sent"
        PROVE  plans'[p].task # 0
    BY <2>3, <1>t DEF Restated, PlansOfTasks
  <2> QED
    BY <2>1, <2>2, <2>3, <1>t, PlanSteps DEF PlansOfTasks
<1>3. ASSUME NEW d \in Clients, step'[d] \notin {"idle", "linkFile"} PROVE plans'[own'[d]].task = 0
  <2>1. CASE own'[d] = own[d] /\ step[d] \notin {"idle", "linkFile"}
    <3>1. own[d] \in SendIds /\ plans[own[d]].task = 0
      BY <2>1, <1>t DEF OneSendEach, PlansOfTasks, SendIds
    <3>2. ASSUME NEW c \in Clients, LinkPlan(c), Links(c) PROVE plans'[own[d]].task = 0
      <4>1. step'[c] = "linkFile" /\ step[c] = "linkPlan"
        BY <3>2, <1>t DEF LinkPlan, Moves
      <4>2. c # d /\ own[d] # own[c]
        BY <4>1, <3>1, <1>3, <1>t DEF OneSendEach, SendIds
      <4> QED
        BY <3>2, <4>2, <3>1 DEF Links
    <3> QED
      BY <2>1, <3>1, <3>2, PlanSteps DEF Restated, Makes
  <2>2. CASE RetroGate(d)
    <3>1. /\ own'[d] = sends + 1 /\ sends < MaxSends /\ plans' = plans
      BY <2>2, <1>t DEF RetroGate, shared
    <3>2. sends + 1 \in SendIds
      BY <3>1, <1>t DEF SendIds
    <3>3. plans[sends + 1].task = 0
      <4>1. SUFFICES ASSUME plans[sends + 1].task # 0 PROVE FALSE
        OBVIOUS
      <4>2. PICK t \in DOMAIN tasks : tasks[t].spec = sends + 1
        BY <4>1, <3>2, <1>t DEF PlansOfTasks
      <4> QED
        BY <4>2, <1>t DEF OneTaskEach
    <3> QED
      BY <3>1, <3>3
  <2>3. RetroGate(d) \/ (own'[d] = own[d] /\ step[d] \notin {"idle", "linkFile"})
    <3>1. ASSUME NEW c \in Clients, RetroGate(c), c # d
          PROVE  own'[d] = own[d] /\ step[d] \notin {"idle", "linkFile"}
      BY <3>1, <1>3, <1>t DEF RetroGate, Moves
    <3>2. ASSUME NEW c \in Clients, ChooseName(c)
          PROVE  own'[d] = own[d] /\ step[d] \notin {"idle", "linkFile"}
      BY <3>2, <1>3, <1>t DEF ChooseName, Moves
    <3>3. ASSUME NEW c \in Clients, Drops(c)
          PROVE  own'[d] = own[d] /\ step[d] \notin {"idle", "linkFile"}
      BY <3>3, <1>3, <1>t DEF Drops
    <3>4. ASSUME NEW c \in Clients, Passes(c),
                 OtherGates(c) \/ CreatePlan(c) \/ SaveFile(c) \/ PostSpec(c) \/ LinkPlan(c)
          PROVE  own'[d] = own[d] /\ step[d] \notin {"idle", "linkFile"}
      <4>1. step[c] \notin {"idle", "linkFile"}
        BY <3>4 DEF OtherGates, CreatePlan, SaveFile, PostSpec, LinkPlan, Moves
      <4> QED
        BY <4>1, <3>4, <1>3, <1>t DEF Passes
    <3>5. UNCHANGED ClientVars => own'[d] = own[d] /\ step[d] \notin {"idle", "linkFile"}
      BY <1>3 DEF ClientVars
    <3> QED
      BY <3>1, <3>2, <3>3, <3>4, <3>5, <1>t, HeldSteps
  <2> QED
    BY <2>1, <2>2, <2>3
<1>4. ASSUME NEW d \in Clients, step'[d] = "linkPlan", tasks'[got'[d]].status \in Ended
      PROVE  own'[d] \in early'
  <2>1. CASE step[d] = "linkPlan" /\ got'[d] = got[d] /\ own'[d] = own[d]
    <3>1. got[d] \in DOMAIN tasks /\ tasks[got[d]].spec = own[d]
      BY <2>1, <1>t DEF OneTaskEach, Linking
    <3>2. CASE tasks'[got[d]].status = tasks[got[d]].status
      BY <2>1, <3>2, <1>4, <1>t, <1>e DEF PlansOfTasks
    <3>3. CASE tasks'[got[d]].status # tasks[got[d]].status
      <4>1. PICK st \in Ended : TaskEnds(got[d], st)
        BY <3>1, <3>3, <2>1, <1>4, TasksGrow
      <4>2. PlansOf(got[d]) = {}
        BY <2>1, NoPlanYet
      <4> QED
        BY <2>1, <3>1, <4>1, <4>2 DEF TaskEnds
    <3> QED
      BY <3>2, <3>3
  <2>2. CASE PostSpec(d) /\ step'[d] = "linkPlan"
    <3>1. NewTask(own[d]) /\ got'[d] = Len(tasks')
      BY <2>2, <1>t DEF PostSpec, Moves
    <3>2. tasks'[Len(tasks')].status = "pending"
      BY <3>1, <1>t DEF NewTask
    <3> QED
      BY <3>1, <3>2, <1>4
  <2>3. \/ step[d] = "linkPlan" /\ got'[d] = got[d] /\ own'[d] = own[d]
        \/ PostSpec(d)
    <3>1. ASSUME NEW c \in Clients, RetroGate(c)
          PROVE  step[d] = "linkPlan" /\ got'[d] = got[d] /\ own'[d] = own[d]
      BY <3>1, <1>4, <1>t DEF RetroGate, Moves
    <3>2. ASSUME NEW c \in Clients, ChooseName(c)
          PROVE  step[d] = "linkPlan" /\ got'[d] = got[d] /\ own'[d] = own[d]
      BY <3>2, <1>4, <1>t DEF ChooseName, Moves
    <3>3. ASSUME NEW c \in Clients, Drops(c)
          PROVE  step[d] = "linkPlan" /\ got'[d] = got[d] /\ own'[d] = own[d]
      BY <3>3, <1>4, <1>t DEF Drops
    <3>4. ASSUME NEW c \in Clients, Passes(c), c # d \/ ~PostSpec(c),
                 OtherGates(c) \/ CreatePlan(c) \/ SaveFile(c) \/ PostSpec(c) \/ LinkPlan(c)
          PROVE  step[d] = "linkPlan" /\ got'[d] = got[d] /\ own'[d] = own[d]
      <4>1. c # d
        BY <3>4, <1>4, <1>t DEF OtherGates, CreatePlan, SaveFile, LinkPlan, Moves
      <4>2. got'[d] = got[d]
        BY <3>4, <4>1, <1>t DEF OtherGates, CreatePlan, SaveFile, PostSpec, LinkPlan
      <4> QED
        BY <4>1, <4>2, <3>4, <1>4, <1>t DEF Passes
    <3>5. UNCHANGED ClientVars => step[d] = "linkPlan" /\ got'[d] = got[d] /\ own'[d] = own[d]
      BY <1>4 DEF ClientVars
    <3> QED
      BY <3>1, <3>2, <3>3, <3>4, <3>5, <1>t, HeldSteps
  <2> QED
    BY <2>1, <2>2, <2>3, <1>4
<1> QED
  BY <1>1, <1>2, <1>3, <1>4 DEF PlansOfTasks

\* The four ways in which a task can still be closed, or cannot for a good reason.
Filed(t) == \/ \E n \in Names : files[n].task = t /\ files[n].spec = tasks[t].spec
            \/ \E c \in Clients : own[c] = tasks[t].spec
            \/ tasks[t].spec \in adrift
            \/ \E n \in clashed : n[1] = slug[tasks[t].spec]

LEMMA BooksGrow ==
  ASSUME PipelineNext PROVE clashed \subseteq clashed' /\ adrift \subseteq adrift' /\ early \subseteq early'
<1>1. ASSUME NEW c \in Clients, SendSpec(c) \/ CloseTask(c) \/ ClientDies(c)
      PROVE  clashed \subseteq clashed' /\ adrift \subseteq adrift' /\ early' = early
  BY <1>1 DEF SendSpec, CloseTask, ClientDies, RetroGate, OtherGates, CreatePlan, ChooseName,
     SaveFile, PostSpec, LinkPlan, LinkFile, UpdateSpec, books
<1>2. Server => clashed' = clashed /\ adrift' = adrift /\ early \subseteq early'
  BY DEF Server, Works, TaskEnds, EndsPast, books
<1> QED
  BY <1>1, <1>2 DEF PipelineNext

LEMMA FiledKept == ASSUME PipelineInv, PipelineNext PROVE TaskHasItsFile'
<1>t. /\ files \in [Names -> FileRecords] /\ own \in [Clients -> 0 .. MaxSends]
      /\ step \in [Clients -> StepNames] /\ sends \in Nat
      /\ OneSendEach /\ OneTaskEach /\ Saved /\ NameIsFree /\ PipelineTypeOK
      /\ tasks \in Seq(TaskRecords) /\ \A n \in Names : OfItsSlug(n)
      /\ \A t \in DOMAIN tasks : Filed(t)
      /\ \A c \in Clients : step[c] \in Naming => path[c] \in Names
  BY SpecAssumption DEF PipelineInv, PipelineTypeOK, FileInv, FilesOK, StepNames, TasksAreFiled,
     TaskHasItsFile, Filed, OneSendEach
<1>g. /\ clashed \subseteq clashed' /\ adrift \subseteq adrift'
      /\ \A s \in 1 .. sends : slug'[s] = slug[s]
      /\ \A t \in DOMAIN tasks : t \in DOMAIN tasks' /\ tasks'[t].spec = tasks[t].spec
      /\ \A t \in DOMAIN tasks : tasks[t].spec \in 1 .. sends /\ slug'[tasks[t].spec] = slug[tasks[t].spec]
  BY BooksGrow, SlugsKept, TasksGrow, <1>t DEF OneTaskEach
<1>1. ASSUME NEW t \in DOMAIN tasks, \E n \in clashed : n[1] = slug[tasks[t].spec] PROVE Filed(t)'
  BY <1>1, <1>g DEF Filed
<1>2. ASSUME NEW t \in DOMAIN tasks, NEW n \in Names, files[n].task = t, files[n].spec = tasks[t].spec
      PROVE  Filed(t)'
  <2>1. t # 0 /\ files[n] # NoFile
    <3>1. t # 0
      BY <1>t
    <3> QED
      BY <3>1, <1>2 DEF NoFile
  <2>2. CASE files'[n].task = t /\ files'[n].spec = tasks[t].spec
    BY <2>2, <1>g DEF Filed
  <2>3. n \in clashed => Filed(t)'
    BY <1>1, <1>2, <1>g, <1>t DEF OfItsSlug
  <2>4. ASSUME NEW c \in Clients, SaveFile(c), path[c] = n PROVE n \in clashed
    BY <2>4, <2>1, <1>t DEF SaveFile, Moves, NameIsFree, Exists
  <2>5. ASSUME NEW c \in Clients, SaveFile(c), path[c] # n PROVE files'[n] = files[n]
    BY <2>5, <1>t DEF SaveFile
  <2>6. ASSUME NEW c \in Clients, LinkFile(c), path[c] = n PROVE n \in clashed
    BY <2>6, <2>1, <1>2, <1>t DEF LinkFile, Moves, Saved
  <2>7. ASSUME NEW c \in Clients, LinkFile(c), path[c] # n PROVE files'[n] = files[n]
    BY <2>7, <1>t DEF LinkFile
  <2> QED
    BY <2>2, <2>3, <2>4, <2>5, <2>6, <2>7, <1>2, <1>t, FileSteps, ClosedFile DEF PipelineInv
<1>3. ASSUME NEW t \in DOMAIN tasks, tasks[t].spec \in adrift PROVE Filed(t)'
  BY <1>3, <1>g DEF Filed
<1>4. ASSUME NEW t \in DOMAIN tasks, NEW c \in Clients, own[c] = tasks[t].spec PROVE Filed(t)'
  <2>1. step[c] \in Linking /\ own[c] \in 1 .. sends
    BY <1>4, <1>t DEF OneTaskEach
  <2>2. CASE own'[c] = own[c]
    BY <2>2, <1>4, <1>g DEF Filed
  <2>3. CASE ClientDies(c)
    BY <2>3, <1>4, <1>g DEF ClientDies, Filed
  <2>4. CASE LinkFile(c)
    <3>1. step[c] = "linkFile" /\ path[c] \in Names /\ got[c] \in DOMAIN tasks /\ tasks[got[c]].spec = own[c]
      BY <2>4, <1>t DEF LinkFile, Moves, Naming, OneTaskEach, Linking
    <3>2. got[c] = t
      BY <3>1, <1>4, <1>t DEF OneTaskEach
    <3>3. CASE path[c] \in clashed
      <4>1. path[c][1] = slug[tasks[t].spec]
        BY <3>1, <1>4, <1>t DEF OneSendEach, Naming
      <4> QED
        BY <1>1, <3>3, <4>1
    <3>4. CASE path[c] \notin clashed
      <4>1. files[path[c]].spec = own[c]
        BY <3>1, <3>4, <1>t DEF Saved
      <4>2. files'[path[c]].task = t /\ files'[path[c]].spec = tasks'[t].spec
        BY <2>4, <3>1, <3>2, <4>1, <1>4, <1>t, <1>g, LinkedFile
      <4>3. PICK n \in Names : n = path[c]
        BY <3>1
      <4>4. files'[n].task = t /\ files'[n].spec = tasks'[t].spec
        BY <4>2, <4>3
      <4> QED
        BY <4>4 DEF Filed
    <3> QED
      BY <3>3, <3>4
  <2>5. own'[c] = own[c] \/ ClientDies(c) \/ LinkFile(c)
    <3>1. ASSUME NEW d \in Clients, RetroGate(d) PROVE own'[c] = own[c]
      BY <3>1, <2>1, <1>t DEF RetroGate, Moves, Linking
    <3>2. ASSUME NEW d \in Clients, d # c, Drops(d) PROVE own'[c] = own[c]
      BY <3>2, <1>t DEF Drops
    <3>3. ~OtherGates(c) /\ ~PostSpec(c)
      BY <2>1 DEF OtherGates, PostSpec, Moves, Linking
    <3>4. \A d \in Clients : ChooseName(d) \/ Passes(d) => own'[c] = own[c]
      BY DEF ChooseName, Passes
    <3>5. UNCHANGED ClientVars => own'[c] = own[c]
      BY DEF ClientVars
    <3> QED
      BY <3>1, <3>2, <3>3, <3>4, <3>5, <1>t, HeldSteps
  <2> QED
    BY <2>2, <2>3, <2>4, <2>5
<1>5. ASSUME NEW t \in DOMAIN tasks' \ DOMAIN tasks PROVE Filed(t)'
  <2>1. PICK c \in Clients : PostSpec(c) /\ NewTask(own[c])
    <3>1. \A u \in DOMAIN tasks : \A st : DOMAIN [tasks EXCEPT ![u].status = st] = DOMAIN tasks
      BY <1>t
    <3> QED
      BY <3>1, <1>5, TaskSteps
  <2>2. tasks'[t].spec = own[c]
    BY <2>1, <1>5, <1>t DEF NewTask
  <2>3. own'[c] = own[c] \/ own[c] \in adrift'
    BY <2>1 DEF PostSpec
  <2> QED
    BY <2>2, <2>3 DEF Filed
<1>6. \A t \in DOMAIN tasks' : Filed(t)'
  BY <1>1, <1>2, <1>3, <1>4, <1>5, <1>t DEF Filed
<1> QED
  BY <1>6 DEF TaskHasItsFile, Filed

LEMMA PlansFollow == ASSUME PipelineInv, PipelineNext PROVE PlanFollowsTask'
<1> DEFINE Ended == {"completed", "failed"}
<1>t. /\ plans \in [SendIds -> PlanRecords] /\ tasks \in Seq(TaskRecords)
      /\ OneTaskEach /\ PlansOfTasks /\ PlanFollowsTask /\ got \in [Clients -> 0 .. MaxSends]
  BY DEF PipelineInv, PipelineTypeOK, PlanRecords, FileInv, FilesOK, TasksAreFiled
<1> SUFFICES ASSUME NEW p \in SendIds, plans'[p].status = "sent",
                    tasks'[plans'[p].task].status \in Ended
             PROVE  p \in early'
  BY DEF PlanFollowsTask
<1>1. ASSUME plans'[p] = plans[p], plans[p].task \in DOMAIN tasks,
             tasks'[plans[p].task].status = tasks[plans[p].task].status
      PROVE  p \in early'
  BY <1>1, <1>t, BooksGrow DEF PlanFollowsTask
<1>2. plans'[p] = plans[p] => plans[p].task \in DOMAIN tasks
  BY <1>t DEF PlansOfTasks
<1>3. ASSUME plans'[p] = plans[p] PROVE p \in early'
  <2>1. CASE tasks'[plans[p].task].status = tasks[plans[p].task].status
    BY <1>1, <1>2, <1>3, <2>1
  <2>2. CASE tasks'[plans[p].task].status # tasks[plans[p].task].status
    <3>1. PICK st \in Ended : TaskEnds(plans[p].task, st)
      BY <2>2, <1>2, <1>3, TasksGrow
    <3>2. p \in PlansOf(plans[p].task)
      BY DEF PlansOf
    <3>3. plans'[p] = [plans[p] EXCEPT !.status = IF st = "completed" THEN "completed_unverified" ELSE st]
      BY <3>1, <3>2 DEF TaskEnds
    <3>4. plans[p] \in PlanRecords
      BY <1>t
    <3>5. plans'[p].status # "sent"
      BY <3>3, <3>4 DEF PlanRecords
    <3> QED
      BY <3>5
  <2> QED
    BY <2>1, <2>2
<1>4. ASSUME NEW t \in DOMAIN tasks, Restated(t) PROVE plans'[p] = plans[p]
  BY <1>4 DEF Restated
<1>5. ASSUME NEW c \in Clients, Makes(c) PROVE plans'[p] = plans[p]
  BY <1>5 DEF Makes
<1>6. ASSUME NEW c \in Clients, LinkPlan(c), Links(c) PROVE plans'[p] = plans[p] \/ p \in early'
  <2>1. step[c] = "linkPlan" /\ tasks' = tasks
    BY <1>6 DEF LinkPlan, Moves
  <2>2. CASE p = own[c] /\ plans'[p].task = got[c]
    BY <2>1, <2>2, <1>t, BooksGrow DEF PlansOfTasks
  <2> QED
    BY <2>2, <1>6 DEF Links
<1> QED
  BY <1>3, <1>4, <1>5, <1>6, PlanSteps

LEMMA PipelineType ==
  ASSUME PipelineInv, PipelineNext, OneTaskEach', OneSendEach', FileInv' PROVE PipelineTypeOK'
<1>t. PipelineTypeOK /\ MaxSends \in Nat /\ MaxUnlucky \in Nat /\ FileInv /\ OneTaskEach
  BY SpecAssumption DEF PipelineInv
<1>1. sends' \in 0 .. MaxSends /\ slug' \in [SendIds -> Slugs \cup {0}]
  <2>1. ASSUME NEW c \in Clients, RetroGate(c) PROVE sends' \in 0 .. MaxSends /\ slug' \in [SendIds -> Slugs \cup {0}]
    <3>1. PICK g \in Slugs : slug' = [slug EXCEPT ![sends + 1] = g]
      BY <2>1 DEF RetroGate
    <3>2. sends < MaxSends /\ sends' = sends + 1 /\ sends \in Nat
      BY <2>1, <1>t DEF RetroGate, PipelineTypeOK
    <3>3. slug \in [SendIds -> Slugs \cup {0}] /\ g \in Slugs \cup {0}
      BY <1>t DEF PipelineTypeOK
    <3>4. slug' \in [SendIds -> Slugs \cup {0}]
      BY <3>1, <3>3
    <3> QED
      BY <3>2, <3>4, <1>t
  <2>2. (sends' = sends /\ slug' = slug) \/ \E c \in Clients : RetroGate(c)
    BY <1>t, HeldSteps DEF ClientVars, Passes, Drops, ChooseName
  <2> QED
    BY <2>1, <2>2, <1>t DEF PipelineTypeOK
<1>2. /\ tasks' \in Seq(TaskRecords) /\ sends' \in Nat
      /\ step' \in [Clients -> StepNames] /\ own' \in [Clients -> Nat]
  BY <1>1, <1>t DEF FileInv, FilesOK
<1>3. Len(tasks') <= MaxSends /\ Len(tasks') \in Nat
  <2>1. \A t \in DOMAIN tasks' : tasks'[t].spec \in 1 .. sends'
    BY DEF OneTaskEach
  <2>2. \A t, u \in DOMAIN tasks' : tasks'[t].spec = tasks'[u].spec => t = u
    BY DEF OneTaskEach
  <2>3. Len(tasks') <= sends' /\ Len(tasks') \in Nat
    BY <2>1, <2>2, <1>2, TasksAreFew
  <2> QED
    BY <2>3, <1>1, <1>t
<1>4. tasks' \in Seq([spec : SendIds, status : {"pending", "working", "completed", "failed", "ended_past"}])
  <2>1. \A t \in DOMAIN tasks' : tasks'[t].spec \in SendIds /\ tasks'[t] \in TaskRecords
    BY <1>1, <1>2, <1>t DEF OneTaskEach, SendIds
  <2>2. \A t \in DOMAIN tasks' :
          tasks'[t] \in [spec : SendIds, status : {"pending", "working", "completed", "failed", "ended_past"}]
    BY <2>1 DEF TaskRecords
  <2>3. \A S : (\A t \in DOMAIN tasks' : tasks'[t] \in S) => tasks' \in Seq(S)
    BY <1>2
  <2> QED
    BY <2>2, <2>3
<1>5. own' \in [Clients -> 0 .. MaxSends]
  <2>1. \A c \in Clients : own'[c] \in 0 .. MaxSends
    BY <1>1, <1>2, <1>t DEF OneSendEach
  <2> QED
    BY <2>1, <1>2
<1>6. plans' \in [SendIds -> PlanRecords]
  BY <1>t, PlanSteps DEF PipelineTypeOK, PlanRecords, Restated, Makes, Links
<1>7. got' \in [Clients -> 0 .. MaxSends]
  <2>1. ASSUME NEW c \in Clients, SendSpec(c) \/ CloseTask(c) \/ ClientDies(c)
        PROVE  \E n \in {0, Len(tasks')} : got' = got \/ got' = [got EXCEPT ![c] = n]
    BY <2>1 DEF SendSpec, CloseTask, ClientDies, RetroGate, OtherGates, CreatePlan, ChooseName,
       SaveFile, PostSpec, LinkPlan, LinkFile, UpdateSpec
  <2>2. Server => got' = got
    BY DEF Server, Works, TaskEnds, EndsPast
  <2>3. 0 \in 0 .. MaxSends /\ Len(tasks') \in 0 .. MaxSends /\ got \in [Clients -> 0 .. MaxSends]
    BY <1>3, <1>t DEF PipelineTypeOK
  <2> QED
    BY <2>1, <2>2, <2>3 DEF PipelineNext
<1>8. path' \in [Clients -> Names \cup {<<>>}]
  <2>1. ASSUME NEW c \in Clients, ChooseName(c) PROVE path' \in [Clients -> Names \cup {<<>>}]
    <3>1. PICK k \in SendIds : path' = [path EXCEPT ![c] = <<slug[own[c]], k>>]
      BY <2>1 DEF ChooseName
    <3>2. step'[c] = "save" /\ path'[c] = <<slug[own[c]], k>>
      BY <2>1, <3>1, <1>t DEF ChooseName, Moves, PipelineTypeOK
    <3>3. path'[c] \in Names
      BY <3>2 DEF OneSendEach, Naming
    <3> QED
      BY <3>1, <3>2, <3>3, <1>t DEF PipelineTypeOK
  <2>2. ASSUME NEW c \in Clients, SendSpec(c) \/ CloseTask(c) \/ ClientDies(c), ~ChooseName(c)
        PROVE  path' = path \/ path' = [path EXCEPT ![c] = <<>>]
    BY <2>2 DEF SendSpec, CloseTask, ClientDies, RetroGate, OtherGates, CreatePlan,
       SaveFile, PostSpec, LinkPlan, LinkFile, UpdateSpec
  <2>3. Server => path' = path
    BY DEF Server, Works, TaskEnds, EndsPast
  <2> QED
    BY <2>1, <2>2, <2>3, <1>t DEF PipelineNext, PipelineTypeOK
<1>9. /\ clashed' \subseteq Names /\ adrift' \subseteq SendIds /\ early' \subseteq SendIds
      /\ forced' \subseteq SendIds /\ unlucky' \in 0 .. MaxUnlucky
  <2>1. ASSUME NEW c \in Clients
        PROVE  /\ step[c] # "idle" => own[c] \in SendIds
               /\ RetroGate(c) => sends + 1 \in SendIds
    BY <1>t DEF PipelineInv, OneSendEach, PipelineTypeOK, SendIds, RetroGate
  <2>2. ASSUME NEW c \in Clients, ChooseName(c) PROVE path'[c] \in Names
    <3>1. step'[c] = "save"
      BY <2>2, <1>t DEF ChooseName, Moves, PipelineTypeOK
    <3> QED
      BY <3>1 DEF OneSendEach, Naming
  <2>3. clashed' \subseteq Names
    <3>1. ASSUME NEW c \in Clients, SendSpec(c) \/ CloseTask(c) \/ ClientDies(c), ~ChooseName(c)
          PROVE  clashed' = clashed
      BY <3>1 DEF SendSpec, CloseTask, ClientDies, RetroGate, OtherGates, CreatePlan,
         SaveFile, PostSpec, LinkPlan, LinkFile, UpdateSpec, books
    <3>2. Server => clashed' = clashed
      BY DEF Server, Works, TaskEnds, EndsPast, books
    <3>3. ASSUME NEW c \in Clients, ChooseName(c) PROVE clashed' \subseteq Names
      BY <3>3, <2>2, <1>t DEF ChooseName, PipelineTypeOK
    <3> QED
      BY <3>1, <3>2, <3>3, <1>t DEF PipelineNext, PipelineTypeOK
  <2>4. adrift' \subseteq SendIds
    <3>1. ASSUME NEW c \in Clients, SendSpec(c) \/ CloseTask(c) \/ ClientDies(c)
          PROVE  \/ adrift' = adrift
                 \/ step[c] # "idle" /\ adrift' = adrift \cup {own[c]}
      BY <3>1 DEF SendSpec, CloseTask, ClientDies, RetroGate, OtherGates, CreatePlan, ChooseName,
         SaveFile, PostSpec, LinkPlan, LinkFile, UpdateSpec, books, Moves
    <3>2. Server => adrift' = adrift
      BY DEF Server, Works, TaskEnds, EndsPast, books
    <3> QED
      BY <3>1, <3>2, <2>1, <1>t DEF PipelineNext, PipelineTypeOK
  <2>5. early' \subseteq SendIds
    <3>1. ASSUME NEW c \in Clients, SendSpec(c) \/ CloseTask(c) \/ ClientDies(c)
          PROVE  early' = early
      BY <3>1 DEF SendSpec, CloseTask, ClientDies, RetroGate, OtherGates, CreatePlan, ChooseName,
         SaveFile, PostSpec, LinkPlan, LinkFile, UpdateSpec, books
    <3>2. \A t \in DOMAIN tasks : tasks[t].spec \in SendIds
      <4>1. sends \in 0 .. MaxSends
        BY <1>t DEF PipelineTypeOK
      <4> QED
        BY <4>1, <1>t DEF OneTaskEach, SendIds
    <3>4. \A t \in DOMAIN tasks : Works(t) \/ EndsPast(t) => early' = early
      BY DEF Works, EndsPast, books
    <3>5. \A t \in DOMAIN tasks : \A st : TaskEnds(t, st) => early' \subseteq early \cup {tasks[t].spec}
      BY DEF TaskEnds
    <3>3. Server => early' \subseteq SendIds
      BY <3>2, <3>4, <3>5, <1>t DEF Server, PipelineTypeOK
    <3> QED
      BY <3>1, <3>3, <1>t DEF PipelineNext, PipelineTypeOK
  <2>6. forced' \subseteq SendIds
    <3>1. ASSUME NEW c \in Clients, SendSpec(c) \/ CloseTask(c) \/ ClientDies(c), ~RetroGate(c)
          PROVE  forced' = forced
      BY <3>1 DEF SendSpec, CloseTask, ClientDies, OtherGates, CreatePlan, ChooseName,
         SaveFile, PostSpec, LinkPlan, LinkFile, UpdateSpec, books
    <3>2. \A c \in Clients : RetroGate(c) => forced' = forced \/ forced' = forced \cup {sends + 1}
      BY DEF RetroGate
    <3>3. Server => forced' = forced
      BY DEF Server, Works, TaskEnds, EndsPast, books
    <3> QED
      BY <3>1, <3>2, <3>3, <2>1, <1>t DEF PipelineNext, PipelineTypeOK
  <2>7. unlucky' \in 0 .. MaxUnlucky
    <3>1. ASSUME NEW c \in Clients, SendSpec(c) \/ CloseTask(c) \/ ClientDies(c)
          PROVE  unlucky' = unlucky \/ Unlucky
      BY <3>1 DEF SendSpec, CloseTask, ClientDies, RetroGate, OtherGates, CreatePlan, ChooseName,
         SaveFile, PostSpec, LinkPlan, LinkFile, UpdateSpec
    <3>2. Server => unlucky' = unlucky
      BY DEF Server, Works, TaskEnds, EndsPast
    <3>3. Unlucky => unlucky' \in 0 .. MaxUnlucky
      BY <1>t DEF Unlucky, PipelineTypeOK
    <3> QED
      BY <3>1, <3>2, <3>3, <1>t DEF PipelineNext, PipelineTypeOK
  <2> QED
    BY <2>3, <2>4, <2>5, <2>6, <2>7
<1>10. files' \in [Names -> [spec : 0 .. MaxSends, task : 0 .. MaxSends,
                             status : {"none", "sent", "completed", "failed"},
                             retro : {"none", "pending", "written", "blank"}]]
  <2> DEFINE R == [spec : 0 .. MaxSends, task : 0 .. MaxSends,
                   status : {"none", "sent", "completed", "failed"},
                   retro : {"none", "pending", "written", "blank"}]
  <2>1. files \in [Names -> R] /\ own \in [Clients -> 0 .. MaxSends] /\ got \in [Clients -> 0 .. MaxSends]
    BY <1>t DEF PipelineTypeOK
  <2>2. ASSUME NEW c \in Clients, SaveFile(c) PROVE files' \in [Names -> R]
    <3>1. files' = [files EXCEPT ![path[c]] =
                     [spec |-> own[c], task |-> 0, status |-> "sent", retro |-> "pending"]]
      BY <2>2 DEF SaveFile
    <3>2. [spec |-> own[c], task |-> 0, status |-> "sent", retro |-> "pending"] \in R
      BY <2>1, <1>t
    <3> QED
      BY <3>1, <3>2, <2>1
  <2>3. ASSUME NEW c \in Clients, LinkFile(c) PROVE files' \in [Names -> R]
    <3>1. files' = [files EXCEPT ![path[c]] = [files[path[c]] EXCEPT !.task = got[c]]]
      BY <2>3 DEF LinkFile
    <3>2. path[c] \in Names => [files[path[c]] EXCEPT !.task = got[c]] \in R
      BY <2>1
    <3> QED
      BY <3>1, <3>2, <2>1
  <2>4. ASSUME NEW n \in Names, NEW word \in {"completed", "failed"}, NEW retro \in {"written", "blank"},
               Closes(n, word, retro)
        PROVE  files' \in [Names -> R]
    <3>1. ASSUME NEW q \in R
          PROVE  [q EXCEPT !.status = word] \in R /\ [q EXCEPT !.retro = retro] \in R
      OBVIOUS
    <3>2. [[files[n] EXCEPT !.status = word] EXCEPT !.retro = retro] \in R
      BY <3>1, <2>1
    <3> QED
      BY <3>2, <2>1, <2>4 DEF Closes
  <2> QED
    BY <2>1, <2>2, <2>3, <2>4, <1>t, FileSteps
<1> QED
  BY <1>1, <1>2, <1>4, <1>5, <1>6, <1>7, <1>8, <1>9, <1>10
     DEF PipelineTypeOK, StepNames, PlanRecords

LEMMA PipelineStep == PipelineInv /\ [PipelineNext]_specVars => PipelineInv'
<1>1. ASSUME PipelineInv, PipelineNext PROVE PipelineInv'
  <2>1. FileInv'
    BY <1>1, FileStep DEF PipelineInv
  <2>2. OneSendEach' /\ OneTaskEach' /\ Saved' /\ PlansOfTasks'
    BY <1>1, SendsKept, TasksKept, SavedKept, PlansKept
  <2>3. TasksAreFiled'
    BY <1>1, FiledKept, PlansFollow DEF TasksAreFiled
  <2> QED
    BY <1>1, <2>1, <2>2, <2>3, SlugsOfFiles, PipelineType DEF PipelineInv
<1>2. ASSUME PipelineInv, UNCHANGED specVars PROVE PipelineInv'
  BY <1>2 DEF specVars, shared, books, PipelineInv, PipelineTypeOK, FileInv, FilesOK, NameIsFree,
     OneHand, Exists, OneSendEach, OneTaskEach, OfItsSlug, Saved, PlansOfTasks, TasksAreFiled,
     TaskHasItsFile, PlanFollowsTask
<1> QED
  BY <1>1, <1>2

\* The invariant of sending and closing specs.
THEOREM PipelineCorrect == PipelineSpec => []PipelineInv
BY PipelineStarts, PipelineStep, PTL DEF PipelineSpec

\* Every task the server has can be closed under its own spec, unless an answer or a client
\* was lost or two clients chose one name; and only a task that ended too early leaves a
\* plan that says "sent".
THEOREM EveryTaskIsFiled == PipelineSpec => []TasksAreFiled
<1>1. PipelineInv => TasksAreFiled
  BY DEF PipelineInv
<1> QED
  BY <1>1, PipelineCorrect, PTL

-----------------------------------------------------------------------------
(* ContentDesk: the draft file, what the dashboard shows of it, and what    *)
(* is published of it.                                                      *)

Angles == [title : Titles, mark : {"draft", "approved", "posted"}]
Shown  == [title : Titles, status : Statuses]

LEMMA PlatformsAre ==
  /\ DOMAIN Platforms = 1 .. 4 /\ Platforms \in [1 .. 4 -> ToSet(Platforms)]
  /\ ToSet(Platforms) = {"linkedin", "twitter", "instagram", "blog"}
  /\ Range(Platforms) = ToSet(Platforms) /\ IsInjective(Platforms)
BY DEF Platforms, ToSet, Range, IsInjective

\* What the agent's skill writes, and what is published of it, are drafts.
LEMMA Drafted ==
  ASSUME NEW n \in Nat, NEW q \in [1 .. n -> Titles]
  PROVE  [i \in 1 .. n |-> Draft(q[i])] \in Seq(Angles)
BY DEF Draft, Angles

LEMMA Extended ==
  ASSUME NEW n \in 0 .. Len(page), page \in Seq(Angles), rows \in Seq(Shown)
  PROVE  /\ Parsed(rows, n) \in Seq(Shown) 
         /\ Len(Parsed(rows, n)) = IF n > Len(rows) THEN n ELSE Len(rows)
         /\ \A i \in 1 .. n : Parsed(rows, n)[i] = Upserted(rows, i)
         /\ \A i \in DOMAIN rows : i > n => Parsed(rows, n)[i] = rows[i]
<1> DEFINE m == IF n > Len(rows) THEN n ELSE Len(rows)
<1>1. m \in Nat /\ n <= m /\ Len(rows) <= m
  OBVIOUS
<1>2. ASSUME NEW i \in 1 .. n PROVE Upserted(rows, i) \in Shown
  <2>1. page[i] \in Angles
    OBVIOUS
  <2>2. i \in DOMAIN rows => rows[i] \in Shown
    OBVIOUS
  <2> QED
    BY <2>1, <2>2 DEF Upserted, Angles, Shown, Statuses
<1>3. ASSUME NEW i \in 1 .. m PROVE (IF i <= n THEN Upserted(rows, i) ELSE rows[i]) \in Shown
  <2>1. CASE i <= n
    BY <2>1, <1>2
  <2>2. CASE ~(i <= n)
    BY <2>2, <1>1
  <2> QED
    BY <2>1, <2>2
<1>4. Parsed(rows, n) = [i \in 1 .. m |-> IF i <= n THEN Upserted(rows, i) ELSE rows[i]]
  BY DEF Parsed
<1>5. Parsed(rows, n) \in [1 .. m -> Shown]
  BY <1>3, <1>4
<1> QED
  BY <1>1, <1>4, <1>5

\* The sequences of the type, by name.
LEMMA DeskSeqs ==
  ASSUME DeskTypeOK
  PROVE  /\ page \in Seq(Angles) /\ rows \in Seq(Shown) /\ said \in Seq(Statuses)
         /\ held \subseteq Seq(Angles) /\ Pages = Seq(Angles)
         /\ \A i \in DOMAIN page : page[i] \in Angles
         /\ \A i \in DOMAIN rows : rows[i] \in Shown
         /\ \A m : Marked(page, m) \subseteq Titles
<1>1. /\ page \in Seq(Angles) /\ rows \in Seq(Shown) /\ said \in Seq(Statuses)
      /\ held \subseteq Seq(Angles) /\ Pages = Seq(Angles)
  BY DEF DeskTypeOK, Angles, Shown, Pages
<1>2. /\ \A i \in DOMAIN page : page[i] \in Angles
      /\ \A i \in DOMAIN rows : rows[i] \in Shown
  BY <1>1
<1>3. \A m : Marked(page, m) \subseteq Titles
  BY <1>2 DEF Marked, Angles
<1> QED
  BY <1>1, <1>2, <1>3

LEMMA DeskStarts == DeskInit => DeskTypeOK /\ OnceInv /\ ShownInv
<1> SUFFICES ASSUME DeskInit PROVE DeskTypeOK /\ OnceInv /\ ShownInv
  OBVIOUS
<1> USE DEF DeskInit
<1>1. DeskTypeOK
  <2>1. \A S : <<>> \in Seq(S)
    OBVIOUS
  <2>2. 0 \in 0 .. MaxWrites /\ 0 \in 0 .. MaxAttempts /\ 0 \in 0 .. MaxMishaps /\ 0 \in 0 .. 0
    BY DeskAssumption
  <2> QED
    BY <2>1, <2>2 DEF DeskTypeOK, Pages
<1>2. Marked(page, "posted") = {} /\ \A t \in Titles : ~WasPosted(t)
  BY DEF Marked, WasPosted
<1>3. PublishedOnce
  BY <1>2 DEF PublishedOnce, TriedAll
<1>4. OnceInv
  BY <1>2, <1>3 DEF OnceInv, HeldInv, AllApart, IsInjective
<1>5. ShownInv
  BY DEF ShownInv, DashboardShowsFile
<1> QED
  BY <1>1, <1>4, <1>5

LEMMA AgentType == ASSUME DeskTypeOK, Agent PROVE DeskTypeOK'
<1> USE DEF DeskTypeOK, dashboard, publisher, agentSide
<1>1. CASE AgentStarts
  BY <1>1, DeskAssumption DEF AgentStarts
<1>2. CASE SkillWrites
  <2>0. PICK n \in 0 .. Cardinality(Titles) :
          \E q \in [1 .. n -> Titles] : Write([i \in 1 .. n |-> Draft(q[i])])
    BY <1>2 DEF SkillWrites
  <2>1. PICK q \in [1 .. n -> Titles] : Write([i \in 1 .. n |-> Draft(q[i])])
    BY <2>0
  <2>4. n \in Nat
    OBVIOUS
  <2>2. page' \in Seq(Angles) /\ stamp < MaxWrites /\ stamp' = stamp + 1
    BY <2>1, <2>4, Drafted DEF Write
  <2>3. torn' \subseteq Titles
    BY <1>2, DeskSeqs DEF SkillWrites
  <2> QED
    BY <1>2, <2>2, <2>3, DeskAssumption, DeskSeqs DEF SkillWrites
<1>3. CASE AppendLog
  BY <1>3, DeskAssumption DEF AppendLog
<1>4. ASSUME NEW ok \in BOOLEAN, SkillEnds(ok) PROVE DeskTypeOK'
  BY <1>4, DeskAssumption DEF SkillEnds
<1> QED
  BY <1>1, <1>2, <1>3, <1>4 DEF Agent

\* A parse of the file, whole or cut short.
LEMMA LoadSteps ==
  ASSUME DeskTypeOK, Len(rows) = Len(said), LoadBrief
  PROVE  \E n \in 0 .. Len(page) :
           /\ rows' = Parsed(rows, n) /\ (n = Len(page) \/ cut')
           /\ rows' \in Seq(Shown) /\ said' \in Seq(Statuses)
           /\ Len(rows') = IF n > Len(rows) THEN n ELSE Len(rows)
           /\ Len(said') = Len(rows')
           /\ \A i \in DOMAIN said : said'[i] = said[i]
           /\ \A i \in DOMAIN rows' : i > Len(rows) => said'[i] = "draft"
<1>1. page \in Seq(Angles) /\ rows \in Seq(Shown) /\ said \in Seq(Statuses)
  BY DeskSeqs
<1>2. PICK n \in 0 .. Len(page) : rows' = Parsed(rows, n) /\ (n = Len(page) \/ cut')
  BY <1>1 DEF LoadBrief
<1>3. /\ rows' \in Seq(Shown)
      /\ Len(rows') = IF n > Len(rows) THEN n ELSE Len(rows)
  BY <1>1, <1>2, Extended
<1> DEFINE k == Len(rows') - Len(rows)
           more == [i \in 1 .. k |-> "draft"]
<1>4. k \in Nat /\ more \in Seq(Statuses) /\ Len(more) = k
  BY <1>1, <1>3 DEF Statuses
<1>5. said' = said \o more
  BY DEF LoadBrief
<1> HIDE DEF k
<1>6. /\ said' \in Seq(Statuses) /\ Len(said') = Len(said) + k
      /\ \A i \in DOMAIN said : said'[i] = said[i]
      /\ \A i \in 1 .. Len(said') : i > Len(said) => said'[i] = more[i - Len(said)]
  BY <1>1, <1>4, <1>5
<1>7. Len(said') = Len(rows') /\ DOMAIN rows' = 1 .. Len(said')
  BY <1>1, <1>3, <1>6 DEF k
<1>8. \A i \in DOMAIN rows' : i > Len(rows) => said'[i] = "draft"
  BY <1>1, <1>4, <1>6, <1>7
<1> QED
  BY <1>2, <1>3, <1>6, <1>7, <1>8

LEMMA DashboardType == ASSUME DeskTypeOK, ShownInv, Dashboard PROVE DeskTypeOK'
<1> USE DEF agentSide, publisher, dashboard
<1>1. CASE LoadBrief
  <2>1. rows' \in Seq(Shown) /\ said' \in Seq(Statuses)
    BY <1>1, LoadSteps DEF ShownInv
  <2>2. cached' \in 0 .. stamp' /\ cut' \in BOOLEAN /\ glitches' \in 0 .. MaxMishaps
    <3>1. stamp \in Nat /\ cached' = stamp /\ stamp' = stamp
      BY <1>1, DeskAssumption DEF LoadBrief, DeskTypeOK
    <3>2. cut' \in BOOLEAN
      BY <1>1 DEF LoadBrief
    <3>3. glitches' = glitches \/ (glitches < MaxMishaps /\ glitches' = glitches + 1)
      BY <1>1 DEF LoadBrief, Glitch
    <3> QED
      BY <3>1, <3>2, <3>3, DeskAssumption DEF DeskTypeOK
  <2> QED
    BY <1>1, <2>1, <2>2 DEF LoadBrief, DeskTypeOK, Shown
<1>2. ASSUME NEW i \in DOMAIN rows, NEW v \in Statuses,
             rows' = [rows EXCEPT ![i].status = v], said' = [said EXCEPT ![i] = v],
             UNCHANGED <<page, stamp, agentSide, cached, cut, publisher, torn, glitches>>
      PROVE  DeskTypeOK'
  <2>0. rows \in Seq(Shown) /\ said \in Seq(Statuses)
    BY DeskSeqs
  <2>1. rows' = [rows EXCEPT ![i] = [rows[i] EXCEPT !.status = v]]
    BY <1>2
  <2>4. [rows[i] EXCEPT !.status = v] \in Shown
    BY <1>2, DeskSeqs DEF Shown
  <2>2. rows' \in Seq(Shown)
    BY <2>0, <2>1, <2>4
  <2>3. said' \in Seq(Statuses)
    BY <2>0, <1>2 DEF ShownInv
  <2> QED
    BY <1>2, <2>2, <2>3 DEF DeskTypeOK, Shown
<1>3. ASSUME NEW i \in DOMAIN rows, MarkPosted(i) PROVE DeskTypeOK'
  BY <1>3, <1>2 DEF MarkPosted, Statuses
<1>4. ASSUME NEW i \in DOMAIN rows, NEW v \in {"approved", "rejected"}, Verdict(i, v)
      PROVE  DeskTypeOK'
  BY <1>4, <1>2 DEF Verdict, Statuses
<1>5. ASSUME NEW i \in DOMAIN page, EditMark(i) PROVE DeskTypeOK'
  <2>1. page[i] \in Angles /\ page \in Seq(Angles)
    BY <1>5, DeskSeqs
  <2>2. PICK x \in {"draft", "approved"} : page' = [page EXCEPT ![i] = [page[i] EXCEPT !.mark = x]]
    BY <1>5 DEF EditMark, Write, DeskTypeOK
  <2>3. [page[i] EXCEPT !.mark = x] \in Angles
    BY <2>1, <2>2 DEF Angles
  <2>4. page' \in Pages
    BY <2>1, <2>2, <2>3, DeskSeqs
  <2> QED
    BY <1>5, <2>4, DeskAssumption DEF EditMark, Write, DeskTypeOK
<1> QED
  BY <1>1, <1>3, <1>4, <1>5 DEF Dashboard

\* What the publisher takes from the file: different approved titles, if the file's differ.
LEMMA TakesApproved ==
  ASSUME DeskTypeOK, Takes({"approved"})
  PROVE  /\ todo' \in Seq(Titles) /\ todo' # <<>>
         /\ ToSet(todo') \subseteq Marked(page, "approved")
         /\ AllApart(page) => IsInjective(todo')
<1> DEFINE S == {i \in DOMAIN page : page[i].mark \in {"approved"}}
<1>1. PICK q \in Listed(S) : q # <<>> /\ todo' = [i \in DOMAIN q |-> page[q[i]].title]
  BY DEF Takes
<1> DEFINE n == Cardinality(S)
<1>2. IsFiniteSet(S) /\ n \in Nat
  <2>1. DOMAIN page = 1 .. Len(page) /\ Len(page) \in Nat
    BY DeskSeqs
  <2>2. IsFiniteSet(1 .. Len(page))
    BY <2>1, FS_Interval
  <2> QED
    BY <2>1, <2>2, FS_Subset, FS_CardinalityType
<1>3. q \in [1 .. n -> S] /\ \A i, j \in DOMAIN q : i < j => q[i] < q[j]
  BY <1>1 DEF Listed
<1> HIDE DEF n
<1>4. \A i \in 1 .. n : page[q[i]] \in Angles /\ page[q[i]].mark = "approved" /\ q[i] \in DOMAIN page
  BY <1>3, DeskSeqs
<1>5. todo' \in [1 .. n -> Titles] /\ todo' \in Seq(Titles)
  BY <1>1, <1>2, <1>3, <1>4 DEF Angles
<1>6. n # 0
  BY <1>1, <1>3, <1>2
<1>7. ToSet(todo') \subseteq Marked(page, "approved")
  BY <1>1, <1>3, <1>4 DEF ToSet, Marked
<1>8. ASSUME AllApart(page), NEW i \in 1 .. n, NEW j \in 1 .. n, todo'[i] = todo'[j] PROVE i = j
  <2>1. q[i] = q[j]
    BY <1>8, <1>1, <1>3, <1>4 DEF AllApart
  <2>2. q[i] \in 1 .. Len(page) /\ q[j] \in 1 .. Len(page) /\ i \in Nat /\ j \in Nat
    BY <1>2, <1>4, DeskSeqs
  <2>3. i < j => q[i] < q[j]
    BY <1>3
  <2>4. j < i => q[j] < q[i]
    BY <1>3
  <2> QED
    BY <2>1, <2>2, <2>3, <2>4
<1> QED
  BY <1>2, <1>5, <1>6, <1>7, <1>8 DEF IsInjective

\* The platform that comes next is one the draft has text for and is not through with.
LEMMA NextPlatform ==
  ASSUME NEW p, NEW arrives, Post(p, arrives)
  PROVE  p \in ToSet(Platforms) /\ p \in Wants[Head(todo)] /\ p \notin done
<1>1. Remaining \subseteq {1, 2, 3, 4} /\ Remaining # {} /\ p = Platforms[Min(Remaining)]
  BY PlatformsAre DEF Post, Remaining
<1>2. \E x \in Remaining : \A y \in Remaining : x =< y
  <2> DEFINE R == Remaining
  <2>0. R \subseteq {1, 2, 3, 4} /\ R # {}
    BY <1>1
  <2> SUFFICES \E x \in R : \A y \in R : x =< y
    OBVIOUS
  <2> HIDE DEF R
  <2>1. CASE 1 \in R
    BY <2>0, <2>1
  <2>2. CASE 1 \notin R /\ 2 \in R
    BY <2>0, <2>2
  <2>3. CASE 1 \notin R /\ 2 \notin R /\ 3 \in R
    BY <2>0, <2>3
  <2>4. CASE 1 \notin R /\ 2 \notin R /\ 3 \notin R
    <3>1. R = {4}
      BY <2>0, <2>4
    <3> QED
      BY <3>1
  <2> QED
    BY <2>1, <2>2, <2>3, <2>4
<1>3. Min(Remaining) \in Remaining
  BY <1>2 DEF Min
<1> QED
  BY <1>1, <1>3, PlatformsAre DEF Remaining

\* Marking a file as posted changes marks, and no titles; what has the title is posted,
\* if it was approved, and nothing else but what the title matches.
LEMMA PatchedType ==
  ASSUME NEW t \in Titles, NEW p \in Seq(Angles)
  PROVE  /\ Patched(p, t) \in Seq(Angles) /\ Len(Patched(p, t)) = Len(p)
         /\ DOMAIN Patched(p, t) = DOMAIN p
         /\ \A i \in DOMAIN p : Patched(p, t)[i].title = p[i].title
<1>1. ASSUME NEW i \in DOMAIN p
      PROVE  p[i] \in Angles /\ [p[i] EXCEPT !.mark = "posted"] \in Angles
  <2>1. p[i] \in Angles
    BY <1>1
  <2> QED
    BY <2>1 DEF Angles
<1>2. Patched(p, t) \in [1 .. Len(p) -> Angles]
  BY <1>1 DEF Patched
<1>3. \A i \in DOMAIN p : Patched(p, t)[i].title = p[i].title
  BY <1>1 DEF Patched, Angles
<1> QED
  BY <1>2, <1>3

LEMMA PublisherType == ASSUME DeskTypeOK, OnceInv, Publisher PROVE DeskTypeOK'
<1> USE DEF agentSide, publisher, dashboard
<1>1. CASE ParseDraftFile
  BY <1>1, TakesApproved DEF ParseDraftFile, DeskTypeOK
<1>2. ASSUME NEW p, NEW arrives, Post(p, arrives) PROVE DeskTypeOK'
  <2>1. p \in ToSet(Platforms)
    BY <1>2, NextPlatform
  <2>2. Head(todo) \in Titles
    BY <1>2 DEF Post, DeskTypeOK
  <2> QED
    BY <1>2, <2>1, <2>2 DEF Post, DeskTypeOK, Pieces
<1>3. CASE UpdateDraftFile
  <2>0. PICK p \in held : Write(Patched(p, Head(todo)))
    BY <1>3 DEF UpdateDraftFile
  <2>2. todo' \in Seq(Titles) /\ Head(todo) \in Titles
    BY <1>3, <2>0 DEF UpdateDraftFile, DeskTypeOK, OnceInv, HeldInv
  <2>1. page' \in Pages /\ stamp' \in 0 .. MaxWrites /\ cached' \in 0 .. stamp'
    <3>1. p \in Seq(Angles)
      BY <2>0, DeskSeqs
    <3>2. Patched(p, Head(todo)) \in Pages
      BY <3>1, <2>2, PatchedType, DeskSeqs
    <3> QED
      BY <1>3, <2>0, <3>2, DeskAssumption DEF UpdateDraftFile, Write, DeskTypeOK
  <2> QED
    BY <1>3, <2>1, <2>2 DEF UpdateDraftFile, DeskTypeOK
<1>5. CASE ReadDraftFile
  BY <1>5 DEF ReadDraftFile, DeskTypeOK
<1>4. CASE PublisherDies
  <2>1. Head(todo) \in Titles
    BY <1>4 DEF PublisherDies, DeskTypeOK
  <2>2. glitches' \in 0 .. MaxMishaps
    BY <1>4, DeskAssumption DEF PublisherDies, Glitch, DeskTypeOK
  <2> QED
    BY <1>4, <2>1, <2>2 DEF PublisherDies, DeskTypeOK
<1> QED
  BY <1>1, <1>2, <1>3, <1>4, <1>5
     DEF Publisher, PostLinkedIn, PostXThread, PostInstagram, PostBlog

\* Steps that leave the publisher alone and unmark nothing.
LEMMA OthersKeepOnce ==
  ASSUME DeskTypeOK, OnceInv, UNCHANGED publisher, torn \subseteq torn', AllApart(page'),
         \A t \in Marked(page, "posted") : t \in Marked(page', "posted") \/ t \in torn' \/ ~WasPosted(t),
         Marked(page', "posted") \subseteq Marked(page, "posted")
  PROVE  OnceInv'
<1> USE DEF publisher, OnceInv
<1>1. \A t \in Titles : WasPosted(t)' = WasPosted(t) /\ InHand(t)' = InHand(t)
  BY DEF WasPosted, InHand
<1>2. \A t \in Titles : WasPosted(t)' => Accounted(t)'
  BY <1>1 DEF Accounted
<1>3. PublishedOnce'
  BY DEF PublishedOnce, TriedAll
<1>4. HeldInv'
  BY DEF HeldInv, Remaining, TriedAll
<1> QED
  BY <1>2, <1>3, <1>4

LEMMA AgentKeepsOnce == ASSUME DeskTypeOK, OnceInv, Agent PROVE OnceInv'
<1> USE DEF agentSide, dashboard
<1>1. CASE SkillWrites
  <2>0. PICK n \in 0 .. Cardinality(Titles) :
          \E q \in {s \in [1 .. n -> Titles] : IsInjective(s)} :
            Write([i \in 1 .. n |-> Draft(q[i])])
    BY <1>1 DEF SkillWrites
  <2>1. PICK q \in [1 .. n -> Titles] :
          IsInjective(q) /\ page' = [i \in 1 .. n |-> Draft(q[i])]
    BY <2>0 DEF Write
  <2>2. \A i \in DOMAIN page' : page'[i].title = q[i] /\ page'[i].mark = "draft"
    BY <2>1 DEF Draft
  <2>3. AllApart(page') /\ Marked(page', "posted") = {}
    BY <2>1, <2>2 DEF AllApart, IsInjective, Marked
  <2>4. torn' = torn \cup {t \in Marked(page, "posted") : WasPosted(t)} /\ UNCHANGED publisher
    BY <1>1 DEF SkillWrites
  <2> QED
    BY <2>3, <2>4, OthersKeepOnce
<1>2. CASE ~SkillWrites
  <2>1. UNCHANGED <<publisher, page, torn>>
    BY <1>2 DEF Agent, AgentStarts, AppendLog, SkillEnds
  <2>2. AllApart(page') /\ Marked(page', "posted") = Marked(page, "posted") /\ torn' = torn
    BY <2>1 DEF OnceInv, AllApart, Marked
  <2> QED
    BY <2>1, <2>2, OthersKeepOnce
<1> QED
  BY <1>1, <1>2

LEMMA DashboardKeepsOnce == ASSUME DeskTypeOK, OnceInv, Dashboard PROVE OnceInv'
<1> USE DEF agentSide, dashboard
<1>1. ASSUME NEW i \in DOMAIN page, EditMark(i) PROVE OnceInv'
  <2>1. PICK x \in {"draft", "approved"} : page' = [page EXCEPT ![i] = [page[i] EXCEPT !.mark = x]]
    BY <1>1 DEF EditMark, Write
  <2>2. \A j \in DOMAIN page : page[j] \in Angles
    BY DeskSeqs
  <2>3. /\ DOMAIN page' = DOMAIN page /\ \A j \in DOMAIN page : page'[j].title = page[j].title
        /\ \A j \in DOMAIN page \ {i} : page'[j] = page[j]
        /\ page[i].mark # "posted" /\ page'[i].mark # "posted"
    BY <1>1, <2>1, <2>2 DEF EditMark, Angles
  <2>4. Marked(page', "posted") = Marked(page, "posted")
    BY <2>3 DEF Marked
  <2>5. AllApart(page')
    BY <2>3 DEF OnceInv, AllApart
  <2>6. UNCHANGED <<publisher, torn>>
    BY <1>1 DEF EditMark
  <2> QED
    BY <2>4, <2>5, <2>6, OthersKeepOnce
<1>2. CASE UNCHANGED <<publisher, page, torn>>
  <2>2. AllApart(page') /\ Marked(page', "posted") = Marked(page, "posted") /\ torn' = torn
    BY <1>2 DEF OnceInv, AllApart, Marked
  <2> QED
    BY <1>2, <2>2, OthersKeepOnce
<1> QED
  BY <1>1, <1>2 DEF Dashboard, LoadBrief, MarkPosted, Verdict

LEMMA PublisherKeepsOnce == ASSUME DeskTypeOK, OnceInv, Publisher, DeskTypeOK' PROVE OnceInv'
<1> USE DEF agentSide, dashboard
<1>t. /\ todo \in Seq(Titles) /\ page \in Seq(Angles) /\ posted \subseteq tried
      /\ todo # <<>> => Head(todo) \in Titles
  BY DeskSeqs DEF DeskTypeOK
<1>1. CASE ParseDraftFile
  <2>1. /\ todo = <<>> /\ todo' # <<>> /\ IsInjective(todo')
        /\ ToSet(todo') \subseteq Marked(page, "approved")
        /\ UNCHANGED <<page, torn, done, held, tried, twice, posted>>
    BY <1>1, TakesApproved DEF ParseDraftFile, OnceInv
  <2>2. \A t \in Marked(page, "approved") : t \notin Marked(page, "posted")
    <3>1. "approved" # "posted"
      OBVIOUS
    <3> QED
      BY <3>1 DEF Marked, OnceInv, AllApart
  <2>3. \A t \in Titles : WasPosted(t)' => WasPosted(t)
    BY <2>1 DEF WasPosted
  <2>4. \A t \in Titles : WasPosted(t) => t \in torn \/ t \in Marked(page, "posted")
    BY <2>1 DEF OnceInv, Accounted, InHand
  <2>5. \A t \in Titles : WasPosted(t)' => Accounted(t)'
    BY <2>1, <2>2, <2>3, <2>4 DEF Accounted, Marked
  <2>6. PublishedOnce' /\ AllApart(page') /\ done' = {}
    BY <2>1 DEF OnceInv, PublishedOnce, TriedAll, Marked
  <2>7. HeldInv'
    BY <2>1 DEF OnceInv, HeldInv
  <2> QED
    BY <2>1, <2>5, <2>6, <2>7 DEF OnceInv
<1>2. ASSUME NEW p, NEW arrives, Post(p, arrives) PROVE OnceInv'
  <2>0. PICK h : h = Head(todo)
    OBVIOUS
  <2> DEFINE piece == <<h, p>>
  <2>1. /\ todo # <<>> /\ h = Head(todo) /\ p \in ToSet(Platforms) /\ p \notin done /\ h \in Titles
        /\ tried' = tried \cup {piece} /\ done' = done \cup {p}
        /\ posted \subseteq posted' /\ posted' \subseteq posted \cup {piece}
        /\ twice' \subseteq twice \cup {piece}
        /\ piece \in twice' => piece \in twice \/ piece \in posted
        /\ held = {} /\ UNCHANGED <<page, torn, todo, held>>
    BY <2>0, <1>2, <1>t, NextPlatform DEF Post, OnceInv, HeldInv
  <2>2. piece \in posted => h \in torn
    <3>1. SUFFICES ASSUME piece \in posted, h \notin torn PROVE FALSE
      OBVIOUS
    <3>2. WasPosted(h)
      BY <2>1, <3>1, PlatformsAre DEF WasPosted
    <3>3. h \in ToSet(todo)
      BY <1>t, <2>1 DEF ToSet
    <3>4. InHand(h)
      BY <2>1, <3>1, <3>2, <3>3 DEF OnceInv, Accounted
    <3> QED
      BY <2>1, <3>1, <3>4 DEF InHand
  <2>3. \A x \in twice' : x[1] \in torn'
    <3>1. piece[1] = h
      OBVIOUS
    <3>2. \A x \in twice : x[1] \in torn
      BY DEF OnceInv, PublishedOnce
    <3> QED
      BY <2>1, <2>2, <3>1, <3>2
  <2>4. \A t \in Titles : WasPosted(t)' => Accounted(t)'
    <3>1. ASSUME NEW t \in Titles \ {h}, WasPosted(t)' PROVE Accounted(t)'
      <4>1. WasPosted(t)
        BY <2>1, <3>1 DEF WasPosted
      <4>2. \/ t \in torn
            \/ t \in Marked(page, "posted") /\ t \notin ToSet(todo)
        BY <2>1, <4>1, <3>1 DEF OnceInv, Accounted, InHand
      <4> QED
        BY <4>2, <2>1 DEF Accounted, Marked
    <3>2. ASSUME WasPosted(h)' PROVE Accounted(h)'
      <4>1. CASE h \in torn
        BY <4>1, <2>1 DEF Accounted
      <4>2. CASE h \notin torn
        <5>1. h \in ToSet(todo)
          BY <1>t, <2>1 DEF ToSet
        <5>2. \A r \in ToSet(Platforms) : <<h, r>> \in posted => r \in done
          <6>1. ASSUME NEW r \in ToSet(Platforms), <<h, r>> \in posted PROVE r \in done
            <7>1. WasPosted(h)
              BY <6>1, PlatformsAre DEF WasPosted
            <7> QED
              BY <7>1, <4>2, <5>1, <6>1, <2>1 DEF OnceInv, Accounted, InHand
          <6> QED
            BY <6>1
        <5>3. InHand(h)'
          BY <2>1, <5>2 DEF InHand
        <5> QED
          BY <5>3 DEF Accounted
      <4> QED
        BY <4>1, <4>2
    <3> QED
      BY <3>1, <3>2
  <2>5. \A r \in done' : <<Head(todo'), r>> \in tried'
    BY <2>1 DEF OnceInv
  <2>6. PublishedOnce'
    BY <2>1, <2>3 DEF OnceInv, PublishedOnce, TriedAll, Marked
  <2>7. AllApart(page') /\ IsInjective(todo') /\ HeldInv'
    BY <2>1 DEF OnceInv, HeldInv
  <2> QED
    BY <2>1, <2>4, <2>5, <2>6, <2>7 DEF OnceInv
<1>3. CASE UpdateDraftFile
  <2>0. PICK h : h = Head(todo)
    OBVIOUS
  <2>p. PICK pg \in held : Write(Patched(pg, h))
    BY <2>0, <1>3 DEF UpdateDraftFile
  <2>h. /\ todo # <<>> /\ Remaining = {} /\ AllApart(pg) /\ TriedAll(pg)
        /\ Marked(page, "posted") \subseteq Marked(pg, "posted") /\ pg \in Seq(Angles)
    BY DeskSeqs DEF OnceInv, HeldInv
  <2>1. /\ todo # <<>> /\ h = Head(todo) /\ h \in Titles /\ Remaining = {} /\ page' = Patched(pg, h)
        /\ torn' = (IF h \in Marked(page', "posted") THEN torn ELSE torn \cup {h})
        /\ todo' = Tail(todo) /\ done' = {} /\ held' = {} /\ UNCHANGED <<tried, twice, posted>>
    BY <2>0, <2>p, <2>h, <1>3, <1>t DEF UpdateDraftFile, Write
  <2>2. /\ DOMAIN page' = DOMAIN pg
        /\ \A i \in DOMAIN pg : page'[i].title = pg[i].title
    BY <2>1, <2>h, PatchedType
  <2>3. AllApart(page')
    BY <2>2, <2>h DEF AllApart
  <2>4. IsInjective(todo') /\ h \notin ToSet(todo') /\ ToSet(todo') \subseteq ToSet(todo)
    <3>1. /\ DOMAIN todo' = 1 .. (Len(todo) - 1) /\ DOMAIN todo = 1 .. Len(todo)
          /\ \A i \in 1 .. (Len(todo) - 1) : todo'[i] = todo[i + 1]
          /\ h = todo[1] /\ Len(todo) \in Nat \ {0}
      BY <1>t, <2>1
    <3>2. \A i, j \in 1 .. Len(todo) : todo[i] = todo[j] => i = j
      BY <3>1 DEF OnceInv, IsInjective
    <3>3. IsInjective(todo')
      BY <3>1, <3>2 DEF IsInjective
    <3>4. \A i \in 1 .. (Len(todo) - 1) : todo'[i] # h /\ todo'[i] \in ToSet(todo)
      BY <3>1, <3>2 DEF ToSet
    <3> QED
      BY <3>1, <3>3, <3>4 DEF ToSet
  <2>5. \A i \in DOMAIN pg : page'[i].mark = "posted" =>
           \/ pg[i].mark = "posted"
           \/ pg[i].title = h \/ <<h, pg[i].title>> \in Begins
    BY <2>1 DEF Patched, Matches
  <2>6. \A i \in DOMAIN pg : pg[i].mark = "posted" => page'[i].mark = "posted"
    BY <2>1 DEF Patched
  <2>7. Marked(page, "posted") \subseteq Marked(page', "posted")
    <3>1. Marked(pg, "posted") \subseteq Marked(page', "posted")
      BY <2>2, <2>6 DEF Marked
    <3> QED
      BY <3>1, <2>h
  <2>8. \A t \in Titles : WasPosted(t)' => Accounted(t)'
    <3>1. \A t \in Titles : WasPosted(t)' = WasPosted(t)
      BY <2>1 DEF WasPosted
    <3>2. torn \subseteq torn'
      BY <2>1
    <3>3. ASSUME NEW t \in Titles \ {h}, WasPosted(t) PROVE Accounted(t)'
      <4>1. \/ t \in torn
            \/ t \in Marked(page, "posted") /\ t \notin ToSet(todo)
        BY <2>1, <3>3 DEF OnceInv, Accounted, InHand
      <4> QED
        BY <4>1, <3>2, <2>4, <2>7 DEF Accounted
    <3>4. Accounted(h)'
      BY <2>1, <2>4 DEF Accounted
    <3> QED
      BY <3>1, <3>3, <3>4
  <2>9. PublishedOnce'
    <3>1. \A x \in twice' : x[1] \in torn'
      BY <2>1 DEF OnceInv, PublishedOnce
    <3>2. \A p \in Wants[h] : <<h, p>> \in tried
      <4>1. Wants[h] \subseteq ToSet(Platforms)
        BY <2>1, DeskAssumption
      <4>2. \A p \in Wants[h] : p \in done
        BY <2>1, <4>1, PlatformsAre DEF Remaining, ToSet
      <4> QED
        BY <4>2, <2>1 DEF OnceInv
    <3>3. ASSUME NEW t \in Marked(page', "posted")
          PROVE  \/ \A p \in Wants[t] : <<t, p>> \in tried'
                 \/ \E u \in Titles \ {t} : <<u, t>> \in Begins
      <4>1. PICK i \in DOMAIN pg : page'[i].mark = "posted" /\ t = pg[i].title
        BY <2>2 DEF Marked
      <4>2. CASE pg[i].mark = "posted"
        BY <4>1, <4>2, <2>1, <2>h DEF TriedAll, Marked
      <4>3. CASE t = h
        BY <4>3, <3>2, <2>1
      <4>4. CASE <<h, t>> \in Begins /\ t # h
        BY <4>4, <2>1
      <4> QED
        BY <4>1, <4>2, <4>3, <4>4, <2>5
    <3> QED
      BY <3>1, <3>3 DEF PublishedOnce, TriedAll
  <2>10. HeldInv'
    BY <2>1 DEF HeldInv
  <2> QED
    BY <2>1, <2>3, <2>4, <2>8, <2>9, <2>10 DEF OnceInv
<1>5. CASE ReadDraftFile
  <2>1. /\ todo # <<>> /\ Remaining = {} /\ held' = {page}
        /\ UNCHANGED <<page, todo, done, tried, twice, posted, torn>>
    BY <1>5 DEF ReadDraftFile
  <2>2. HeldInv'
    BY <2>1 DEF OnceInv, HeldInv, PublishedOnce, TriedAll, AllApart, Remaining, Marked
  <2>3. PublishedOnce' /\ AllApart(page')
    BY <2>1 DEF OnceInv, PublishedOnce, TriedAll, AllApart, Marked
  <2>4. \A t \in Titles : WasPosted(t)' => Accounted(t)'
    BY <2>1 DEF OnceInv, WasPosted, Accounted, InHand, Marked
  <2> QED
    BY <2>1, <2>2, <2>3, <2>4 DEF OnceInv
<1>4. CASE PublisherDies
  <2>0. PICK h : h = Head(todo)
    OBVIOUS
  <2>1. /\ todo # <<>> /\ h = Head(todo) /\ h \in Titles
        /\ torn' = (IF WasPosted(h) THEN torn \cup {h} ELSE torn)
        /\ todo' = <<>> /\ done' = {} /\ held' = {} /\ UNCHANGED <<page, tried, twice, posted>>
    BY <2>0, <1>4, <1>t DEF PublisherDies
  <2>2. \A t \in Titles : WasPosted(t)' = WasPosted(t)
    BY <2>1 DEF WasPosted
  <2>3. ToSet(todo') = {} /\ IsInjective(todo')
    BY <2>1 DEF ToSet, IsInjective
  <2>4. ASSUME NEW t \in Titles, WasPosted(t) PROVE Accounted(t)'
    <3>1. t \in torn \/ t \in Marked(page, "posted") \/ t = h
      BY <2>1, <2>4 DEF OnceInv, Accounted, InHand
    <3> QED
      BY <2>1, <2>3, <2>4, <3>1 DEF Accounted, Marked
  <2>5. PublishedOnce' /\ HeldInv'
    BY <2>1 DEF OnceInv, PublishedOnce, TriedAll, HeldInv, Marked
  <2> QED
    BY <2>1, <2>2, <2>3, <2>4, <2>5 DEF OnceInv, AllApart
<1> QED
  BY <1>1, <1>2, <1>3, <1>4, <1>5
     DEF Publisher, PostLinkedIn, PostXThread, PostInstagram, PostBlog

LEMMA ShownKeeps ==
  ASSUME DeskTypeOK, DeskTypeOK', ShownInv, [DeskNext]_deskVars PROVE ShownInv'
<1> USE DEF ShownInv, DashboardShowsFile
<1>t. /\ page \in Seq(Angles) /\ rows \in Seq(Shown) /\ said \in Seq(Statuses)
      /\ stamp \in Nat /\ cached \in 0 .. stamp
  BY DeskSeqs, DeskAssumption DEF DeskTypeOK
<1>1. CASE LoadBrief
  <2>1. PICK n \in 0 .. Len(page) :
           /\ rows' = Parsed(rows, n) /\ (n = Len(page) \/ cut')
           /\ rows' \in Seq(Shown) /\ said' \in Seq(Statuses)
           /\ Len(rows') = IF n > Len(rows) THEN n ELSE Len(rows)
           /\ Len(said') = Len(rows')
           /\ \A i \in DOMAIN said : said'[i] = said[i]
           /\ \A i \in DOMAIN rows' : i > Len(rows) => said'[i] = "draft"
    BY <1>1, LoadSteps
  <2>2. /\ \A i \in 1 .. n : rows'[i] = Upserted(rows, i)
        /\ \A i \in DOMAIN rows : i > n => rows'[i] = rows[i]
    BY <2>1, <1>t, Extended
  <2>3. page' = page
    BY <1>1 DEF LoadBrief
  <2>6. ASSUME NEW i \in 1 .. n
        PROVE  /\ rows'[i].title = page[i].title
               /\ rows'[i].status = IF i \in DOMAIN rows THEN rows[i].status ELSE "draft"
    <3>1. rows'[i] = Upserted(rows, i)
      BY <2>2, <2>6
    <3> QED
      BY <3>1 DEF Upserted
  <2>4. ~cut' => /\ Len(rows') >= Len(page')
                 /\ \A i \in DOMAIN page' : rows'[i].title = page'[i].title
    <3>1. SUFFICES ASSUME ~cut' PROVE /\ Len(rows') >= Len(page)
                                      /\ \A i \in DOMAIN page : rows'[i].title = page[i].title
      BY <2>3
    <3>2. n = Len(page)
      BY <2>1, <3>1
    <3>3. Len(rows') >= Len(page)
      BY <2>1, <3>2, <1>t
    <3>4. DOMAIN page = 1 .. n
      BY <3>2, <1>t
    <3> QED
      BY <2>6, <3>3, <3>4
  <2>5. ASSUME NEW i \in DOMAIN rows' PROVE rows'[i].status = said'[i]
    <3>1. CASE i \in DOMAIN rows
      <4>1. rows'[i].status = rows[i].status
        <5>1. CASE i > n
          BY <3>1, <5>1, <2>2
        <5>2. CASE i <= n
          BY <3>1, <5>2, <2>6, <1>t
        <5> QED
          BY <5>1, <5>2, <3>1, <1>t
      <4> QED
        BY <4>1, <3>1, <2>1, <1>t
    <3>2. CASE i \notin DOMAIN rows
      <4>1. i \in 1 .. n /\ i > Len(rows)
        BY <3>2, <2>1, <1>t
      <4>2. rows'[i].status = "draft"
        BY <4>1, <3>2, <2>6
      <4> QED
        BY <4>1, <4>2, <2>1
    <3> QED
      BY <3>1, <3>2
  <2> QED
    BY <2>1, <2>4, <2>5
<1>2. ASSUME NEW i \in DOMAIN rows, NEW v,
             rows' = [rows EXCEPT ![i].status = v], said' = [said EXCEPT ![i] = v],
             UNCHANGED <<page, stamp, cached, cut>>
      PROVE  ShownInv'
  <2>1. DOMAIN rows = DOMAIN said /\ i \in DOMAIN said
    BY <1>2, <1>t
  <2>2. /\ DOMAIN rows' = DOMAIN rows /\ DOMAIN said' = DOMAIN said
        /\ \A j \in DOMAIN rows \ {i} : rows'[j] = rows[j] /\ said'[j] = said[j]
        /\ rows[i] \in Shown /\ rows'[i] = [rows[i] EXCEPT !.status = v] /\ said'[i] = v
    BY <1>2, <2>1, <1>t
  <2>3. rows'[i].title = rows[i].title /\ rows'[i].status = v
    BY <2>2 DEF Shown
  <2>4. Len(rows') = Len(rows) /\ Len(said') = Len(said)
    BY <1>2, <2>1, <1>t
  <2>5. \A j \in DOMAIN rows' : rows'[j].status = said'[j]
    BY <2>2, <2>3
  <2>6. \A j \in DOMAIN rows : rows'[j].title = rows[j].title
    BY <2>2, <2>3
  <2>7. \A j \in DOMAIN page : Len(rows) >= Len(page) => j \in DOMAIN rows
    BY <1>t
  <2> QED
    BY <1>2, <2>4, <2>5, <2>6, <2>7
<1>3. ASSUME stamp' > stamp, UNCHANGED dashboard PROVE ShownInv'
  <2>1. cached' # stamp'
    BY <1>3, <1>t DEF dashboard, DeskTypeOK
  <2> QED
    BY <1>3, <2>1 DEF dashboard
<1>4. CASE UNCHANGED <<page, stamp, dashboard>>
  BY <1>4 DEF dashboard
<1>5. ASSUME NEW i \in DOMAIN rows, MarkPosted(i) PROVE ShownInv'
  BY <1>5, <1>2 DEF MarkPosted
<1>6. ASSUME NEW i \in DOMAIN rows, NEW v, Verdict(i, v) PROVE ShownInv'
  BY <1>6, <1>2 DEF Verdict
<1>7. ASSUME NEW i, EditMark(i) PROVE ShownInv'
  BY <1>7, <1>3, <1>t DEF EditMark, Write
<1>8. CASE SkillWrites
  BY <1>8, <1>3, <1>t DEF SkillWrites, Write
<1>9. CASE UpdateDraftFile
  BY <1>9, <1>3, <1>t DEF UpdateDraftFile, Write
<1>10. CASE Agent
  BY <1>10, <1>8, <1>4 DEF Agent, AgentStarts, AppendLog, SkillEnds
<1>11. CASE Dashboard
  BY <1>11, <1>1, <1>5, <1>6, <1>7 DEF Dashboard
<1>12. CASE Publisher
  BY <1>12, <1>9, <1>4
     DEF Publisher, ParseDraftFile, ReadDraftFile, PublisherDies, PostLinkedIn, PostXThread, PostInstagram,
         PostBlog, Post
<1>13. CASE UNCHANGED deskVars
  BY <1>13, <1>4 DEF deskVars, dashboard
<1> QED
  BY <1>10, <1>11, <1>12, <1>13 DEF DeskNext

DeskInv == DeskTypeOK /\ OnceInv /\ ShownInv

LEMMA DeskStep == DeskInv /\ [DeskNext]_deskVars => DeskInv'
<1> SUFFICES ASSUME DeskInv, [DeskNext]_deskVars PROVE DeskInv'
  OBVIOUS
<1> USE DEF DeskInv
<1>1. CASE UNCHANGED deskVars
  <2>1. DeskTypeOK'
    BY <1>1 DEF deskVars, DeskTypeOK
  <2>2. OnceInv'
    BY <1>1 DEF deskVars, OnceInv, Accounted, InHand, Marked, WasPosted, PublishedOnce, AllApart,
       HeldInv, TriedAll, Remaining
  <2> QED
    BY <2>1, <2>2, ShownKeeps
<1>2. DeskNext => DeskTypeOK'
  BY AgentType, DashboardType, PublisherType DEF DeskNext
<1>3. DeskNext => OnceInv'
  BY <1>2, AgentKeepsOnce, DashboardKeepsOnce, PublisherKeepsOnce DEF DeskNext
<1> QED
  BY <1>1, <1>2, <1>3, ShownKeeps

\* The invariant of the day's draft file, its table and its publisher.
THEOREM DeskCorrect == DeskSpec => []DeskInv
BY DeskStarts, DeskStep, PTL DEF DeskSpec, DeskInv

\* Nothing is published twice on a platform, unless the script died or the block was
\* withdrawn or rewritten before it was marked; and what is marked posted was tried where
\* it was to go, unless its title begins with another's (main, update_draft_file).
THEOREM PublishedAtMostOnce == DeskSpec => []PublishedOnce
<1>1. DeskInv => PublishedOnce
  BY DEF DeskInv, OnceInv
<1> QED
  BY <1>1, DeskCorrect, PTL

\* A complete parse shows the file, and no parse touches a verdict (_load_and_cache_brief).
THEOREM DashboardIsFaithful == DeskSpec => []DashboardShowsFile
<1>1. DeskInv => DashboardShowsFile
  BY DEF DeskInv, ShownInv
<1> QED
  BY <1>1, DeskCorrect, PTL

-----------------------------------------------------------------------------
(* TrainingPipeline: the video that a run calls finished.                  *)

\* produce.py: what it has drawn, said and joined is of this edition, as far as
\* it has come, and what it heard itself say is what the slides' blocks say.
Texts == {n \in Numbers : texts[n] = "text"}
ProduceInv == maker = "produce" =>
  /\ \A n \in 1 .. slides : (doing = "draw" => n < place) => drawings[n] = edition
  /\ heard = {n \in Texts : (doing = "speak" /\ n < place) \/ doing \in {"join", "check"}}
  /\ \A n \in heard : voices[n] = edition
  /\ doing \in {"draw", "speak"} => segments = <<>>
  /\ doing = "join" => Tells(segments, {n \in Narrated : n < place})
  /\ doing = "check" => IsTheModule(video)

\* pipeline.py, while nothing failed and nothing strange lies about: the same
\* of the pictures and voices there are, and there are no others.
UnspoiltInv == maker = "pipeline" /\ ~spoiled =>
  /\ Made(drawings) = {}
  /\ \A n \in Numbers : n > slides => pictures[n] = 0 /\ texts[n] = "none"
  /\ \A n \in 1 .. slides : (doing = "draw" => n < place) => pictures[n] = edition
  /\ Made(voices) \subseteq Texts
  /\ \A n \in Texts : doing # "draw" /\ (doing = "speak" => n < place) => voices[n] = edition
  /\ doing \in {"draw", "speak"} => segments = <<>>
  /\ doing = "join" => Tells(segments, {n \in Narrated : n < place})
  /\ doing = "check" => IsTheModule(video)

NoVerdictYet == maker # "none" => verdict = "none"
TrainingInv == TrainingTypeOK /\ ProduceInv /\ UnspoiltInv /\ NoVerdictYet /\ FinishedIsTheModule

SegmentRecords == [kind : {"picture", "drawing"}, slide : Numbers, shows : Editions,
                   block : Numbers, says : Editions]

LEMMA NumbersAre ==
  /\ MaxSlides \in Nat \ {0} /\ MaxEditions \in Nat \ {0} /\ MaxFailures \in Nat
  /\ Numbers = 1 .. MaxSlides /\ Editions = 0 .. MaxEditions /\ Segments = Seq(SegmentRecords)
BY TrainingAssumption DEF Numbers, Editions, Segments, SegmentRecords

\* A segment more of the next slide that has one.
LEMMA TellsNext ==
  ASSUME NEW q \in Seq(SegmentRecords), NEW S, NEW n \in Numbers, NEW s \in SegmentRecords,
         Tells(q, S), \A m \in S : m < n,
         s.slide = n, s.block = n, s.shows = edition, s.says = edition
  PROVE  Tells(Append(q, s), S \cup {n})
<1> DEFINE r == Append(q, s)
<1>1. /\ Len(r) = Len(q) + 1 /\ Len(q) \in Nat /\ DOMAIN q = 1 .. Len(q)
      /\ DOMAIN r = 1 .. Len(q) + 1 /\ r[Len(q) + 1] = s
      /\ \A i \in DOMAIN q : r[i] = q[i]
  OBVIOUS
<1>2. {r[i].slide : i \in DOMAIN r} = {q[i].slide : i \in DOMAIN q} \cup {n}
  <2>1. ASSUME NEW x \in {r[i].slide : i \in DOMAIN r}
        PROVE x \in {q[i].slide : i \in DOMAIN q} \cup {n}
    BY <1>1
  <2>2. ASSUME NEW x \in {q[i].slide : i \in DOMAIN q} PROVE x \in {r[i].slide : i \in DOMAIN r}
    BY <1>1
  <2>3. n \in {r[i].slide : i \in DOMAIN r}
    BY <1>1
  <2> QED
    BY <2>1, <2>2, <2>3
<1>3. \A i \in DOMAIN q : q[i].slide \in S
  BY DEF Tells
<1>4. \A i, j \in DOMAIN r : i < j => r[i].slide < r[j].slide
  <2> SUFFICES ASSUME NEW i \in DOMAIN r, NEW j \in DOMAIN r, i < j PROVE r[i].slide < r[j].slide
    OBVIOUS
  <2>1. i \in DOMAIN q
    BY <1>1
  <2>2. CASE j \in DOMAIN q
    BY <1>1, <2>1, <2>2 DEF Tells
  <2>3. CASE j = Len(q) + 1
    BY <1>1, <1>3, <2>1, <2>3
  <2> QED
    BY <1>1, <2>2, <2>3
<1>5. \A i \in DOMAIN r : /\ r[i].block = r[i].slide
                          /\ r[i].shows = edition /\ r[i].says = edition
  <2> SUFFICES ASSUME NEW i \in DOMAIN r PROVE /\ r[i].block = r[i].slide
                          /\ r[i].shows = edition /\ r[i].says = edition
    OBVIOUS
  <2>2. CASE i \in DOMAIN q
    BY <1>1, <2>2 DEF Tells
  <2>3. CASE i = Len(q) + 1
    BY <1>1, <2>3
  <2> QED
    BY <1>1, <2>2, <2>3
<1> QED
  BY <1>2, <1>4, <1>5 DEF Tells

LEMMA TellsNothing == Tells(<<>>, {})
BY DEF Tells

\* The segments and slides they are about are as before, and the edition too.
LEMMA TellsSame ==
  ASSUME NEW q, NEW S, Tells(q, S), edition' = edition
  PROVE  Tells(q, S)'
BY DEF Tells

LEMMA TrainingStarts == TrainingInit => TrainingInv
<1> SUFFICES ASSUME TrainingInit PROVE TrainingInv
  OBVIOUS
<1>1. TrainingTypeOK
  <2>1. edition \in 1 .. MaxEditions /\ 0 \in Editions /\ <<>> \in Segments
    BY NumbersAre DEF TrainingInit
  <2>2. {pictures, drawings, voices} \subseteq [Numbers -> Editions]
    BY <2>1 DEF TrainingInit
  <2>3. edition \in 1 .. MaxEditions /\ place \in 1 .. MaxSlides + 1 /\ failures \in 0 .. MaxFailures
    BY NumbersAre DEF TrainingInit
  <2> QED
    BY <2>1, <2>2, <2>3 DEF TrainingInit, TrainingTypeOK
<1> QED
  BY <1>1 DEF TrainingInit, TrainingInv, ProduceInv, UnspoiltInv, NoVerdictYet, FinishedIsTheModule

LEMMA AuthorKeeps == ASSUME TrainingInv, Author PROVE TrainingInv'
<1>1. CASE Edit
  <2>1. TrainingTypeOK'
    <3>1. edition' \in 1 .. MaxEditions
      BY <1>1, NumbersAre DEF TrainingInv, TrainingTypeOK, Edit
    <3> QED
      BY <1>1, <3>1 DEF TrainingInv, TrainingTypeOK, Edit, media
  <2> QED
    BY <1>1, <2>1 DEF TrainingInv, Edit, ProduceInv, UnspoiltInv, NoVerdictYet, FinishedIsTheModule
<1>2. ASSUME NEW p \in {"pipeline", "produce"}, Begin(p) PROVE TrainingInv'
  <2>0. /\ maker' = p /\ doing' = "draw" /\ place' = 1 /\ heard' = {} /\ segments' = <<>>
        /\ verdict' = "none" /\ spoiled' = (p = "pipeline" /\ Leftovers)
        /\ UNCHANGED <<source, media, video, failures>>
    BY <1>2 DEF Begin
  <2>1. TrainingTypeOK'
    <3>1. <<>> \in Segments /\ 1 \in 1 .. MaxSlides + 1
      BY NumbersAre
    <3> QED
      BY <2>0, <3>1 DEF TrainingInv, TrainingTypeOK, source, media
  <2>2. ProduceInv'
    <3>1. (1 .. slides)' = 1 .. slides /\ \A n \in 1 .. slides : ~(n < 1)
      BY <2>0 DEF source, TrainingInv, TrainingTypeOK, Numbers
    <3> QED
      BY <2>0, <3>1 DEF ProduceInv
  <2>3. UnspoiltInv'
    <3> SUFFICES ASSUME p = "pipeline", ~Leftovers PROVE UnspoiltInv'
      BY <2>0 DEF UnspoiltInv
    <3>1. /\ Made(drawings) = {} /\ \A n \in Made(pictures) : ~(n > slides)
          /\ \A n \in Made(voices) : texts[n] = "text" /\ ~(n > slides)
          /\ \A n \in Numbers : texts[n] = "none" \/ ~(n > slides)
      BY DEF Leftovers
    <3>2. (1 .. slides)' = 1 .. slides /\ \A n \in 1 .. slides : ~(n < 1)
      BY <2>0 DEF source, TrainingInv, TrainingTypeOK, Numbers
    <3>3. Made(drawings)' = Made(drawings) /\ Made(voices)' = Made(voices) /\ Texts' = Texts
      BY <2>0 DEF source, media, Made, Texts
    <3>4. Made(voices) \subseteq Texts
      BY <3>1 DEF Made, Texts
    <3>5. (\A n \in Numbers : n > slides => pictures[n] = 0 /\ texts[n] = "none")'
      BY <2>0, <3>1 DEF source, media, Made
    <3> QED
      BY <2>0, <3>1, <3>2, <3>3, <3>4, <3>5 DEF UnspoiltInv
  <2> QED
    BY <2>0, <2>1, <2>2, <2>3 DEF TrainingInv, NoVerdictYet, FinishedIsTheModule
<1> QED
  BY <1>1, <1>2 DEF Author

\* The types that arithmetic needs.
LEMMA TrainingTypes ==
  ASSUME TrainingTypeOK
  PROVE  /\ Numbers = 1 .. MaxSlides /\ MaxSlides \in Nat \ {0}
         /\ edition \in 1 .. MaxEditions /\ edition \in Editions /\ edition # 0
         /\ slides \in 1 .. MaxSlides /\ 1 .. slides \subseteq Numbers
         /\ place \in 1 .. MaxSlides + 1 /\ Narrated \subseteq Texts
         /\ Narrated = {n \in Texts : n <= slides} /\ Texts \subseteq Numbers
         /\ Segments = Seq(SegmentRecords) /\ segments \in Seq(SegmentRecords)
         /\ pictures \in [Numbers -> Editions] /\ drawings \in [Numbers -> Editions]
         /\ voices \in [Numbers -> Editions]
<1>1. /\ Numbers = 1 .. MaxSlides /\ MaxSlides \in Nat \ {0} /\ Segments = Seq(SegmentRecords)
      /\ edition \in 1 .. MaxEditions /\ slides \in Numbers /\ Editions = 0 .. MaxEditions
      /\ MaxEditions \in Nat /\ segments \in Segments /\ place \in 1 .. MaxSlides + 1
  BY NumbersAre DEF TrainingTypeOK
<1>2. edition \in Editions /\ edition # 0 /\ 1 .. slides \subseteq Numbers
  BY <1>1
<1>3. Narrated = {n \in Texts : n <= slides}
  BY <1>1, <1>2 DEF Narrated, Texts
<1> QED
  BY <1>1, <1>2, <1>3 DEF TrainingTypeOK, Texts

LEMMA FailType == ASSUME TrainingTypeOK, Fail PROVE failures' \in 0 .. MaxFailures
BY NumbersAre DEF TrainingTypeOK, Fail

\* A run that gives up, or is stopped, has neither finished nor goes on.
LEMMA GivenUp ==
  ASSUME TrainingInv, TrainingTypeOK', maker' = "none", verdict' = "aborted"
  PROVE  TrainingInv'
BY DEF TrainingInv, ProduceInv, UnspoiltInv, NoVerdictYet, FinishedIsTheModule

\* While a run goes on it has no verdict.
LEMMA GoesOn ==
  ASSUME TrainingInv, maker # "none", TrainingTypeOK', ProduceInv', UnspoiltInv', verdict' = verdict
  PROVE  TrainingInv'
BY DEF TrainingInv, NoVerdictYet, FinishedIsTheModule

LEMMA DrawPictureKeeps == ASSUME TrainingInv, DrawPicture PROVE TrainingInv'
<1>t. TrainingTypeOK
  BY DEF TrainingInv
<1>1. /\ maker = "pipeline" /\ doing = "draw" /\ place <= slides
      /\ place' = place + 1 /\ UNCHANGED <<maker, doing, verdict>>
      /\ UNCHANGED <<edition, slides, texts, drawings, voices, video, heard, segments>>
  BY DEF DrawPicture, At, Advance, source
<1>2. \/ /\ pictures' = [pictures EXCEPT ![place] = edition]
         /\ UNCHANGED <<spoiled, failures>>
      \/ Fail /\ spoiled' = TRUE /\ UNCHANGED pictures
  BY DEF DrawPicture, Picture
<1>3. pictures' \in [Numbers -> Editions] /\ failures' \in 0 .. MaxFailures /\ spoiled' \in BOOLEAN
  BY <1>t, <1>2, FailType, TrainingTypes DEF TrainingTypeOK
<1>4. place' \in 1 .. MaxSlides + 1
  BY <1>t, <1>1, TrainingTypes
<1>5. TrainingTypeOK'
  BY <1>t, <1>1, <1>3, <1>4 DEF TrainingTypeOK
<1>6. ProduceInv'
  BY <1>1 DEF ProduceInv
<1>7. UnspoiltInv'
  <2> SUFFICES ASSUME ~spoiled' PROVE UnspoiltInv'
    BY DEF UnspoiltInv
  <2>1. pictures' = [pictures EXCEPT ![place] = edition] /\ ~spoiled
    BY <1>2
  <2>2. UnspoiltInv
    BY DEF TrainingInv
  <2>3. /\ Made(drawings)' = Made(drawings) /\ Made(voices)' = Made(voices) /\ Texts' = Texts
        /\ (1 .. slides)' = 1 .. slides
    BY <1>1 DEF Made, Texts
  <2>4. \A n \in Numbers : n # place => pictures'[n] = pictures[n]
    BY <1>t, <2>1, TrainingTypes
  <2>5. place \in 1 .. slides /\ pictures'[place] = edition
    BY <1>t, <1>1, <2>1, TrainingTypes
  <2>6. \A n \in 1 .. slides : n < place' => n < place \/ n = place
    BY <1>t, <1>1, TrainingTypes
  <2>7. \A n \in 1 .. slides : n < place' => pictures'[n] = edition
    BY <1>t, <1>1, <2>1, <2>2, <2>4, <2>5, <2>6, TrainingTypes DEF UnspoiltInv
  <2>8. \A n \in Numbers : n > slides => pictures'[n] = 0 /\ texts'[n] = "none"
    BY <1>t, <1>1, <2>1, <2>2, <2>4, <2>5, TrainingTypes DEF UnspoiltInv
  <2> QED
    BY <1>1, <2>1, <2>2, <2>3, <2>7, <2>8 DEF UnspoiltInv
<1> QED
  BY <1>1, <1>5, <1>6, <1>7, GoesOn

LEMMA DrawSlideKeeps == ASSUME TrainingInv, DrawSlide PROVE TrainingInv'
<1>t. TrainingTypeOK
  BY DEF TrainingInv
<1>1. /\ maker = "produce" /\ doing = "draw" /\ place <= slides
      /\ UNCHANGED <<edition, slides, texts, pictures, voices, video, heard, segments, spoiled>>
  BY DEF DrawSlide, At, source
<1>2. CASE Fail /\ GiveUp /\ UNCHANGED drawings
  <2>1. TrainingTypeOK'
    BY <1>t, <1>1, <1>2, FailType DEF TrainingTypeOK, GiveUp
  <2> QED
    BY <1>2, <2>1, GivenUp DEF GiveUp
<1>3. CASE drawings' = [drawings EXCEPT ![place] = Drawing] /\ Advance /\ UNCHANGED failures
  <2>1. /\ drawings' = [drawings EXCEPT ![place] = edition] /\ place' = place + 1
        /\ UNCHANGED <<maker, doing, verdict>>
    BY <1>3 DEF Drawing, Advance
  <2>2. drawings' \in [Numbers -> Editions] /\ place' \in 1 .. MaxSlides + 1
    BY <1>t, <1>1, <2>1, TrainingTypes
  <2>3. TrainingTypeOK'
    BY <1>t, <1>1, <1>3, <2>1, <2>2 DEF TrainingTypeOK
  <2>4. ProduceInv'
    <3>1. Texts' = Texts /\ (1 .. slides)' = 1 .. slides
      BY <1>1 DEF Texts
    <3>2. \A n \in Numbers : n # place => drawings'[n] = drawings[n]
      BY <1>t, <2>1, TrainingTypes
    <3>3. place \in 1 .. slides /\ drawings'[place] = edition
      BY <1>t, <1>1, <2>1, TrainingTypes
    <3>4. \A n \in 1 .. slides : n < place' => n < place \/ n = place
      BY <1>t, <1>1, <2>1, TrainingTypes
    <3>5. ProduceInv
      BY DEF TrainingInv
    <3>6. \A n \in 1 .. slides : n < place' => drawings'[n] = edition
      BY <1>t, <1>1, <3>2, <3>3, <3>4, <3>5, TrainingTypes DEF ProduceInv
    <3>7. heard = {} /\ heard' = {n \in Texts' : (doing' = "speak" /\ n < place') \/ doing' \in {"join", "check"}}
      BY <1>1, <2>1, <3>1, <3>5 DEF ProduceInv
    <3> QED
      BY <1>1, <2>1, <3>1, <3>5, <3>6, <3>7 DEF ProduceInv
  <2>5. UnspoiltInv'
    BY <1>1, <2>1 DEF UnspoiltInv
  <2> QED
    BY <1>1, <2>1, <2>3, <2>4, <2>5, GoesOn
<1> QED
  BY <1>2, <1>3 DEF DrawSlide

\* The block that comes next, and what has been said before it.
LEMMA NextBlock ==
  ASSUME TrainingTypeOK, Narrations # {}
  PROVE  /\ Min(Narrations) \in Numbers /\ Min(Narrations) >= place
         /\ Min(Narrations) + 1 \in 1 .. MaxSlides + 1 /\ texts[Min(Narrations)] # "none"
         /\ \A n \in Texts : n < Min(Narrations) => n < place
         /\ \A n \in Numbers : n < Min(Narrations) + 1 => n < Min(Narrations) \/ n = Min(Narrations)
<1>1. Narrations \subseteq Nat /\ Narrations \subseteq Numbers
  BY NumbersAre DEF Narrations
<1>2. Min(Narrations) \in Narrations /\ \A y \in Narrations : Min(Narrations) <= y
  BY <1>1, MinIsLeast
<1>3. Min(Narrations) \in Numbers /\ Min(Narrations) >= place /\ texts[Min(Narrations)] # "none"
  BY <1>2 DEF Narrations
<1>4. ASSUME NEW n \in Texts, n < Min(Narrations) PROVE n < place
  <2>1. n \in Numbers /\ texts[n] # "none"
    BY DEF Texts
  <2>2. n \notin Narrations
    BY <1>2, <1>3, <1>4, <2>1, NumbersAre
  <2> QED
    BY <2>1, <2>2, TrainingTypes DEF Narrations
<1> QED
  BY <1>3, <1>4, NumbersAre

\* Block n read out in the present edition.
LEMMA Spoken ==
  ASSUME TrainingTypeOK, NEW n \in Numbers, voices' = Voices(n)
  PROVE  /\ voices' \in [Numbers -> Editions] /\ voices'[n] = edition
         /\ \A k \in Numbers : k # n => voices'[k] = voices[k]
BY TrainingTypes DEF Voices

LEMMA SpeakBlockKeeps == ASSUME TrainingInv, SpeakBlock PROVE TrainingInv'
<1>t. TrainingTypeOK
  BY DEF TrainingInv
<1> DEFINE n == Min(Narrations)
<1>1. /\ maker = "pipeline" /\ doing = "speak" /\ Narrations # {} /\ place' = n + 1
      /\ UNCHANGED <<edition, slides, texts, pictures, drawings, video, maker, doing, heard,
                     segments, verdict>>
  BY DEF SpeakBlock, At, source
<1>2. \/ texts[n] = "text" /\ voices' = Voices(n) /\ UNCHANGED <<spoiled, failures>>
      \/ /\ texts[n] = "empty" /\ voices' \in {voices, Voices(n)}
         /\ spoiled' = TRUE /\ UNCHANGED failures
      \/ texts[n] = "text" /\ Fail /\ spoiled' = TRUE /\ UNCHANGED voices
  BY DEF SpeakBlock
<1>3. PICK k : k = n
  OBVIOUS
<1>4. /\ k \in Numbers /\ place' = k + 1 /\ k + 1 \in 1 .. MaxSlides + 1
      /\ \A i \in Texts : i < k => i < place
      /\ \A i \in Numbers : i < k + 1 => i < k \/ i = k
  BY <1>t, <1>1, <1>3, NextBlock
<1>5. TrainingTypeOK'
  <2>1. voices' \in [Numbers -> Editions]
    BY <1>t, <1>2, <1>3, <1>4, Spoken, TrainingTypes
  <2>2. failures' \in 0 .. MaxFailures /\ spoiled' \in BOOLEAN
    BY <1>t, <1>2, FailType DEF TrainingTypeOK
  <2> QED
    BY <1>t, <1>1, <1>4, <2>1, <2>2 DEF TrainingTypeOK
<1>6. ProduceInv'
  BY <1>1 DEF ProduceInv
<1>7. UnspoiltInv'
  <2> SUFFICES ASSUME ~spoiled' PROVE UnspoiltInv'
    BY DEF UnspoiltInv
  <2>1. texts[k] = "text" /\ voices' = Voices(k) /\ ~spoiled
    BY <1>2, <1>3
  <2>2. UnspoiltInv
    BY DEF TrainingInv
  <2>3. Made(drawings)' = Made(drawings) /\ Texts' = Texts /\ (1 .. slides)' = 1 .. slides
    BY <1>1 DEF Made, Texts
  <2>4. /\ voices'[k] = edition /\ k \in Texts
        /\ \A i \in Numbers : i # k => voices'[i] = voices[i]
    BY <1>t, <1>4, <2>1, Spoken DEF Texts
  <2>5. Made(voices)' \subseteq Texts
    BY <1>1, <2>1, <2>2, <2>4 DEF UnspoiltInv, Made
  <2>6. \A i \in Texts : i < place' => voices'[i] = edition
    BY <1>t, <1>1, <1>4, <2>1, <2>2, <2>4, TrainingTypes DEF UnspoiltInv
  <2> QED
    BY <1>1, <2>1, <2>2, <2>3, <2>5, <2>6 DEF UnspoiltInv
<1> QED
  BY <1>1, <1>5, <1>6, <1>7, GoesOn

LEMMA SpeakSlideKeeps == ASSUME TrainingInv, SpeakSlide PROVE TrainingInv'
<1>t. TrainingTypeOK
  BY DEF TrainingInv
<1>1. /\ maker = "produce" /\ doing = "speak" /\ Narrations # {}
      /\ UNCHANGED <<edition, slides, texts, pictures, drawings, video, segments, spoiled>>
  BY DEF SpeakSlide, At, source
<1>3. PICK k : k = Min(Narrations)
  OBVIOUS
<1>2. \/ /\ place' = k + 1 /\ UNCHANGED <<maker, doing, verdict, failures>>
         /\ \/ texts[k] = "text" /\ voices' = Voices(k) /\ heard' = heard \cup {k}
            \/ texts[k] = "empty" /\ UNCHANGED <<voices, heard>>
      \/ Fail /\ GiveUp /\ UNCHANGED <<voices, heard>>
  BY <1>3 DEF SpeakSlide
<1>4. /\ k \in Numbers /\ k + 1 \in 1 .. MaxSlides + 1 /\ k >= place
      /\ \A i \in Texts : i < k => i < place
      /\ \A i \in Numbers : i < k + 1 => i < k \/ i = k
  BY <1>t, <1>1, <1>3, NextBlock
<1>5. CASE Fail /\ GiveUp /\ UNCHANGED <<voices, heard>>
  <2>1. TrainingTypeOK'
    BY <1>t, <1>1, <1>5, FailType DEF TrainingTypeOK, GiveUp
  <2> QED
    BY <1>5, <2>1, GivenUp DEF GiveUp
<1>6. CASE /\ place' = k + 1 /\ UNCHANGED <<maker, doing, verdict, failures>>
           /\ \/ texts[k] = "text" /\ voices' = Voices(k) /\ heard' = heard \cup {k}
              \/ texts[k] = "empty" /\ UNCHANGED <<voices, heard>>
  <2>1. voices' \in [Numbers -> Editions] /\ heard' \subseteq Numbers
    BY <1>t, <1>4, <1>6, Spoken, TrainingTypes DEF TrainingTypeOK
  <2>2. TrainingTypeOK'
    BY <1>t, <1>1, <1>4, <1>6, <2>1 DEF TrainingTypeOK
  <2>3. UnspoiltInv'
    BY <1>1, <1>6 DEF UnspoiltInv
  <2>4. ProduceInv'
    <3>1. Texts' = Texts /\ (1 .. slides)' = 1 .. slides
      BY <1>1 DEF Texts
    <3>2. ProduceInv /\ heard = {i \in Texts : i < place}
      BY <1>1 DEF TrainingInv, ProduceInv
    <3>3. heard' = {i \in Texts : i < place'}
      <4>1. \A i \in Texts : i < place' <=> i < place \/ i = k
        BY <1>t, <1>4, <1>6, TrainingTypes
      <4>2. CASE texts[k] = "text" /\ heard' = heard \cup {k}
        BY <1>4, <3>2, <4>1, <4>2 DEF Texts
      <4>3. CASE texts[k] = "empty" /\ heard' = heard
        BY <3>2, <4>1, <4>3 DEF Texts
      <4> QED
        BY <1>6, <4>2, <4>3
    <3>4. \A i \in heard' : voices'[i] = edition
      <4>1. CASE texts[k] = "text" /\ voices' = Voices(k) /\ heard' = heard \cup {k}
        <5>1. voices'[k] = edition /\ \A i \in Numbers : i # k => voices'[i] = voices[i]
          BY <1>t, <1>4, <4>1, Spoken
        <5> QED
          BY <1>1, <3>2, <4>1, <5>1 DEF ProduceInv, Texts
      <4>2. CASE voices' = voices /\ heard' = heard
        BY <1>1, <3>2, <4>2 DEF ProduceInv
      <4> QED
        BY <1>6, <4>1, <4>2
    <3> QED
      BY <1>1, <1>6, <3>1, <3>2, <3>3, <3>4 DEF ProduceInv
  <2> QED
    BY <1>1, <1>6, <2>2, <2>3, <2>4, GoesOn
<1> QED
  BY <1>2, <1>5, <1>6

\* With no picture but those of slides 1 to slides, the n-th is the n-th slide's.
LEMMA PictureOfSlide ==
  ASSUME TrainingTypeOK, Made(drawings) = {}, Made(pictures) = 1 .. slides,
         NEW p \in AllPictures, NEW n \in 1 .. slides, IsPictureFor(p, n)
  PROVE  p.slide = n /\ p.shows = pictures[n] /\ p.kind = "picture"
<1>1. PICK m \in 1 .. slides : p = [kind |-> "picture", slide |-> m, shows |-> pictures[m]]
  BY DEF AllPictures
<1>2. \A k \in 1 .. MaxSlides : UpTo(k, drawings) = 0
  BY FS_EmptySet DEF UpTo
<1>3. ASSUME NEW k \in 1 .. MaxSlides, k >= slides \/ k \in 1 .. slides
      PROVE  UpTo(k, pictures) = IF k >= slides THEN slides ELSE k
  <2>1. CASE k >= slides
    <3>1. {i \in Made(pictures) : i <= k} = 1 .. slides
      BY <2>1, TrainingTypes
    <3>2. 1 \in Int /\ slides \in Int /\ ~(1 > slides) /\ slides - 1 + 1 = slides
      BY TrainingTypes
    <3> QED
      BY <2>1, <3>1, <3>2, FS_Interval DEF UpTo
  <2>2. CASE ~(k >= slides)
    <3>1. {i \in Made(pictures) : i <= k} = 1 .. k
      BY <2>2, TrainingTypes
    <3>2. 1 \in Int /\ k \in Int /\ ~(1 > k) /\ k - 1 + 1 = k
      BY TrainingTypes
    <3> QED
      BY <2>2, <3>1, <3>2, FS_Interval DEF UpTo
  <2> QED
    BY <2>1, <2>2
<1>4. MaxSlides \in 1 .. MaxSlides /\ MaxSlides >= slides /\ m \in 1 .. MaxSlides /\ slides \in Nat
  BY TrainingTypes
<1>5. UpTo(MaxSlides, drawings) = 0 /\ UpTo(MaxSlides, pictures) = slides /\ UpTo(m, pictures) = m
  BY <1>2, <1>3, <1>4
<1>6. LastRank = slides /\ Rank(p) = m
  BY <1>1, <1>4, <1>5 DEF LastRank, Rank
<1> QED
  BY <1>1, <1>6 DEF IsPictureFor

LEMMA JoinSegmentKeeps == ASSUME TrainingInv, JoinSegment PROVE TrainingInv'
<1>t. TrainingTypeOK
  BY DEF TrainingInv
<1>1. /\ maker = "pipeline" /\ doing = "join" /\ Voiced # {}
      /\ UNCHANGED <<edition, slides, texts, pictures, drawings, voices, video, maker, doing, heard,
                     verdict>>
  BY DEF JoinSegment, At, source, media
<1>2. PICK n : n = Min(Voiced)
  OBVIOUS
<1>3. PICK p \in AllPictures :
        /\ IsPictureFor(p, n) /\ place' = n + 1
        /\ \/ /\ segments' = Append(segments, Segment(p.kind, p.slide, p.shows, n, voices[n]))
              /\ UNCHANGED <<spoiled, failures>>
           \/ Fail /\ spoiled' = TRUE /\ UNCHANGED segments
  BY <1>2 DEF JoinSegment
<1>4. /\ n \in Numbers /\ n >= place /\ voices[n] # 0 /\ n + 1 \in 1 .. MaxSlides + 1
      /\ \A k \in Made(voices) : k < n => k < place
  <2>1. Voiced \subseteq Nat /\ Voiced \subseteq Numbers
    BY NumbersAre DEF Voiced, Made
  <2>2. n \in Voiced /\ \A y \in Voiced : n <= y
    BY <1>1, <1>2, <2>1, MinIsLeast
  <2>3. n \in Numbers /\ n >= place /\ voices[n] # 0
    BY <2>2 DEF Voiced, Made
  <2>4. ASSUME NEW k \in Made(voices), k < n PROVE k < place
    <3>1. k \notin Voiced /\ k \in Numbers
      BY <2>2, <2>3, <2>4, NumbersAre DEF Made
    <3> QED
      BY <1>t, <3>1, TrainingTypes DEF Voiced
  <2> QED
    BY <2>3, <2>4, NumbersAre
<1>5. p.kind \in {"picture", "drawing"} /\ p.slide \in Numbers /\ p.shows \in Editions
  BY <1>t, TrainingTypes DEF AllPictures, Made
<1> DEFINE s == Segment(p.kind, p.slide, p.shows, n, voices[n])
<1>6. s \in SegmentRecords
  BY <1>t, <1>4, <1>5, TrainingTypes DEF Segment, SegmentRecords
<1>7. TrainingTypeOK'
  <2>1. segments' \in Segments
    <3>1. segments \in Seq(SegmentRecords) /\ Segments = Seq(SegmentRecords)
      BY <1>t, TrainingTypes
    <3>2. segments' = segments \/ segments' = Append(segments, s)
      BY <1>3
    <3>3. Append(segments, s) \in Seq(SegmentRecords)
      BY <1>6, <3>1
    <3> QED
      BY <3>1, <3>2, <3>3
  <2>2. failures' \in 0 .. MaxFailures /\ spoiled' \in BOOLEAN
    BY <1>t, <1>3, FailType DEF TrainingTypeOK
  <2> QED
    BY <1>t, <1>1, <1>3, <1>4, <2>1, <2>2 DEF TrainingTypeOK
<1>8. ProduceInv'
  BY <1>1 DEF ProduceInv
<1>9. UnspoiltInv'
  <2> SUFFICES ASSUME ~spoiled' PROVE UnspoiltInv'
    BY DEF UnspoiltInv
  <2>1. segments' = Append(segments, s) /\ ~spoiled
    BY <1>3
  <2>2. /\ Made(drawings) = {} /\ Made(voices) \subseteq Texts
        /\ \A k \in Numbers : k > slides => pictures[k] = 0 /\ texts[k] = "none"
        /\ \A k \in 1 .. slides : pictures[k] = edition
        /\ \A k \in Texts : voices[k] = edition
        /\ Tells(segments, {k \in Narrated : k < place})
    BY <1>1, <2>1 DEF TrainingInv, UnspoiltInv
  <2>3. Made(pictures) = 1 .. slides
    BY <1>t, <2>2, TrainingTypes DEF Made
  <2>4. n \in Texts /\ n \in 1 .. slides /\ n \in Narrated
    BY <1>t, <1>4, <2>2, TrainingTypes, SMTT(30) DEF Made, Texts
  <2>5. s.slide = n /\ s.shows = edition /\ s.block = n /\ s.says = edition
    BY <1>t, <1>3, <2>2, <2>3, <2>4, PictureOfSlide DEF Segment
  <2>6. {k \in Narrated : k < place} \cup {n} = {k \in Narrated : k < place'}
    <3>1. \A k \in Narrated : k \in Made(voices)
      BY <1>t, <2>2, TrainingTypes DEF Made
    <3>2. \A k \in Narrated : k < place' <=> k < place \/ k = n
      BY <1>t, <1>3, <1>4, <3>1, TrainingTypes
    <3> QED
      BY <2>4, <3>2
  <2>7. \A k \in {k \in Narrated : k < place} : k < n
    BY <1>t, <1>4, TrainingTypes
  <2>8. Tells(segments', {k \in Narrated : k < place'})
    <3>1. segments \in Seq(SegmentRecords)
      BY <1>t, TrainingTypes
    <3>2. Tells(Append(segments, s), {k \in Narrated : k < place} \cup {n})
      <4> HIDE DEF s
      <4> QED
        BY <1>4, <1>6, <2>2, <2>5, <2>7, <3>1, TellsNext
    <3> QED
      BY <2>1, <2>6, <3>2
  <2>9. Tells(segments, {k \in Narrated : k < place})'
    BY <1>1, <2>8 DEF Tells, Narrated
  <2> QED
    BY <1>1, <2>2, <2>9 DEF UnspoiltInv, Made, Texts
<1> QED
  BY <1>1, <1>7, <1>8, <1>9, GoesOn

LEMMA JoinClipKeeps == ASSUME TrainingInv, JoinClip PROVE TrainingInv'
<1>t. TrainingTypeOK
  BY DEF TrainingInv
<1>1. /\ maker = "produce" /\ doing = "join" /\ Clips # {}
      /\ UNCHANGED <<edition, slides, texts, pictures, drawings, voices, video, heard, spoiled>>
  BY DEF JoinClip, At, source, media
<1>2. PICK n : n = Min(Clips)
  OBVIOUS
<1>3. \/ /\ segments' = Append(segments, Segment("drawing", n, drawings[n], n, voices[n]))
         /\ place' = n + 1 /\ UNCHANGED <<maker, doing, verdict, failures>>
      \/ Fail /\ GiveUp /\ UNCHANGED segments
  BY <1>2 DEF JoinClip
<1>i. /\ heard = Texts /\ \A k \in heard : voices[k] = edition
      /\ \A k \in 1 .. slides : drawings[k] = edition
      /\ Tells(segments, {k \in Narrated : k < place})
  BY <1>1 DEF TrainingInv, ProduceInv
<1>4. /\ n \in Narrated /\ n >= place /\ n + 1 \in 1 .. MaxSlides + 1 /\ n \in Numbers
      /\ \A k \in Narrated : k < n => k < place
  <2>1. Clips = {k \in Narrated : k >= place} /\ Narrated \subseteq Numbers
    BY <1>t, <1>i, TrainingTypes DEF Clips
  <2>2. Clips \subseteq Nat
    <3>1. Numbers \subseteq Nat
      BY NumbersAre
    <3> QED
      BY <2>1, <3>1
  <2>3. n \in Clips /\ \A y \in Clips : n <= y
    BY <1>1, <1>2, <2>2, MinIsLeast
  <2>4. n \in Narrated /\ n >= place /\ n \in Numbers
    BY <2>1, <2>3
  <2>5. ASSUME NEW k \in Narrated, k < n PROVE k < place
    <3>1. k \notin Clips /\ k \in Numbers
      BY <2>1, <2>3, <2>4, <2>5, NumbersAre
    <3> QED
      BY <1>t, <2>1, <3>1, TrainingTypes
  <2> QED
    BY <2>4, <2>5, NumbersAre
<1>5. CASE Fail /\ GiveUp /\ UNCHANGED segments
  <2>1. TrainingTypeOK'
    BY <1>t, <1>1, <1>5, FailType DEF TrainingTypeOK, GiveUp
  <2> QED
    BY <1>5, <2>1, GivenUp DEF GiveUp
<1>6. CASE /\ segments' = Append(segments, Segment("drawing", n, drawings[n], n, voices[n]))
           /\ place' = n + 1 /\ UNCHANGED <<maker, doing, verdict, failures>>
  <2> DEFINE s == Segment("drawing", n, drawings[n], n, voices[n])
  <2>1. s \in SegmentRecords
    BY <1>t, <1>4, TrainingTypes DEF Segment, SegmentRecords
  <2>2. segments' \in Segments
    BY <1>t, <1>6, <2>1, TrainingTypes
  <2>3. TrainingTypeOK'
    BY <1>t, <1>1, <1>4, <1>6, <2>2 DEF TrainingTypeOK
  <2>4. s.slide = n /\ s.shows = edition /\ s.block = n /\ s.says = edition
    <3>1. n \in heard /\ n \in 1 .. slides
      BY <1>t, <1>i, <1>4, TrainingTypes
    <3> QED
      BY <1>i, <3>1 DEF Segment
  <2>5. {k \in Narrated : k < place} \cup {n} = {k \in Narrated : k < place'}
    <3>1. \A k \in Narrated : k < place' <=> k < place \/ k = n
      BY <1>t, <1>6, <1>4, TrainingTypes
    <3> QED
      BY <1>4, <3>1
  <2>6. \A k \in {k \in Narrated : k < place} : k < n
    BY <1>t, <1>4, TrainingTypes
  <2>7. Tells(segments', {k \in Narrated : k < place'})
    BY <1>t, <1>i, <1>4, <1>6, <2>1, <2>4, <2>5, <2>6, TellsNext, TrainingTypes
  <2>8. Tells(segments, {k \in Narrated : k < place})'
    BY <1>1, <2>7 DEF Tells, Narrated
  <2>9. ProduceInv'
    BY <1>1, <1>6, <1>i, <2>8 DEF ProduceInv, Texts
  <2>10. UnspoiltInv'
    BY <1>1, <1>6 DEF UnspoiltInv
  <2> QED
    BY <1>1, <1>6, <2>3, <2>9, <2>10, GoesOn
<1> QED
  BY <1>3, <1>5, <1>6

LEMMA ConcatSegmentsKeeps == ASSUME TrainingInv, ConcatSegments PROVE TrainingInv'
<1>t. TrainingTypeOK
  BY DEF TrainingInv
<1>1. /\ maker = "pipeline" /\ doing = "join" /\ doing' = "check" /\ (Voiced = {} \/ AllPictures = {})
      /\ UNCHANGED <<edition, slides, texts, pictures, drawings, voices, maker, place, heard,
                     segments, verdict>>
  BY DEF ConcatSegments, At, source, media
<1>2. \/ segments # <<>> /\ video' = segments /\ UNCHANGED <<spoiled, failures>>
      \/ /\ failures' = failures \/ Fail
         /\ spoiled' = TRUE /\ UNCHANGED video
  BY DEF ConcatSegments
<1>3. TrainingTypeOK'
  <2>1. failures' \in 0 .. MaxFailures /\ spoiled' \in BOOLEAN /\ video' \in Segments
    BY <1>t, <1>2, FailType DEF TrainingTypeOK
  <2> QED
    BY <1>t, <1>1, <2>1 DEF TrainingTypeOK
<1>4. ProduceInv'
  BY <1>1 DEF ProduceInv
<1>5. UnspoiltInv'
  <2> SUFFICES ASSUME ~spoiled' PROVE UnspoiltInv'
    BY DEF UnspoiltInv
  <2>1. video' = segments /\ ~spoiled
    BY <1>2
  <2>2. UnspoiltInv /\ Tells(segments, {k \in Narrated : k < place})
    BY <1>1, <2>1 DEF TrainingInv, UnspoiltInv
  <2>3. AllPictures # {}
    <3>1. 1 \in 1 .. slides /\ 1 \in Numbers
      BY <1>t, TrainingTypes
    <3>2. pictures[1] = edition /\ edition # 0
      BY <1>t, <1>1, <2>1, <2>2, <3>1, TrainingTypes DEF UnspoiltInv
    <3>3. 1 \in Made(pictures)
      BY <3>1, <3>2 DEF Made
    <3> QED
      BY <3>3 DEF AllPictures
  <2>4. \A k \in Narrated : k < place
    <3> SUFFICES ASSUME NEW k \in Narrated PROVE k < place
      OBVIOUS
    <3>1. k \in Texts /\ k \in Numbers
      BY <1>t, TrainingTypes
    <3>2. voices[k] = edition /\ edition # 0
      BY <1>t, <1>1, <2>1, <2>2, <3>1, TrainingTypes DEF UnspoiltInv
    <3>3. k \in Made(voices)
      BY <3>1, <3>2 DEF Made
    <3> QED
      BY <1>t, <1>1, <2>3, <3>1, <3>3, TrainingTypes DEF Voiced
  <2>5. {k \in Narrated : k < place} = Narrated
    BY <2>4
  <2>6. IsTheModule(video)'
    BY <1>1, <2>1, <2>2, <2>5 DEF IsTheModule, Tells, Narrated
  <2> QED
    BY <1>1, <2>1, <2>2, <2>6 DEF UnspoiltInv, Made, Texts
<1> QED
  BY <1>1, <1>3, <1>4, <1>5, GoesOn

LEMMA ConcatClipsKeeps == ASSUME TrainingInv, ConcatClips PROVE TrainingInv'
<1>t. TrainingTypeOK
  BY DEF TrainingInv
<1>1. /\ maker = "produce" /\ doing = "join" /\ Clips = {}
      /\ UNCHANGED <<edition, slides, texts, pictures, drawings, voices, heard, segments, spoiled>>
  BY DEF ConcatClips, At, source, media
<1>2. \/ /\ segments # <<>> /\ video' = segments /\ doing' = "check"
         /\ UNCHANGED <<maker, place, verdict, failures>>
      \/ (failures' = failures \/ Fail) /\ GiveUp /\ UNCHANGED video
  BY DEF ConcatClips
<1>3. CASE (failures' = failures \/ Fail) /\ GiveUp /\ UNCHANGED video
  <2>1. failures' \in 0 .. MaxFailures
    BY <1>t, <1>3, FailType DEF TrainingTypeOK
  <2>2. TrainingTypeOK'
    BY <1>t, <1>1, <1>3, <2>1 DEF TrainingTypeOK, GiveUp
  <2> QED
    BY <1>3, <2>2, GivenUp DEF GiveUp
<1>4. CASE /\ segments # <<>> /\ video' = segments /\ doing' = "check"
           /\ UNCHANGED <<maker, place, verdict, failures>>
  <2>1. TrainingTypeOK'
    BY <1>t, <1>1, <1>4 DEF TrainingTypeOK
  <2>2. UnspoiltInv'
    BY <1>1, <1>4 DEF UnspoiltInv
  <2>3. ProduceInv /\ heard = Texts /\ Tells(segments, {k \in Narrated : k < place})
    BY <1>1 DEF TrainingInv, ProduceInv
  <2>4. {k \in Narrated : k < place} = Narrated
    BY <1>t, <1>1, <2>3, TrainingTypes DEF Clips
  <2>5. IsTheModule(video)'
    BY <1>1, <1>4, <2>3, <2>4 DEF IsTheModule, Tells, Narrated
  <2>6. ProduceInv'
    BY <1>1, <1>4, <2>3, <2>5 DEF ProduceInv, Texts
  <2> QED
    BY <1>1, <1>4, <2>1, <2>2, <2>6, GoesOn
<1> QED
  BY <1>2, <1>3, <1>4

LEMMA NextStepKeeps == ASSUME TrainingInv, NextStep PROVE TrainingInv'
<1>t. TrainingTypeOK
  BY DEF TrainingInv
<1>1. /\ maker # "none" /\ place' = 1
      /\ UNCHANGED <<edition, slides, texts, pictures, drawings, voices, video, maker, heard,
                     segments, verdict, spoiled, failures>>
  BY DEF NextStep, source, media
<1>2. \/ doing = "draw" /\ place > slides /\ doing' = "speak"
      \/ doing = "speak" /\ Narrations = {} /\ doing' = "join"
  BY DEF NextStep
<1>3. TrainingTypeOK'
  BY <1>t, <1>1, <1>2, NumbersAre DEF TrainingTypeOK
<1>4. /\ Made(drawings)' = Made(drawings) /\ Made(voices)' = Made(voices) /\ Texts' = Texts
      /\ (1 .. slides)' = 1 .. slides
  BY <1>1 DEF Made, Texts
<1>5. (\A k \in Texts : ~(k < 1)) /\ Narrated \subseteq Texts
  BY <1>t, TrainingTypes
<1>6. CASE doing = "draw" /\ place > slides /\ doing' = "speak"
  <2>1. \A k \in 1 .. slides : k < place
    BY <1>t, <1>6, TrainingTypes
  <2>2. ProduceInv'
    BY <1>1, <1>4, <1>5, <1>6, <2>1 DEF TrainingInv, ProduceInv
  <2>3. UnspoiltInv'
    BY <1>1, <1>4, <1>5, <1>6, <2>1 DEF TrainingInv, UnspoiltInv
  <2> QED
    BY <1>1, <1>3, <2>2, <2>3, GoesOn
<1>7. CASE doing = "speak" /\ Narrations = {} /\ doing' = "join"
  <2>1. \A k \in Texts : k < place
    BY <1>t, <1>7, TrainingTypes DEF Narrations, Texts
  <2>2. Tells(segments, {k \in Narrated : k < place})' <=> Tells(segments, {})
    <3>1. {k \in Narrated : k < place}' = {}
      BY <1>1, <1>5 DEF Narrated
    <3> QED
      BY <1>1, <3>1 DEF Tells
  <2>3. ProduceInv'
    BY <1>1, <1>4, <1>7, <2>1, <2>2, TellsNothing DEF TrainingInv, ProduceInv
  <2>4. UnspoiltInv'
    BY <1>1, <1>4, <1>7, <2>1, <2>2, TellsNothing DEF TrainingInv, UnspoiltInv
  <2> QED
    BY <1>1, <1>3, <2>3, <2>4, GoesOn
<1> QED
  BY <1>2, <1>6, <1>7

LEMMA RunEnds == ASSUME TrainingInv, Validate \/ MakeDocuments \/ Stop PROVE TrainingInv'
<1>t. TrainingTypeOK
  BY DEF TrainingInv
<1>1. /\ maker' = "none"
      /\ UNCHANGED <<edition, slides, texts, pictures, drawings, voices, video, doing, place, heard,
                     segments, spoiled>>
  BY DEF Validate, MakeDocuments, Stop, GiveUp, source, media
<1>2. /\ verdict' \in {"none", "aborted", "ok", "partial", "complete"}
      /\ failures' \in 0 .. MaxFailures
  BY <1>t, FailType DEF Validate, MakeDocuments, Stop, GiveUp, TrainingTypeOK
<1>3. TrainingTypeOK'
  BY <1>t, <1>1, <1>2 DEF TrainingTypeOK
<1>4. IsTheModule(video)' = IsTheModule(video)
  BY <1>1 DEF IsTheModule, Tells, Narrated
<1>5. FinishedIsTheModule'
  <2>1. CASE Validate
    <3>1. verdict' \in {"ok", "partial"} /\ maker = "pipeline" /\ doing = "check"
      BY <2>1 DEF Validate, At
    <3> QED
      BY <1>1, <1>4, <3>1 DEF FinishedIsTheModule, TrainingInv, UnspoiltInv
  <2>2. CASE MakeDocuments
    <3>1. verdict' \in {"complete", "aborted"} /\ maker = "produce" /\ doing = "check"
      BY <2>2 DEF MakeDocuments, At
    <3> QED
      BY <1>1, <1>4, <3>1 DEF FinishedIsTheModule, TrainingInv, ProduceInv
  <2>3. CASE Stop
    BY <2>3 DEF Stop, GiveUp, FinishedIsTheModule
  <2> QED
    BY <2>1, <2>2, <2>3
<1> QED
  BY <1>1, <1>3, <1>5 DEF TrainingInv, ProduceInv, UnspoiltInv, NoVerdictYet

LEMMA TrainingStep == TrainingInv /\ [TrainingNext]_trainingVars => TrainingInv'
<1> SUFFICES ASSUME TrainingInv, [TrainingNext]_trainingVars PROVE TrainingInv'
  OBVIOUS
<1>1. CASE UNCHANGED trainingVars
  BY <1>1 DEF trainingVars, TrainingInv, TrainingTypeOK, ProduceInv, UnspoiltInv, NoVerdictYet,
     FinishedIsTheModule, IsTheModule, Tells, Narrated, Texts, Made
<1>2. CASE TrainingNext
  BY <1>2, AuthorKeeps, DrawPictureKeeps, SpeakBlockKeeps, JoinSegmentKeeps, ConcatSegmentsKeeps,
     DrawSlideKeeps, SpeakSlideKeeps, JoinClipKeeps, ConcatClipsKeeps, NextStepKeeps, RunEnds
     DEF TrainingNext, Program
<1> QED
  BY <1>1, <1>2

\* What the programs that make a module's video have done is of the edition they
\* work on, as far as they have come (main of pipeline.py, run_pipeline of
\* produce.py).
THEOREM TrainingCorrect == TrainingSpec => []TrainingInv
<1>1. QED
  BY TrainingStarts, TrainingStep, PTL DEF TrainingSpec

\* A video called finished is the module: each narrated slide once and in order,
\* picture and voice of the present edition (validate, run_pipeline).
THEOREM FinishedVideoIsTheModule == TrainingSpec => []FinishedIsTheModule
<1>1. TrainingInv => FinishedIsTheModule
  BY DEF TrainingInv
<1> QED
  BY <1>1, TrainingCorrect, PTL

-----------------------------------------------------------------------------
(* TaskStore: rows and memory.                                             *)

\* A task that was not written by two threads at once has at most one row to
\* be written, and what is to be written is what memory says.
StoreInv ==
  /\ StoreTypeOK
  /\ RowsCurrent
  /\ \A t \in Tasks \ clash : \A v, w \in Writers(t) :
       v = w /\ writing[w].data = memory[t]

LEMMA StoreStarts == StoreInit => StoreInv
<1> SUFFICES ASSUME StoreInit PROVE StoreInv
  OBVIOUS
<1>1. StoreTypeOK
  BY StoreAssumption DEF StoreInit, StoreTypeOK, Data
<1>2. \A t \in Tasks : Writers(t) = {} /\ row[t] = memory[t]
  BY DEF StoreInit, Writers
<1>3. QED
  BY <1>1, <1>2 DEF StoreInv, RowsCurrent

\* The first half of a write: the writer is the task's only one, or the task
\* was written by two at once.
LEMMA MemoryKeeps ==
  ASSUME StoreInv, NEW w \in Threads, NEW t \in Tasks, NEW d \in Data,
         WriteMemory(w, t, d), row' = row
  PROVE  /\ memory' \in [Tasks -> Data]
         /\ writing' \in [Threads -> Held \cup {Nothing}]
         /\ clash' \subseteq Tasks
         /\ RowsCurrent'
         /\ \A u \in Tasks \ clash' : \A v, x \in Writers(u)' :
              v = x /\ writing'[x].data = memory'[u]
<1> USE DEF StoreInv, StoreTypeOK
<1>1. /\ memory' \in [Tasks -> Data]
      /\ clash' \subseteq Tasks
  BY DEF WriteMemory
<1>2. [task |-> t, data |-> d] \in Held
  BY DEF Held
<1>3. writing' \in [Threads -> Held \cup {Nothing}]
  BY <1>2 DEF WriteMemory
<1>4. [task |-> t, data |-> d] # Nothing
  BY DEF Nothing
<1>5. writing'[w] = [task |-> t, data |-> d]
      /\ \A v \in Threads \ {w} : writing'[v] = writing[v]
  BY DEF WriteMemory
<1>6. w \in Writers(t)' /\ Writers(t)' = Writers(t) \cup {w}
  BY <1>4, <1>5 DEF Writers
<1>7. ASSUME NEW u \in Tasks \ {t} PROVE Writers(u)' = Writers(u)
  BY <1>5 DEF Writers, WriteMemory
<1>8. memory'[t] = d /\ \A u \in Tasks \ {t} : memory'[u] = memory[u]
  BY DEF WriteMemory
<1>9. \A u \in Tasks \ {t} : u \in clash' <=> u \in clash
  BY DEF WriteMemory
<1>10. RowsCurrent'
  BY <1>6, <1>7, <1>8, <1>9 DEF RowsCurrent, Quiet
<1>11. ASSUME NEW u \in Tasks \ clash', NEW v \in Writers(u)', NEW x \in Writers(u)'
       PROVE  v = x /\ writing'[x].data = memory'[u]
  <2>1. CASE u = t
    <3>1. Writers(t) = {}
      BY <2>1 DEF WriteMemory
    <3>2. v = w /\ x = w
      BY <2>1, <3>1, <1>6
    <3>3. QED
      BY <2>1, <3>2, <1>5, <1>8
  <2>2. CASE u # t
    <3>1. v \in Writers(u) /\ x \in Writers(u) /\ u \in Tasks \ clash
      BY <2>2, <1>7, <1>9
    <3>2. x \in Threads \ {w}
      BY <3>1, <2>2 DEF Writers, WriteMemory
    <3>3. QED
      BY <2>2, <3>1, <3>2, <1>5, <1>8
  <2>3. QED
    BY <2>1, <2>2
<1>12. QED
  BY <1>1, <1>3, <1>10, <1>11

LEMMA RowKeeps ==
  ASSUME StoreInv, NEW w \in Threads, WriteRow(w) PROVE StoreInv'
<1> USE DEF StoreInv, StoreTypeOK
<1> DEFINE t == writing[w].task
<1>1. writing[w] \in Held /\ t \in Tasks /\ writing[w].data \in Data
  BY DEF WriteRow, Held
<1>2. /\ row' = [row EXCEPT ![t] = writing[w].data]
      /\ writing' = [writing EXCEPT ![w] = Nothing]
      /\ UNCHANGED <<memory, copies, changes, starts, clash>>
  BY DEF WriteRow
<1>3. StoreTypeOK'
  BY <1>1, <1>2
<1>4. w \in Writers(t)
  BY <1>1 DEF WriteRow, Writers
<1>5. \A u : Writers(u)' = Writers(u) \ {w}
  BY <1>2 DEF Writers
<1>6. \A u \in Tasks \ {t} : w \notin Writers(u) /\ row'[u] = row[u]
  BY <1>1, <1>2 DEF Writers
<1>7. t \notin clash => row'[t] = memory[t]
  BY <1>1, <1>2, <1>4
<1>8. RowsCurrent'
  BY <1>1, <1>2, <1>5, <1>6, <1>7 DEF RowsCurrent, Quiet
<1>9. ASSUME NEW u \in Tasks \ clash', NEW v \in Writers(u)', NEW x \in Writers(u)'
      PROVE  v = x /\ writing'[x].data = memory'[u]
  <2>1. v \in Writers(u) /\ x \in Writers(u) \ {w} /\ u \in Tasks \ clash
    BY <1>2, <1>5
  <2>2. writing'[x] = writing[x]
    BY <1>2, <2>1 DEF Writers
  <2>3. QED
    BY <1>2, <2>1, <2>2
<1>10. QED
  BY <1>3, <1>8, <1>9

LEMMA StoreStep == StoreInv /\ [StoreNext]_storeVars => StoreInv'
<1> SUFFICES ASSUME StoreInv, [StoreNext]_storeVars PROVE StoreInv'
  OBVIOUS
<1> USE StoreAssumption DEF StoreInv, StoreTypeOK
<1>1. ASSUME NEW t \in Tasks, Create(t) PROVE StoreInv'
  <2>1. changes' \in Data
    BY <1>1 DEF Create, Data
  <2>2. WriteMemory(EventLoop, t, changes') /\ UNCHANGED <<row, copies, starts>>
    BY <1>1 DEF Create
  <2>3. QED
    BY <2>1, <2>2, MemoryKeeps
<1>2. ASSUME NEW t \in Tasks, Delete(t) PROVE StoreInv'
  <2>1. 0 \in Data
    BY DEF Data
  <2>2. WriteMemory(EventLoop, t, 0) /\ UNCHANGED <<row, copies, changes, starts>>
    BY <1>2 DEF Delete
  <2>3. QED
    BY <2>1, <2>2, MemoryKeeps
<1>3. ASSUME NEW w \in Threads, Change(w) PROVE StoreInv'
  <2>1. changes' \in Data
    BY <1>3 DEF Change, Data
  <2>2. copies[w] \in Held /\ copies[w].task \in Tasks
    BY <1>3 DEF Change, Held
  <2>3. [copies[w] EXCEPT !.data = changes'] \in Held
    BY <2>1, <2>2 DEF Held
  <2>4. copies' = [copies EXCEPT ![w] = [copies[w] EXCEPT !.data = changes']]
    BY <1>3 DEF Change
  <2>5. copies' \in [Threads -> Held \cup {Nothing}]
    BY <2>3, <2>4
  <2>6. WriteMemory(w, copies[w].task, changes') /\ UNCHANGED <<row, starts>>
    BY <1>3 DEF Change
  <2>7. QED
    BY <2>1, <2>2, <2>5, <2>6, MemoryKeeps
<1>4. ASSUME NEW w \in Threads, WriteRow(w) PROVE StoreInv'
  BY <1>4, RowKeeps
<1>5. ASSUME NEW w \in Threads, NEW t \in Tasks, Fetch(w, t) PROVE StoreInv'
  <2>1. [task |-> t, data |-> memory[t]] \in Held
    BY DEF Held
  <2>2. /\ copies' \in [Threads -> Held \cup {Nothing}]
        /\ UNCHANGED <<memory, row, writing, changes, starts, clash>>
    BY <1>5, <2>1 DEF Fetch
  <2>3. QED
    BY <2>2 DEF RowsCurrent, Quiet, Writers
<1>6. ASSUME Reload PROVE StoreInv'
  <2>1. StoreTypeOK'
    BY <1>6 DEF Reload
  <2>2. \A t \in Tasks : Writers(t)' = {} /\ row'[t] = memory'[t]
    BY <1>6 DEF Reload, Writers
  <2>3. QED
    BY <2>1, <2>2 DEF RowsCurrent
<1>7. CASE UNCHANGED storeVars
  BY <1>7 DEF storeVars, RowsCurrent, Quiet, Writers
<1>8. QED
  BY <1>1, <1>2, <1>3, <1>4, <1>5, <1>6, <1>7 DEF StoreNext

\* Whatever thread writes, deletes or dies, what stands in a task's row is what
\* the readers see, unless two threads wrote the task at once
\* (PersistentTaskDict, task_db.py:229-273).
THEOREM RowsFollowMemory == StoreSpec => []RowsCurrent
<1>1. StoreInv => RowsCurrent
  BY DEF StoreInv
<1>2. QED
  BY <1>1, StoreStarts, StoreStep, PTL DEF StoreSpec

-----------------------------------------------------------------------------
(* All the programs, one of which runs.                                    *)

\* The programs share no state, so each runs as if it were alone.
LEMMA ToolsRunAlone ==
  MCSpec => /\ AutonomySpec /\ SlicerSpec /\ PipelineSpec /\ DeskSpec /\ TrainingSpec
            /\ StoreSpec
<1>1. ASSUME MCInit
      PROVE  AutonomyInit /\ SlicerInit /\ PipelineInit /\ DeskInit /\ TrainingInit /\ StoreInit
  <2>1. CASE SlicerIdles
    <3>1. MaxSections \in Nat \ {0}
      BY SlicerAssumption
    <3>2. 1 \in 0 .. MaxSections /\ "primary" \in ToSet(Ways)
      BY <3>1, WaysAre
    <3>3. found = [x \in ToSet(Ways) |-> IF x = "primary" THEN 1 ELSE 1]
      BY <2>1 DEF SlicerIdles
    <3>4. home \in [Criteria -> 0 .. MaxSections] /\ touches \in [1 .. MaxSections -> SUBSET Paths]
      BY <2>1, <3>1 DEF SlicerIdles
    <3>5. SlicerInit
      BY <2>1, <3>2, <3>3, <3>4 DEF SlicerIdles, SlicerInit
    <3> QED
      BY <1>1, <3>5 DEF MCInit
  <2> QED
    BY <1>1, <2>1 DEF MCInit
<1>2. ASSUME [MCNext]_toolVars
      PROVE  /\ [AutonomyNext]_autonomyVars /\ [SlicerNext]_slicerVars /\ [PipelineNext]_specVars
             /\ [DeskNext]_deskVars /\ [TrainingNext]_trainingVars /\ [StoreNext]_storeVars
  BY <1>2 DEF MCNext, toolVars
<1> QED
  BY <1>1, <1>2, PTL DEF MCSpec, AutonomySpec, SlicerSpec, PipelineSpec, DeskSpec, TrainingSpec,
     StoreSpec

\* Whichever of the programs runs, from whatever input, its state stays well
\* formed (every assignment of pm_autonomy.py, spec_slicer.py, leroy_client.py,
\* the media agent's scripts, pipeline.py, produce.py and task_db.py).
THEOREM ToolsTypeCorrect == MCSpec => []ToolsTypeOK
<1>1. WholeInv /\ AutonomyTypeOK /\ PipelineInv /\ DeskInv /\ TrainingInv /\ StoreInv => ToolsTypeOK
  BY SlicerType DEF ToolsTypeOK, PipelineInv, DeskInv, TrainingInv, StoreInv
<1>2. StoreSpec => []StoreInv
  BY StoreStarts, StoreStep, PTL DEF StoreSpec
<1> QED
  BY <1>1, <1>2, ToolsRunAlone, DecisionsTypeCorrect, SlicingCorrect, PipelineCorrect, DeskCorrect,
     TrainingCorrect, PTL

\* Whichever of the programs runs, what the run of all of them checks
\* (pm_autonomy.py, spec_slicer.py, leroy_client.py, the content server and
\* post_to_platforms.py, pipeline.py, produce.py, task_db.py).
THEOREM ToolsCorrect ==
  MCSpec => /\ [](HumanWordStands /\ NeighboursApart /\ SpecIsWhole)
            /\ [](TasksAreFiled /\ PublishedOnce /\ DashboardShowsFile)
            /\ [](FinishedIsTheModule /\ RowsCurrent)
            /\ SpecKept
BY ToolsRunAlone, HumanWordIsKept, NeighboursAreApart, SpecStaysWhole, EveryTaskIsFiled,
   PublishedAtMostOnce, DashboardIsFaithful, FinishedVideoIsTheModule, RowsFollowMemory, SpecIsKept,
   PTL
=============================================================================
