------------------------------- MODULE MCTools -------------------------------
(* The programs that are run now and then, and the table the tasks are kept   *)
(* in, one at a time: they share no state, so each is explored alone while    *)
(* the others stay as they began.                                             *)
EXTENDS TLC, SpecPipeline, SpecSlicer, PMAutonomy, ContentDesk, TrainingPipeline,
        TaskStore

CONSTANTS angle_a, angle_b  \* two titles
MCWants  == (angle_a :> {"linkedin", "twitter"}) @@ (angle_b :> {"blog"})
MCBegins == {<<angle_a, angle_b>>}

(* The PM sessions' clients are alike: the first send is always the same one's. *)
FirstSends == own[CHOOSE c \in Clients : TRUE] = 1 \/ 1 \notin Range(own)
(* Bound: only the first task is ever ended past its handlers. *)
FirstEndsPast == \A t \in DOMAIN tasks : tasks[t].status = "ended_past" => t = 1

VARIABLE tool   \* the one that is explored
toolVars == <<tool, specVars, slicerVars, autonomyVars, deskVars, trainingVars,
              storeVars>>

(* Of the two whose input is chosen initially, a fixed one when they idle. *)
SlicerIdles ==
  /\ large = FALSE /\ home = [c \in Criteria |-> 0]
  /\ touches = [i \in 1 .. MaxSections |-> {}]
  /\ found = [w \in ToSet(Ways) |-> 1]
  /\ stage = "find" /\ sections = <<>> /\ unmapped = {} /\ cursor = 0
  /\ vehicles = <<>> /\ running = {} /\ ended = {}
TrainingIdles == slides = 1 /\ texts = [n \in Numbers |-> "none"]

MCInit ==
  /\ tool \in {"pipeline", "slicer", "autonomy", "desk", "training", "store"}
  /\ PipelineInit /\ AutonomyInit /\ DeskInit /\ TrainingInit /\ StoreInit
  /\ tool # "training" => TrainingIdles
  /\ IF tool = "slicer" THEN SlicerInit ELSE SlicerIdles

MCNext ==
  \/ /\ tool = "pipeline" /\ PipelineNext /\ FirstSends' /\ FirstEndsPast'
     /\ UNCHANGED <<tool, storeVars, slicerVars, autonomyVars, deskVars, trainingVars>>
  \/ /\ tool = "slicer" /\ SlicerNext
     /\ UNCHANGED <<tool, storeVars, specVars, autonomyVars, deskVars, trainingVars>>
  \/ /\ tool = "autonomy" /\ AutonomyNext
     /\ UNCHANGED <<tool, storeVars, specVars, slicerVars, deskVars, trainingVars>>
  \/ /\ tool = "desk" /\ DeskNext
     /\ UNCHANGED <<tool, storeVars, specVars, slicerVars, autonomyVars, trainingVars>>
  \/ /\ tool = "training" /\ TrainingNext
     /\ UNCHANGED <<tool, storeVars, specVars, slicerVars, autonomyVars, deskVars>>
  \/ /\ tool = "store" /\ StoreNext
     /\ UNCHANGED <<tool, specVars, slicerVars, autonomyVars, deskVars, trainingVars>>

MCSpec == MCInit /\ [][MCNext]_toolVars

ToolsTypeOK ==
  /\ PipelineTypeOK /\ SlicerTypeOK /\ AutonomyTypeOK /\ DeskTypeOK /\ TrainingTypeOK
  /\ StoreTypeOK
=============================================================================
