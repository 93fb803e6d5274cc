----------------------------- MODULE MCContainer -----------------------------
(* A container for TLC.  For liveness one thing at a time disturbs it, a   *)
(* restart, a request, or a process that its run has let go of, and the    *)
(* exploration ends when its task is no longer dispatched, as it then never *)
(* is again.                                                                *)
EXTENDS Container

CONSTANTS v1, v2

MCIndependent == [v \in Vehicle |-> {}]
MCChain == [v \in Vehicle |-> IF v = v2 THEN {v1} ELSE {}]

OneDisturbance == requests' + restarts' + strays'[v1] + strays'[v2] <= 1
Unsettled == parent \in {"pending", "dispatched"}

MCFairSpec ==
    /\ ContainerInit
    /\ [][ContainerNext /\ Unsettled /\ OneDisturbance]_containerVars
    /\ ContainerFairness
=============================================================================
