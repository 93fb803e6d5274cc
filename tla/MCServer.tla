------------------------------- MODULE MCServer -------------------------------
(* The server for TLC, each part explored alone: the task queue; a container *)
(* of two independent vehicles, without requests and without processes that  *)
(* their runs let go of; and one vehicle of such a container with both, while *)
(* the others stay in the queue.  The default limits are 3 for haze and 1 for *)
(* kush; here 2 and 1, so that three tasks can overfill both machines.        *)
EXTENDS TaskQueue, Container, TLC

VARIABLE part   \* the part that is explored: "queue", "vehicles" or a vehicle

MCLimit == [m \in Machine |-> IF m = DefaultMachine THEN 2 ELSE 1]
MCPriority == {0, 1}
MCStamp == 1 .. 3
MCDependsOn == [v \in Vehicle |-> {}]
MCSymmetry == Permutations(Task) \cup Permutations(Vehicle)

\* Bound on requests and restarts together.
MCMaxEvents == 2

Undisturbed ==
  /\ requests' = 0
  /\ restarts' # restarts \/ \A v \in Vehicle : strays'[v] <= strays[v]

Alone(v) ==
  /\ requests' + restarts' <= MCMaxEvents
  /\ \A w \in Vehicle \ {v} : vehicle_runs'[w] = vehicle_runs[w]
  /\ ForceFailContainer \/ \A w \in Vehicle \ {v} : status'[w] = status[w] /\ v2_state'[w] = v2_state[w]

MCInit == part \in {"queue", "vehicles"} \cup Vehicle /\ Init /\ ContainerInit

MCNext ==
  \/ part = "queue" /\ Next /\ UNCHANGED <<part, containerVars>>
  \/ part = "vehicles" /\ ContainerNext /\ Undisturbed /\ UNCHANGED <<part, vars>>
  \/ part \in Vehicle /\ ContainerNext /\ Alone(part) /\ UNCHANGED <<part, vars>>

MCSpec == MCInit /\ [][MCNext]_<<part, vars, containerVars>>

\* The type invariants of both parts.
ServerTypeOK == TypeOK /\ ContainerTypeOK
=============================================================================
