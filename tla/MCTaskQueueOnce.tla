--------------------------- MODULE MCTaskQueueOnce ---------------------------
(* Instance of TaskQueueOnce for TLC: three pushes for 2 + 1 slots.         *)
EXTENDS TaskQueueOnce

MCLimit == [m \in Machine |-> IF m = DefaultMachine THEN 2 ELSE 1]
MCStamp == 1..3
=============================================================================
