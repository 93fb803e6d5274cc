--------------------------- MODULE MCTaskLifecycle ---------------------------
(* Instances of TaskLifecycle for TLC, in which a restart takes the place   *)
(* of a request.                                                            *)
EXTENDS TaskLifecycle

MCSpec == Init /\ [][Next /\ served' + restarts' <= MaxRequests]_vars
=============================================================================
