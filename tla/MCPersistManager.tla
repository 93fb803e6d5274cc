-------------------------- MODULE MCPersistManager --------------------------
(* Instances of PersistManager for TLC: a queue of two entries in place of  *)
(* 100, two attempts in place of ten, a threshold of two in place of three. *)
EXTENDS PersistManager
=============================================================================
