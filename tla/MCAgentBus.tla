------------------------------ MODULE MCAgentBus ------------------------------
(* An instance of AgentBus for TLC: one webhook wants every message, the    *)
(* other only one of them; two posts in place of three, two registrations   *)
(* in place of five.                                                        *)
EXTENDS AgentBus

CONSTANTS m1, h1

MCMatches == [h \in Hook |-> IF h = h1 THEN Message ELSE {m1}]
=============================================================================
