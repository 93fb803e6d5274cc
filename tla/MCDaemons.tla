------------------------------ MODULE MCDaemons ------------------------------
(* The daemons that poll the server, one at a time: they share no state, so   *)
(* each is explored alone while the other two stay as they began.             *)
EXTENDS PMMonitor, CodexMonitor, KushWorker

VARIABLE daemon  \* the one that is explored
daemonVars == <<daemon, monitorVars, codexVars, kushVars>>

MCInit == /\ daemon \in {"monitor", "codex", "kush"}
          /\ MonitorInit /\ CodexInit /\ KushInit
          /\ daemon # "monitor" => tier2 = {}

(* Proposals, reviews and notes are interchangeable, and numbered: they appear *)
(* in the order of their numbers.  Two matters at a time reach the monitor.    *)
InOrder(q, S) == \A i, j \in DOMAIN q : i < j /\ q[i] \in S /\ q[j] \in S => q[i] < q[j]
Matters == {m \in Messages : msg[m] # "none"} \cup {t \in Tasks : task[t] # "none"}
             \cup {p \in Proposals : prop[p] # "none"}

MCNext ==
  \/ /\ daemon = "monitor" /\ MonitorNext
     /\ InOrder(created', Proposals) /\ Cardinality(Matters') <= 2
     /\ UNCHANGED <<daemon, codexVars, kushVars>>
  \/ /\ daemon = "codex" /\ CodexNext
     /\ InOrder(sent', Reviews) /\ InOrder(sent', Notes)
     /\ UNCHANGED <<daemon, monitorVars, kushVars>>
  \/ /\ daemon = "kush" /\ KushNext
     /\ UNCHANGED <<daemon, monitorVars, codexVars>>

MCSpec ==
  /\ MCInit /\ [][MCNext]_daemonVars
  /\ WF_monitorVars(daemon = "monitor" /\ Cycle)
  /\ WF_monitorVars(daemon = "monitor" /\ Tick)
  /\ WF_codexVars(daemon = "codex" /\ Daemon)
  /\ \A w \in Workers : WF_kushVars(daemon = "kush" /\ Works(w))

DaemonsTypeOK == MonitorTypeOK /\ CodexTypeOK /\ KushTypeOK
=============================================================================
