----------------------------- MODULE PMAutonomy -----------------------------
(***************************************************************************)
(* What the server decides by itself when a build ends (task_events.py,    *)
(* pm_autonomy.py).  The handler of the transition runs in the build's     *)
(* thread: it records a decision with the tier its kind has, sends word,   *)
(* updates the decision and then the plan.  Meanwhile, in the event loop,  *)
(* Brad judges decisions, the PM closes plans, old proposals are approved  *)
(* and the tiers evaluated.  Tiers live in memory, the rest in the         *)
(* database; a restart keeps the rest.                                     *)
(***************************************************************************)
EXTENDS Naturals, FiniteSets

CONSTANTS Builds,        \* tasks that are built
          Vehicles,      \* those that are vehicles of a container
          MinInstances,  \* MIN_INSTANCES_FOR_CHANGE (20)
          MaxCalls       \* bound: judgements, closed plans, evaluations, restarts

ASSUME AutonomyAssumption ==
  Vehicles \subseteq Builds /\ MinInstances \in Nat \ {0} /\ MaxCalls \in Nat

VARIABLES
  build,    \* the state of each task
  cause,    \* why it failed or is blocked
  handler,  \* the next step of the handler in its thread
  action,   \* the decision about it (table pm_actions)
  tiers,    \* _confidence_map
  planned,  \* the status of its plan
  alerts,   \* who was told what about it
  judged,   \* history: Brad's last judgement of the decision
  closed,   \* history: the PM's last verdict on the plan
  hasty,    \* history: judged or closed before the build's handler was through
  calls

autonomyVars == <<build, cause, handler, action, tiers, planned, alerts, judged,
                  closed, hasty, calls>>

Kinds  == {"auto_qa", "route_to_ops", "respec_timeout", "respec_failure"}
Tiers  == {"high", "medium", "low"}
Causes == {"infra", "timeout", "other"}
DefaultTiers == [k \in Kinds |-> IF k \in {"auto_qa", "route_to_ops"} THEN "high"
                                 ELSE "medium"]
NoAction == [kind |-> "none", tier |-> "low", status |-> "none",
             correct |-> "none", due |-> FALSE]
Verdicts == {"right", "wrong"}
----------------------------------------------------------------------------
(* A builder ends or is blocked; the handler leaves vehicles to the         *)
(* dispatcher.                                                              *)
Handled(b)   == handler' = IF b \in Vehicles THEN handler
                           ELSE [handler EXCEPT ![b] = "record"]
Tell(b, who) == alerts' = [alerts EXCEPT ![b] = @ \cup {who}]

Ends(b, s, c) ==
  /\ build[b] = "running"
  /\ build' = [build EXCEPT ![b] = s] /\ cause' = [cause EXCEPT ![b] = c]
  /\ Handled(b)
  /\ UNCHANGED <<action, tiers, planned, alerts, judged, closed, hasty, calls>>

Blocks(b, c) ==
  /\ build[b] = "running"
  /\ build' = [build EXCEPT ![b] = "blocked"] /\ cause' = [cause EXCEPT ![b] = c]
  /\ IF b \in Vehicles THEN UNCHANGED alerts
     ELSE Tell(b, IF c = "infra" THEN "ops" ELSE "pm")
  /\ UNCHANGED <<handler, action, tiers, planned, judged, closed, hasty, calls>>

Unblocks(b) == /\ build[b] = "blocked"
               /\ build' = [build EXCEPT ![b] = "running"]
               /\ UNCHANGED <<cause, handler, action, tiers, planned, alerts,
                              judged, closed, hasty, calls>>
----------------------------------------------------------------------------
(* on_build_completed, on_build_failed.  is_infra_failure takes a list and  *)
(* is given one category, which is a string: none is ever infra.            *)
IsInfra(c) == FALSE
ClassifyDecision(b) ==
  CASE build[b] = "completed"                        -> "auto_qa"
    [] build[b] # "completed" /\ IsInfra(cause[b])   -> "route_to_ops"
    [] build[b] # "completed" /\ ~IsInfra(cause[b])  ->
         IF cause[b] = "timeout" THEN "respec_timeout" ELSE "respec_failure"

Record(b) ==
  /\ handler[b] = "record"
  /\ LET k == ClassifyDecision(b)
     IN  action' = [action EXCEPT ![b] = [kind |-> k, tier |-> tiers[k],
                      status |-> "pending", correct |-> "none", due |-> FALSE]]
  /\ handler' = [handler EXCEPT ![b] = "send"]
  /\ UNCHANGED <<build, cause, tiers, planned, alerts, judged, closed, hasty, calls>>

(* A build fails once, so its retry budget is never used up here. *)
UpdatesAction(b) == \/ build[b] = "completed" /\ action[b].tier # "low"
                    \/ action[b].kind = "route_to_ops"
SendWord(b) ==
  /\ handler[b] = "send"
  /\ Tell(b, IF action[b].kind = "route_to_ops" THEN "ops" ELSE "pm")
  /\ handler' = [handler EXCEPT ![b] = IF UpdatesAction(b) THEN "update" ELSE "plan"]
  /\ UNCHANGED <<build, cause, action, tiers, planned, judged, closed, hasty, calls>>

(* update_status writes the outcome too, and its default is no outcome. *)
UpdateStatusSwapped(a, s, correct) ==  \* variant with a bug
  [a EXCEPT !.status = correct, !.correct = s]
UpdateStatus(a, s, correct) == [a EXCEPT !.status = s, !.correct = correct]
UpdateAction(b) ==
  /\ handler[b] = "update"
  /\ action' = [action EXCEPT ![b] =
       UpdateStatus(@, IF @.tier = "medium" /\ @.kind # "route_to_ops" THEN "pending"
                       ELSE "executing", "none")]
  /\ handler' = [handler EXCEPT ![b] = "plan"]
  /\ UNCHANGED <<build, cause, tiers, planned, alerts, judged, closed, hasty, calls>>

WritePlan(b) ==
  /\ handler[b] = "plan"
  /\ planned' = [planned EXCEPT ![b] =
       IF build[b] = "completed" THEN "completed_unverified" ELSE "failed"]
  /\ handler' = [handler EXCEPT ![b] = "none"]
  /\ UNCHANGED <<build, cause, action, tiers, alerts, judged, closed, hasty, calls>>

Handler(b) == Record(b) \/ SendWord(b) \/ UpdateAction(b) \/ WritePlan(b)
----------------------------------------------------------------------------
Call == calls < MaxCalls /\ calls' = calls + 1
IsThrough(b) == build[b] \notin {"running", "blocked"} /\ handler[b] = "none"
Hurried(b) == hasty' = IF IsThrough(b) THEN hasty ELSE hasty \cup {b}

(* POST /pm/actions/{id}/outcome: at any time, any number of times. *)
Outcome(b, v) ==
  /\ action[b] # NoAction /\ Call
  /\ action' = [action EXCEPT ![b] = UpdateStatus(@, "completed", v)]
  /\ judged' = [judged EXCEPT ![b] = v] /\ Hurried(b)
  /\ UNCHANGED <<build, cause, handler, tiers, planned, alerts, closed>>

(* leroy_update_spec: the PM is asked to close a task when its QA is done,  *)
(* and nothing looks at whether the build has ended.                        *)
ClosePlan(b, v) ==
  /\ Call
  /\ planned' = [planned EXCEPT ![b] = v]
  /\ closed' = [closed EXCEPT ![b] = v] /\ Hurried(b)
  /\ UNCHANGED <<build, cause, handler, action, tiers, alerts, judged>>

(* MEDIUM_AUTO_APPROVE_SECONDS pass for a proposal. *)
ComesDue(b) ==
  /\ action[b] # NoAction /\ ~action[b].due
  /\ action' = [action EXCEPT ![b].due = TRUE]
  /\ UNCHANGED <<build, cause, handler, tiers, planned, alerts, judged, closed,
                 hasty, calls>>

(* POST /pm/actions/auto-approve: the rows are listed, then updated.  To be *)
(* approved is all that happens to them.                                    *)
PendingApprovalByAge(a) == a.tier = "medium" /\ a.due  \* variant with a bug
PendingApproval(a) == a.tier = "medium" /\ a.status = "pending" /\ a.due
AutoApprove ==
  /\ \E b \in Builds : PendingApproval(action[b])
  /\ action' = [b \in Builds |-> IF PendingApproval(action[b])
                  THEN UpdateStatus(action[b], "approved", "none") ELSE action[b]]
  /\ UNCHANGED <<build, cause, handler, tiers, planned, alerts, judged, closed,
                 hasty, calls>>

(* POST /pm/autonomy/evaluate.  action_stats asks whether the stored value  *)
(* "is" True or False; the database returns 1 and 0, which are neither.     *)
Is(correct, v) == FALSE
Count(k, v)  == Cardinality({b \in Builds : action[b].kind = k /\ Is(action[b].correct, v)})
Evaluated(k) == Count(k, "right") + Count(k, "wrong")
Promoted == [low |-> "medium", medium |-> "high", high |-> "high"]
Demoted  == [high |-> "medium", medium |-> "low", low |-> "low"]
Adjusted(k) ==
  CASE Evaluated(k) < MinInstances                     -> tiers[k]
    [] Evaluated(k) >= MinInstances                    ->
         IF 10 * Count(k, "right") >= 9 * Evaluated(k) THEN Promoted[tiers[k]]
         ELSE IF 10 * Count(k, "right") < 7 * Evaluated(k) THEN Demoted[tiers[k]]
         ELSE tiers[k]
Evaluate ==
  /\ Call
  /\ tiers' = [k \in Kinds |-> Adjusted(k)]
  /\ UNCHANGED <<build, cause, handler, action, planned, alerts, judged, closed, hasty>>

(* The threads die with the server; its recovery calls no handler. *)
Restart ==
  /\ Call
  /\ tiers' = DefaultTiers
  /\ handler' = [b \in Builds |-> "none"]
  /\ build' = [b \in Builds |-> IF build[b] = "running" THEN "lost" ELSE build[b]]
  /\ UNCHANGED <<cause, action, planned, alerts, judged, closed, hasty>>
----------------------------------------------------------------------------
AutonomyInit ==
  /\ build = [b \in Builds |-> "running"] /\ cause = [b \in Builds |-> "other"]
  /\ handler = [b \in Builds |-> "none"] /\ action = [b \in Builds |-> NoAction]
  /\ tiers = DefaultTiers /\ planned = [b \in Builds |-> "sent"]
  /\ alerts = [b \in Builds |-> {}]
  /\ judged = [b \in Builds |-> "none"] /\ closed = [b \in Builds |-> "none"]
  /\ hasty = {} /\ calls = 0

Builder(b) == \/ Ends(b, "completed", "other")
              \/ \E c \in Causes : Ends(b, "failed", c) \/ Blocks(b, c)
              \/ Unblocks(b)
Loop(b) == \/ \E v \in Verdicts : Outcome(b, v)
           \/ \E v \in {"completed", "failed"} : ClosePlan(b, v)
           \/ ComesDue(b)
AutonomyNext ==
  \/ \E b \in Builds : Builder(b) \/ Handler(b) \/ Loop(b)
  \/ AutoApprove \/ Evaluate \/ Restart
AutonomySpec == AutonomyInit /\ [][AutonomyNext]_autonomyVars
----------------------------------------------------------------------------
AutonomyTypeOK ==
  /\ build \in [Builds -> {"running", "blocked", "completed", "failed", "lost"}]
  /\ cause \in [Builds -> Causes]
  /\ handler \in [Builds -> {"none", "record", "send", "update", "plan"}]
  /\ action \in [Builds -> [kind : Kinds \cup {"none"}, tier : Tiers,
       status : {"none", "pending", "executing", "approved", "completed"},
       correct : Verdicts \cup {"none"}, due : BOOLEAN]]
  /\ tiers \in [Kinds -> Tiers]
  /\ planned \in [Builds -> {"sent", "completed_unverified", "completed", "failed"}]
  /\ alerts \in [Builds -> SUBSET {"pm", "ops"}]
  /\ judged \in [Builds -> Verdicts \cup {"none"}]
  /\ closed \in [Builds -> {"none", "completed", "failed"}]
  /\ hasty \subseteq Builds /\ calls \in 0 .. MaxCalls

(* What Brad judged and what the PM closed stays so: neither the approval   *)
(* of old proposals nor a restart nor another build takes it back; only the *)
(* handler of the same build does, when the build had not ended or its      *)
(* handler was not through yet (update_status, update_outcome).             *)
HumanWordStands ==
  \A b \in Builds \ hasty :
    /\ judged[b] # "none" => /\ action[b].correct = judged[b]
                             /\ action[b].status = "completed"
    /\ closed[b] # "none" => planned[b] = closed[b]

(* ">90% correct over 20 instances = promote confidence tier" (docstring of *)
(* the module): an evaluation promotes a kind whose decisions were judged   *)
(* often enough, and all of them right.                                     *)
AllRight(k) == LET J == {b \in Builds : action[b].kind = k /\ action[b].correct # "none"}
               IN  /\ Cardinality(J) >= MinInstances
                   /\ \A b \in J : action[b].correct = "right"
GoodIsPromoted ==
  [][Evaluate => \A k \in Kinds : AllRight(k) => tiers'[k] = Promoted[tiers[k]]]_autonomyVars
=============================================================================
