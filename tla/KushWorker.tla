----------------------------- MODULE KushWorker -----------------------------
(***************************************************************************)
(* The worker of the second machine (server/kush_worker.py) against the    *)
(* task routes it calls (server/routes_tasks.py).  It polls for pending    *)
(* tasks, accepts the oldest, runs it, and reports.  Every call may fail   *)
(* before or after the server has carried it out; the worker only sees     *)
(* that it got no answer.  A second worker process can run beside the      *)
(* first, as the daemon has a --once mode for use by hand.                 *)
(***************************************************************************)
EXTENDS Naturals, Sequences, FiniteSets, SequencesExt

CONSTANTS Jobs,      \* tasks for this machine
          Workers,   \* processes of the worker
          NoJob,     \* in the place of a task when there is none
          MaxLost    \* bound: calls without an answer, and deaths

ASSUME KushAssumption == NoJob \notin Jobs /\ MaxLost \in Nat

VARIABLES
  queue,     \* the tasks of this machine, in the order they were submitted
  status,    \* the status the server has for them
  result,    \* the result the server has: "none", "output" or "excuse"
  told,      \* what the PM was told on the bus about each task
  at,        \* where each worker is in its cycle
  job,       \* the task each worker has in hand
  went,      \* how the run went: TRUE for success
  executed,  \* history: how often a task was started, up to 2
  unanswered,\* history: tasks whose accept got no answer, or whose worker died
  unsure,    \* history: tasks whose report got no answer
  lost

kushVars == <<queue, status, result, told, at, job, went, executed, unanswered,
              unsure, lost>>
serverSide == <<queue, status, result>>

Submitted == ToSet(queue)
----------------------------------------------------------------------------
(* What others do to the tasks over the same routes. *)
Submit(j) ==
  /\ j \notin Submitted
  /\ queue' = Append(queue, j) /\ status' = [status EXCEPT ![j] = "pending"]
  /\ UNCHANGED <<result, told, at, job, went, executed, unanswered, unsure, lost>>

CancelTask(j) ==
  /\ j \in Submitted /\ status[j] \in {"pending", "working"}
  /\ status' = [status EXCEPT ![j] = "cancelled"]
  /\ UNCHANGED <<queue, result, told, at, job, went, executed, unanswered, unsure, lost>>

ForceFail(j) ==
  /\ j \in Submitted
  /\ status' = [status EXCEPT ![j] = "failed"]
  /\ UNCHANGED <<queue, result, told, at, job, went, executed, unanswered, unsure, lost>>
----------------------------------------------------------------------------
Mislaid == lost < MaxLost /\ lost' = lost + 1

(* The oldest task listed as pending is taken up. *)
Pending   == {i \in DOMAIN queue : status[queue[i]] = "pending"}
Oldest(i) == i \in Pending /\ \A k \in Pending : i <= k
Poll(w) ==
  /\ at[w] = "idle"
  /\ \E i \in DOMAIN queue : Oldest(i) /\ job' = [job EXCEPT ![w] = queue[i]]
  /\ at' = [at EXCEPT ![w] = "accept"]
  /\ UNCHANGED <<serverSide, told, went, executed, unanswered, unsure, lost>>

AcceptableAlways(j) == TRUE  \* variant with a bug

(* task_accept: only a pending task can be accepted. *)
Acceptable(j) == status[j] = "pending"
ServerAccepts(j) == IF Acceptable(j) THEN [status EXCEPT ![j] = "working"] ELSE status

(* Without an answer, and on the server's refusal, the task is given up. *)
Accept(w) ==
  /\ at[w] = "accept"
  /\ \/ /\ Acceptable(job[w]) /\ status' = ServerAccepts(job[w])
        /\ at' = [at EXCEPT ![w] = "run"]
        /\ executed' = [executed EXCEPT ![job[w]] = IF @ < 2 THEN @ + 1 ELSE 2]
        /\ UNCHANGED <<job, unanswered, lost>>
     \/ /\ ~Acceptable(job[w])
        /\ at' = [at EXCEPT ![w] = "idle"] /\ job' = [job EXCEPT ![w] = NoJob]
        /\ UNCHANGED <<status, executed, unanswered, lost>>
     \/ /\ Mislaid
        /\ status' \in {status, ServerAccepts(job[w])}
        /\ unanswered' = unanswered \cup {job[w]}
        /\ at' = [at EXCEPT ![w] = "idle"] /\ job' = [job EXCEPT ![w] = NoJob]
        /\ UNCHANGED executed
  /\ UNCHANGED <<queue, result, told, went, unsure>>

(* Variant with a bug: a run that failed is not reported. *)
ExecuteReportsSuccess(w) ==
  /\ at[w] = "run"
  /\ \E ok \in BOOLEAN :
       /\ went' = [went EXCEPT ![w] = ok]
       /\ at' = [at EXCEPT ![w] = IF ok THEN "report" ELSE "notify"]
  /\ UNCHANGED <<serverSide, told, job, executed, unanswered, unsure, lost>>

(* The process ends, is killed for silence, or cannot be run at all. *)
Execute(w) ==
  /\ at[w] = "run"
  /\ \E ok \in BOOLEAN : went' = [went EXCEPT ![w] = ok]
  /\ at' = [at EXCEPT ![w] = "report"]
  /\ UNCHANGED <<serverSide, told, job, executed, unanswered, unsure, lost>>

(* tasks_complete: whatever the task's status, it is completed now, with    *)
(* the result that was sent.  A run that failed is reported the same way.   *)
Completes(j, text) == /\ status' = [status EXCEPT ![j] = "completed"]
                      /\ result' = [result EXCEPT ![j] = text]

Report(w) ==
  /\ at[w] = "report"
  /\ \/ /\ Completes(job[w], "output")
        /\ at' = [at EXCEPT ![w] = "notify"] /\ UNCHANGED <<unsure, lost>>
     \/ /\ Mislaid
        /\ Completes(job[w], "output") \/ UNCHANGED <<status, result>>
        /\ unsure' = unsure \cup {job[w]}
        /\ at' = [at EXCEPT ![w] = "excuse"]
  /\ UNCHANGED <<queue, told, job, went, executed, unanswered>>

(* "Try to mark as failed": a second completion, with another text. *)
ReportAgain(w) ==
  /\ at[w] = "excuse"
  /\ \/ Completes(job[w], "excuse") /\ UNCHANGED <<unanswered, lost>>
     \/ /\ Mislaid
        /\ Completes(job[w], "excuse") \/ UNCHANGED <<status, result>>
        /\ unanswered' = unanswered \cup {job[w]}
  /\ at' = [at EXCEPT ![w] = "notify"]
  /\ UNCHANGED <<queue, told, job, went, executed, unsure>>

(* The word of the run's success only goes over the bus. *)
Notify(w) ==
  /\ at[w] = "notify"
  /\ \/ /\ told' = [told EXCEPT ![job[w]] = IF went[w] THEN "completed" ELSE "failed"]
        /\ UNCHANGED lost
     \/ Mislaid /\ UNCHANGED told
  /\ at' = [at EXCEPT ![w] = "idle"] /\ job' = [job EXCEPT ![w] = NoJob]
  /\ UNCHANGED <<serverSide, went, executed, unanswered, unsure>>

(* A worker dies and starts afresh; it keeps nothing. *)
WorkerDies(w) ==
  /\ at[w] # "idle" /\ Mislaid
  /\ unanswered' = IF at[w] \in {"run", "report", "excuse"}
                     THEN unanswered \cup {job[w]} ELSE unanswered
  /\ at' = [at EXCEPT ![w] = "idle"] /\ job' = [job EXCEPT ![w] = NoJob]
  /\ UNCHANGED <<serverSide, told, went, executed, unsure>>
----------------------------------------------------------------------------
KushInit ==
  /\ queue = <<>> /\ status = [j \in Jobs |-> "none"]
  /\ result = [j \in Jobs |-> "none"] /\ told = [j \in Jobs |-> "none"]
  /\ at = [w \in Workers |-> "idle"] /\ job = [w \in Workers |-> NoJob]
  /\ went = [w \in Workers |-> TRUE]
  /\ executed = [j \in Jobs |-> 0]
  /\ unanswered = {} /\ unsure = {} /\ lost = 0

Works(w) == \/ Poll(w) \/ Accept(w) \/ Execute(w) \/ Report(w) \/ ReportAgain(w)
            \/ Notify(w)
KushNext ==
  \/ \E j \in Jobs : Submit(j) \/ CancelTask(j) \/ ForceFail(j)
  \/ \E w \in Workers : Works(w) \/ WorkerDies(w)

(* A worker polls every thirty seconds, its calls time out, and a run that  *)
(* is silent for too long is killed.                                        *)
KushSpec == KushInit /\ [][KushNext]_kushVars /\ \A w \in Workers : WF_kushVars(Works(w))
----------------------------------------------------------------------------
KushTypeOK ==
  /\ queue \in Seq(Jobs) /\ IsInjective(queue)
  /\ status \in [Jobs -> {"none", "pending", "working", "completed", "cancelled", "failed"}]
  /\ result \in [Jobs -> {"none", "output", "excuse"}]
  /\ told \in [Jobs -> {"none", "completed", "failed"}]
  /\ at \in [Workers -> {"idle", "accept", "run", "report", "excuse", "notify"}]
  /\ job \in [Workers -> Jobs \cup {NoJob}] /\ went \in [Workers -> BOOLEAN]
  /\ executed \in [Jobs -> 0 .. 2]
  /\ unanswered \subseteq Jobs /\ unsure \subseteq Jobs /\ lost \in 0 .. MaxLost

(* However many workers poll, and whatever is lost, no task is run twice;   *)
(* a task that is "working" for the server and in nobody's hands was given  *)
(* up without an answer, or its worker died; and the output of a run that   *)
(* reached the server is replaced by the excuse of the second report only   *)
(* when the answer to the first was lost (poll_and_execute, task_accept).   *)
Held(j) == \E w \in Workers : job[w] = j /\ at[w] \in {"run", "report", "excuse"}
ExecutedOnce  == \A j \in Jobs : executed[j] <= 1
WorkingIsHeld == \A j \in Jobs : status[j] = "working" => Held(j) \/ j \in unanswered
OutputKept    == \A j \in Jobs : result[j] = "excuse" => j \in unsure
RunsAccountedFor == ExecutedOnce /\ WorkingIsHeld /\ OutputKept

(* What is submitted ends, except what was given up without an answer or    *)
(* died with its worker: nothing on either side takes that up again.        *)
EveryTaskEnds ==
  \A j \in Jobs : status[j] = "pending" ~>
                    status[j] \in {"completed", "cancelled", "failed"} \/ j \in unanswered
=============================================================================
