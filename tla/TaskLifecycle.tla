---------------------------- MODULE TaskLifecycle ----------------------------
(***************************************************************************)
(* One standalone task from submission to its end (src/server/execution.py,*)
(* state_machine.py, the detector of server.py, routes_tasks.py,           *)
(* routes_messages.py, the idea and validation routes of routes_ops.py,    *)
(* and the task dictionary of task_db.py they all write).                  *)
(*                                                                         *)
(* A local task is launched by the queue in a worker thread that starts a  *)
(* builder process and reports how it ended; a task for another machine,   *)
(* or an idea made into a task, waits until somebody accepts it over HTTP  *)
(* and reports it complete.  Meanwhile the builder asks questions, the PM  *)
(* answers and reviews, the operator cancels and force-fails, and the      *)
(* stuck-task detector sweeps over old observations.                       *)
(*                                                                         *)
(* A task's record has a state (v2_state) that only legal transitions      *)
(* change, and a legacy status that everybody writes.  Every write of a    *)
(* field copies the record, changes the copy and puts the whole copy back, *)
(* and three threads do so: the event loop, which runs one handler at a    *)
(* time, the task's worker thread, and the detector.  A handler is a guard *)
(* and the list of updates it leaves its thread to do; each update is two  *)
(* steps, Read and Write, and what another thread writes in between is     *)
(* lost.  Transitions hold the state machine's lock over both.             *)
(***************************************************************************)
EXTENDS Naturals, Sequences

CONSTANTS
    Message,      \* blocking messages: question, decision_gate, blocker
    MaxRequests,  \* bound on the HTTP requests explored
    MaxRestarts   \* bound on the restarts explored

ASSUME LifecycleAssumption == MaxRequests \in Nat /\ MaxRestarts \in Nat

VARIABLES
    task,        \* the record: its v2_state and its legacy status
    todo,        \* updates each writer has still to make
    copy,        \* the changed copy each writer is about to put back
    served,      \* HTTP requests served so far
    target,      \* the machine of the task
    queued,      \* it waits in the task queue
    thread,      \* where _run_claude_sync is
    process,     \* the builder's process; told: SIGTERM has been sent to it
    tracked,     \* _active_pids has its id
    message,     \* unsent, open or answered
    reviewing,   \* how many reviews are past the check of the status
    promoting,   \* how many promotions are past the check of the status
    subtasks,    \* none, some open, all ended: completed, or some of them failed
    sweep,       \* the detector has seen status "working"
    accepted,    \* history: how often it has been accepted
    offers,      \* history: how often it has been made pending
    reported,    \* history: an executor has reported it complete
    resolved,    \* history: the detector has found all subtasks ended
    archived,    \* history: it has been archived, or restored to the default list
    restored,    \* history: how often an old copy has put "pending" back
    restarts     \* restarts so far

record == <<task, todo, copy, served>>
run == <<queued, thread, process, tracked>>
requests == <<message, reviewing, promoting>>
history == <<accepted, offers, reported, resolved, archived, restored, restarts>>
vars == <<task, todo, copy, served, target, queued, thread, process, tracked,
          message, reviewing, promoting, subtasks, sweep, accepted, offers,
          reported, resolved, archived, restored, restarts>>

State == {"new", "analyzed", "planned", "running", "blocked", "failed_retryable",
          "escalated", "completed_unverified", "completed_verified", "persisted",
          "archived"}
Status == {"none", "idea", "pending", "working", "waiting_for_pm", "qa_review",
           "completed", "failed", "cancelled"}
Record == [v2_state : State, status : Status]
NoCopy == [v2_state |-> "", status |-> ""]

Writer == {"loop", "thread", "detector"}

\* An update: a transition, with the status its caller falls back to and the
\* transition that follows it; a status; or both at once, past the state machine.
Update == [kind : {"move", "set", "put"}, to : State \cup {""},
           status : Status \cup {""}, after : State \cup {""}]

\* preparing: worktree, prompt; spawned: process started, id not yet noted;
\* reading: its output is followed; reaped: it has ended, id not yet dropped.
Phase == {"none", "preparing", "spawned", "reading", "reaped"}

TypeOK ==
    /\ task \in Record
    /\ todo \in [Writer -> Seq(Update)]
    /\ copy \in [Writer -> Record \cup {NoCopy}]
    /\ target \in {"unset", "haze", "kush"}
    /\ queued \in BOOLEAN /\ thread \in Phase
    /\ process \in {"none", "alive", "told", "exit_0", "exit_1"}
    /\ tracked \in BOOLEAN /\ sweep \in BOOLEAN
    /\ message \in [Message -> {"unsent", "open", "answered"}]
    /\ reviewing \in Nat /\ promoting \in Nat /\ served \in 0 .. MaxRequests
    /\ subtasks \in {"none", "open", "completed", "failed"}
    /\ accepted \in Nat /\ offers \in Nat /\ restarts \in 0 .. MaxRestarts
    /\ reported \in BOOLEAN /\ resolved \in BOOLEAN
    /\ archived \in BOOLEAN /\ restored \in Nat

Init ==
    /\ task = [v2_state |-> "new", status |-> "none"]
    /\ todo = [w \in Writer |-> <<>>] /\ copy = [w \in Writer |-> NoCopy]
    /\ served = 0 /\ target = "unset" /\ queued = FALSE /\ thread = "none" /\ process = "none"
    /\ tracked = FALSE
    /\ message = [m \in Message |-> "unsent"]
    /\ reviewing = 0 /\ promoting = 0 /\ subtasks = "none" /\ sweep = FALSE
    /\ accepted = 0 /\ offers = 0 /\ reported = FALSE /\ resolved = FALSE
    /\ archived = FALSE /\ restored = 0 /\ restarts = 0

-----------------------------------------------------------------------------
(* Variants with one plausible bug each, used to test the properties.      *)

LegacyStatusIsState(s) == s

LegacyStatusForgetsRunning(s) ==
    CASE s \in {"failed_retryable", "escalated"} -> "failed"
      [] s \in {"completed_unverified", "completed_verified", "persisted", "archived"} ->
             "completed"
      [] OTHER -> "pending"

LegacyStatusForgetsFailed(s) ==
    CASE s \in {"new", "analyzed", "planned"} -> "pending"
      [] s \in {"running", "blocked"} -> "working"
      [] OTHER -> "completed"

DropTracked ==
    /\ tracked' = FALSE
    /\ UNCHANGED process

-----------------------------------------------------------------------------
(* The state machine and the record.                                       *)

ValidTransitions ==
    [s \in State |->
        CASE s = "new" -> {"analyzed", "running"}
          [] s = "analyzed" -> {"planned"}
          [] s = "planned" -> {"running"}
          [] s = "running" -> {"blocked", "failed_retryable", "completed_unverified"}
          [] s = "blocked" -> {"running", "failed_retryable"}
          [] s = "failed_retryable" -> {"analyzed", "running", "escalated"}
          [] s = "completed_unverified" ->
                 {"completed_verified", "failed_retryable", "archived"}
          [] s = "completed_verified" -> {"persisted"}
          [] s = "persisted" -> {"archived"}
          [] OTHER -> {}]

Legal(to) == to \in ValidTransitions[task.v2_state]

LegacyStatus(s) ==
    CASE s \in {"new", "analyzed", "planned"} -> "pending"
      [] s \in {"running", "blocked"} -> "working"
      [] s \in {"failed_retryable", "escalated"} -> "failed"
      [] OTHER -> "completed"

Set(s) == [kind |-> "set", to |-> "", status |-> s, after |-> ""]
Put(to, s) == [kind |-> "put", to |-> to, status |-> s, after |-> ""]
MoveThen(to, after, fallback) ==
    [kind |-> "move", to |-> to, status |-> fallback, after |-> after]
Move(to, fallback) == MoveThen(to, "", fallback)

\* A write of a field that is neither state nor status.
Touch == Set("")

\* What the validation that runs inside the transition to "completed_unverified"
\* moves on to: promoted, demoted, or left for a review.
Verdict == {"", "completed_verified", "failed_retryable"}

IsRunning == process \in {"alive", "told"}

\* Whoever finds the id in _active_pids sends SIGTERM and drops it.
KillTracked ==
    /\ process' = IF tracked /\ IsRunning THEN "told" ELSE process
    /\ tracked' = FALSE

IsFree(w) == todo[w] = <<>>
LoopIsFree == IsFree("loop")
ThreadIsFree == IsFree("thread")

Do(w, updates) ==
    /\ todo' = [todo EXCEPT ![w] = updates]
    /\ UNCHANGED <<task, copy, served>>

\* The loop takes up a request.
Serve(updates) ==
    /\ LoopIsFree
    /\ served < MaxRequests
    /\ served' = served + 1
    /\ todo' = [todo EXCEPT !["loop"] = updates]
    /\ UNCHANGED <<task, copy>>

\* Only a transition holds the state machine's lock.
Locked == \E w \in Writer : copy[w] # NoCopy /\ Head(todo[w]).kind = "move"

Changed(u) ==
    CASE u.kind = "move" -> [v2_state |-> u.to, status |-> LegacyStatus(u.to)]
      [] u.kind = "put" -> [v2_state |-> u.to, status |-> u.status]
      [] u.kind = "set" /\ u.status = "" -> task
      [] OTHER -> [task EXCEPT !.status = u.status]

Read(w) ==
    /\ ~IsFree(w) /\ copy[w] = NoCopy
    /\ LET u == Head(todo[w]) IN
         /\ u.kind = "move" => ~Locked /\ Legal(u.to)
         /\ copy' = [copy EXCEPT ![w] = Changed(u)]
    /\ UNCHANGED <<task, todo, served, target, run, requests, subtasks, sweep, history>>

\* A transition that is refused is logged, or the caller falls back.
Refuse(w) ==
    /\ ~IsFree(w) /\ copy[w] = NoCopy
    /\ LET u == Head(todo[w]) IN
         /\ u.kind = "move" /\ ~Locked /\ ~Legal(u.to)
         /\ todo' = [todo EXCEPT ![w] =
                        (IF u.status = "" THEN <<>> ELSE <<Set(u.status)>>) \o Tail(@)]
    /\ UNCHANGED <<task, copy, served, target, run, requests, subtasks, sweep, history>>

Write(w) ==
    /\ copy[w] # NoCopy
    /\ task' = copy[w]
    /\ copy' = [copy EXCEPT ![w] = NoCopy]
    /\ LET u == Head(todo[w]) IN
         todo' = [todo EXCEPT ![w] =
                    (IF u.after = "" THEN <<>> ELSE <<Move(u.after, "")>>) \o Tail(@)]
    /\ restored' = IF copy[w].status = "pending" /\ Head(todo[w]) = Touch /\ task.status # "pending"
                   THEN restored + 1 ELSE restored
    /\ UNCHANGED <<served, target, run, requests, subtasks, sweep, accepted, offers, reported,
                   resolved, archived, restarts>>

Writes(w) == Read(w) \/ Refuse(w) \/ Write(w)

-----------------------------------------------------------------------------
(* The handlers of the event loop.                                         *)

\* LeroyExecutor.execute: a local task goes to the queue.
Execute ==
    /\ task.status = "none"
    /\ task' = [task EXCEPT !.status = "pending"]
    /\ target' \in {"haze", "kush"}
    /\ queued' = (target' = "haze")
    /\ offers' = offers + 1
    /\ UNCHANGED <<todo, copy, served, thread, process, tracked, requests, subtasks,
                   sweep, accepted, reported, resolved, archived, restored, restarts>>

CreateIdea ==
    /\ task.status = "none"
    /\ task' = [task EXCEPT !.status = "idea"]
    /\ target' = "haze"
    /\ UNCHANGED <<todo, copy, served, run, requests, subtasks, sweep, history>>

\* The status is checked, then the body awaited.
PromoteBegin ==
    /\ Serve(<<>>)
    /\ task.status = "idea"
    /\ promoting' = promoting + 1
    /\ UNCHANGED <<target, run, message, reviewing, subtasks, sweep, history>>

Promote ==
    /\ LoopIsFree
    /\ promoting > 0
    /\ promoting' = promoting - 1
    /\ Do("loop", <<Set("pending")>>)
    /\ offers' = offers + 1
    /\ UNCHANGED <<target, run, message, reviewing, subtasks, sweep, accepted, reported,
                   resolved, archived, restored, restarts>>

Accept ==
    /\ task.status = "pending"
    /\ Serve(<<Move("running", ""), Set("working")>>)
    /\ accepted' = accepted + 1
    /\ UNCHANGED <<target, run, requests, subtasks, sweep, offers, reported, resolved,
                   archived, restored, restarts>>

\* tasks_complete checks nothing of the task; an executor whose answer got lost
\* reports again.
Complete ==
    /\ accepted > 0
    /\ \E verdict \in Verdict :
         Serve(<<MoveThen("completed_unverified", verdict, ""), Set("completed")>>)
    /\ reported' = TRUE
    /\ UNCHANGED <<target, run, requests, subtasks, sweep, accepted, offers, resolved,
                   archived, restored, restarts>>

AskForReview ==
    /\ accepted > 0
    /\ Serve(<<Set("qa_review")>>)
    /\ reported' = TRUE
    /\ UNCHANGED <<target, run, requests, subtasks, sweep, accepted, offers, resolved,
                   archived, restored, restarts>>

\* The status is checked, then the body awaited.
ReviewBegin ==
    /\ Serve(<<>>)
    /\ task.status = "qa_review"
    /\ reviewing' = reviewing + 1
    /\ UNCHANGED <<target, run, message, promoting, subtasks, sweep, history>>

Review ==
    /\ LoopIsFree
    /\ reviewing > 0
    /\ reviewing' = reviewing - 1
    /\ \/ Do("loop", <<Move("completed_verified", ""), Set("completed")>>)
       \/ Do("loop", <<Move("failed_retryable", ""), Set("failed")>>)
    /\ UNCHANGED <<target, run, message, promoting, subtasks, sweep, history>>

\* validate_task_criteria, which acts on a task of any status.
Validate ==
    /\ task.status # "none"
    /\ \E to \in {"completed_verified", "failed_retryable"} : Serve(<<Move(to, "")>>)
    /\ UNCHANGED <<target, run, requests, subtasks, sweep, history>>

\* task_cancel wants it pending, working or an idea; LeroyExecutor.cancel, the same
\* request of another protocol, takes any.  The queue and the run are not told.
Cancel ==
    /\ task.status # "none"
    /\ Serve(<<Set("cancelled")>>)
    /\ UNCHANGED <<target, run, requests, subtasks, sweep, history>>

\* task_archive and task_unarchive, for a task of any status; each writes two fields,
\* one after the other, and each write is a touch like this one.
Archive ==
    /\ task.status # "none"
    /\ Serve(<<Touch>>)
    /\ archived' = TRUE
    /\ UNCHANGED <<target, run, requests, subtasks, sweep, accepted, offers, reported,
                   resolved, restored, restarts>>

\* Kills what _active_pids knows of, and bypasses the state machine.
ForceFail ==
    /\ task.status # "none"
    /\ KillTracked
    /\ Serve(<<Put("escalated", "failed")>>)
    /\ UNCHANGED <<target, queued, thread, requests, subtasks, sweep, history>>

\* The builder, or whoever accepted the task, has posted a question; the process may
\* be gone when the server gets to it.
Ask(m) ==
    /\ process # "none" \/ accepted > 0
    /\ message[m] = "unsent"
    /\ message' = [message EXCEPT ![m] = "open"]
    /\ Serve(<<Move("blocked", ""), Set("waiting_for_pm")>>)
    /\ UNCHANGED <<target, run, reviewing, promoting, subtasks, sweep, history>>

\* The answer is stored; any answer releases the task.
Respond(m) ==
    /\ message[m] \in {"open", "answered"}
    /\ message' = [message EXCEPT ![m] = "answered"]
    /\ Serve(IF task.status = "waiting_for_pm"
                  THEN <<Move("running", ""), Set("working")>> ELSE <<>>)
    /\ UNCHANGED <<target, run, reviewing, promoting, subtasks, sweep, history>>

UpdateSubtasks ==
    /\ Serve(<<>>)
    /\ process # "none" \/ accepted > 0
    /\ subtasks' \in {"open", "completed", "failed"}
    /\ UNCHANGED <<target, run, requests, sweep, history>>

-----------------------------------------------------------------------------
(* The queue and _run_claude_sync.                                         *)

\* The slot was claimed for the thread before.
Launch ==
    /\ queued
    /\ queued' = FALSE
    /\ thread' = "preparing"
    /\ Do("thread", <<Move("running", "working")>>)
    /\ UNCHANGED <<target, process, tracked, requests, subtasks, sweep,
                   history>>

Spawn ==
    /\ ThreadIsFree
    /\ thread = "preparing"
    /\ thread' = "spawned"
    /\ process' = "alive"
    /\ UNCHANGED <<record, target, queued, tracked, requests, subtasks,
                   sweep, history>>

\* The specification has been written to the process: its id is noted.
Track ==
    /\ thread = "spawned"
    /\ thread' = "reading"
    /\ tracked' = TRUE
    /\ UNCHANGED <<record, target, queued, process, requests, subtasks,
                   sweep, history>>

\* Activity, progress, partial results.
NoteActivity ==
    /\ ThreadIsFree
    /\ thread = "reading"
    /\ Do("thread", <<Touch>>)
    /\ UNCHANGED <<target, run, requests, subtasks, sweep, history>>

\* The builder prints [BLOCKED].
ReportBlock ==
    /\ ThreadIsFree
    /\ thread = "reading"
    /\ Do("thread", <<Move("blocked", "")>>)
    /\ UNCHANGED <<target, run, requests, subtasks, sweep, history>>

ProcessEnds ==
    /\ IsRunning
    /\ process' \in {"exit_0", "exit_1"}
    /\ UNCHANGED <<record, target, queued, thread, tracked, requests,
                   subtasks, sweep, history>>

Reap ==
    /\ ThreadIsFree
    /\ thread = "reading"
    /\ ~IsRunning
    /\ thread' = "reaped"
    /\ UNCHANGED <<record, target, queued, process, tracked, requests,
                   subtasks, sweep, history>>

\* The id is dropped, and the outcome reported.
RunCompletes ==
    /\ thread = "reaped"
    /\ process = "exit_0"
    /\ thread' = "none"
    /\ tracked' = FALSE
    /\ \E verdict \in Verdict :
         Do("thread", <<MoveThen("completed_unverified", verdict, "completed")>>)
    /\ UNCHANGED <<target, queued, process, requests, subtasks, sweep, history>>

\* One run never exhausts the retry budget, so what the transition's handlers and
\* consume_retry write is neither state nor status.
Failure == <<Move("failed_retryable", "failed")>>

RunFails ==
    /\ thread = "reaped"
    /\ process = "exit_1"
    /\ thread' = "none"
    /\ tracked' = FALSE
    /\ Do("thread", Failure)
    /\ UNCHANGED <<target, queued, process, requests, subtasks, sweep, history>>

\* No output for too long, or the total time is up: the id is dropped, then the
\* process killed.
TimesOut ==
    /\ ThreadIsFree
    /\ thread = "reading"
    /\ thread' = "none"
    /\ tracked' = FALSE
    /\ process' = IF IsRunning THEN "exit_1" ELSE process
    /\ Do("thread", Failure)
    /\ UNCHANGED <<target, queued, requests, subtasks, sweep, history>>

\* Its output has ended and the process does not: it is told to, and not waited for.
GiveUp ==
    /\ ThreadIsFree
    /\ thread = "reading"
    /\ IsRunning
    /\ thread' = "none"
    /\ process' = "told"
    /\ tracked' = FALSE
    /\ Do("thread", Failure)
    /\ UNCHANGED <<target, queued, requests, subtasks, sweep, history>>

\* Any other exception: the process and its id are left as they are.
RunBreaks ==
    /\ ThreadIsFree
    /\ thread \in {"preparing", "spawned", "reading"}
    /\ thread' = "none"
    /\ Do("thread", Failure)
    /\ UNCHANGED <<target, queued, process, tracked, requests, subtasks,
                   sweep, history>>

-----------------------------------------------------------------------------
(* The stuck-task detector.                                                *)

SweepBegin ==
    /\ ~sweep /\ IsFree("detector")
    /\ task.status = "working"
    /\ sweep' = TRUE
    /\ UNCHANGED <<record, target, run, requests, subtasks, history>>

\* Check 1: all subtasks ended a while ago; a failed one counts like any other.
SweepResolve ==
    /\ sweep
    /\ subtasks \in {"completed", "failed"}
    /\ sweep' = FALSE
    /\ KillTracked
    /\ Do("detector", <<Set("completed")>>)
    /\ resolved' = TRUE
    /\ UNCHANGED <<target, queued, thread, requests, subtasks, accepted, offers,
                   reported, archived, restored, restarts>>

\* A child that ended exists until it is waited for.
ProcessIsGone ==
    /\ process \in {"exit_0", "exit_1"}
    /\ thread \notin {"spawned", "reading"}

\* Check 2: the id is that of no process.  The status the detector then assigns
\* goes to a copy that is never put back.
SweepDead ==
    /\ sweep
    /\ tracked
    /\ ProcessIsGone
    /\ sweep' = FALSE
    /\ tracked' = FALSE
    /\ Do("detector", <<Move("failed_retryable", "")>>)
    /\ UNCHANGED <<target, queued, thread, process, requests, subtasks, history>>

\* Check 3: a local task without a process id, subtasks or recent activity.
SweepOrphan ==
    /\ sweep
    /\ ~tracked
    /\ target = "haze"
    /\ subtasks = "none"
    /\ sweep' = FALSE
    /\ Do("detector", <<Set("failed"), Move("failed_retryable", "")>>)
    /\ UNCHANGED <<target, run, requests, subtasks, history>>

SweepNothing ==
    /\ sweep
    /\ sweep' = FALSE
    /\ UNCHANGED <<record, target, run, requests, subtasks, history>>

-----------------------------------------------------------------------------
\* The builder has a session of its own and survives; what was being done is not.
Restart ==
    /\ restarts < MaxRestarts
    /\ restarts' = restarts + 1
    /\ todo' = [w \in Writer |-> <<>>] /\ copy' = [w \in Writer |-> NoCopy]
    /\ queued' = FALSE /\ thread' = "none" /\ tracked' = FALSE /\ sweep' = FALSE
    /\ reviewing' = 0 /\ promoting' = 0
    /\ UNCHANGED <<task, served, target, process, message, subtasks, accepted, offers,
                   reported, resolved, archived, restored>>

-----------------------------------------------------------------------------
Executor == Accept \/ Complete \/ AskForReview \/ UpdateSubtasks

Operator ==
    \/ Execute \/ CreateIdea \/ PromoteBegin \/ Promote
    \/ ReviewBegin \/ Review \/ Validate \/ Cancel \/ Archive \/ ForceFail

Question == \E m \in Message : Ask(m) \/ Respond(m)

ThreadGoesOn ==
    \/ Launch \/ Spawn \/ Track \/ Reap \/ RunCompletes \/ RunFails \/ TimesOut \/ GiveUp

Run == ThreadGoesOn \/ NoteActivity \/ ReportBlock \/ ProcessEnds \/ RunBreaks

Detector == SweepBegin \/ SweepResolve \/ SweepDead \/ SweepOrphan \/ SweepNothing

Next ==
    \/ Executor \/ Operator \/ Question \/ Run \/ Detector \/ Restart
    \/ \E w \in Writer : Writes(w)

Spec == Init /\ [][Next]_vars

-----------------------------------------------------------------------------
(* Properties.                                                             *)

\* A task is handed to no more executors than it was offered for: two workers
\* that both see it pending cannot both accept it (routes_tasks.py:122), and no
\* transition, status or force-fail puts "pending" back.  Only a restart, which can cut
\* off an accept that has not been answered, and an old copy whose writer meant some
\* other field make up for the rest; and of those there is none unless the task has
\* been archived or restored (routes_tasks.py:444, 460).
AcceptedPerOffer ==
    /\ accepted <= offers + restarts + restored
    /\ restored > 0 => archived

ExitedWell == process = "exit_0"

\* Nothing counts as completed without evidence: a builder that exited with 0, an
\* executor's report, or - for the status only - subtasks that had all ended.  Those
\* may all have failed (server.py:128), whatever the comment at server.py:150 says.
CompletionEarned ==
    /\ task.v2_state \in {"completed_unverified", "completed_verified"}
           => ExitedWell \/ reported
    /\ task.status = "completed" => ExitedWell \/ reported \/ resolved

\* A builder whose output is followed can be stopped: its id is known, or it has
\* been told to end (_active_pids is the only way force-fail has to it).
BuilderCanBeStopped ==
    thread = "reading" /\ process = "alive" => tracked

\* What the operator force-failed stays escalated, whatever thread, executor, PM or
\* detector says of it afterwards: only a copy older than the force-fail can undo it
\* (routes_tasks.py:353 bypasses the state machine, which refuses the rest).
Escalated ==
    /\ task.v2_state = "escalated"
    /\ \A w \in Writer : copy[w].v2_state \in {"escalated", ""}

EscalatedStays == [][Escalated => Escalated']_vars

\* Inductive, and stronger than the invariants above: what the writers are about to
\* write has the evidence that what is written has (Honest), a review was asked for by
\* an executor (Reviewed), a record without status is one nobody has touched (Fresh),
\* a thread has one thing to do at a time (Orderly).
HonestUpdates ==
    {u \in Update :
        /\ u.status \notin {"none", "idea"}
        /\ u.status = "completed" => ExitedWell \/ reported \/ resolved
        /\ u.status = "qa_review" => reported
        /\ u.kind = "put" => u.to = "escalated" /\ u.status = "failed"
        /\ u.kind = "move" =>
             \/ u.to \in {"running", "blocked", "failed_retryable", "completed_verified"}
             \/ u.to = "completed_unverified" /\ (ExitedWell \/ reported)
        /\ u.after \in Verdict}

HonestRecords ==
    {r \in Record :
        /\ r.status # "none"
        /\ r.v2_state \in {"completed_unverified", "completed_verified"}
               => ExitedWell \/ reported
        /\ r.status = "completed" => ExitedWell \/ reported \/ resolved
        /\ r.status = "qa_review" => reported}

Honest ==
    \A w \in Writer :
        /\ todo[w] \in Seq(HonestUpdates)
        /\ copy[w] \in HonestRecords \cup {NoCopy}
        /\ todo[w] = <<>> => copy[w] = NoCopy

Reviewed ==
    /\ task.status = "qa_review" => reported
    /\ reviewing > 0 => reported

Fresh ==
    task.status = "none" =>
        /\ ~queued /\ thread = "none" /\ process = "none" /\ ~sweep
        /\ accepted = 0 /\ promoting = 0 /\ reviewing = 0
        /\ message = [m \in Message |-> "unsent"]
        /\ todo = [w \in Writer |-> <<>>]

Orderly ==
    /\ queued => thread = "none" /\ process = "none" /\ ThreadIsFree
    /\ thread = "preparing" => process = "none"
    /\ thread \in {"spawned", "reaped"} => ThreadIsFree
    /\ sweep => IsFree("detector")

LifecycleInv ==
    CompletionEarned /\ BuilderCanBeStopped /\ Honest /\ Reviewed /\ Fresh /\ Orderly

\* Inductive with it, and stronger than AcceptedPerOffer.  Only a promotion makes a task
\* pending again, and only the loop makes promotions, one update at a time (PlainUpdates
\* are all the others); a touch puts back the status it read, but unless the task was
\* archived only a run touches, and no run or promotion goes on while the other does
\* (RunsAlone, Started).  So whoever finds the task pending finds an offer nobody has
\* taken, or a loop that is taking it.
PlainUpdates ==
    {u \in Update :
        /\ u.status \notin {"pending", "idea"}
        /\ u.kind # "move" => u.status # ""
        /\ u.to \notin {"new", "analyzed", "planned"}
        /\ u.after \in Verdict}

Promotion == <<Set("pending")>>
Acceptance == {<<Move("running", ""), Set("working")>>, <<Set("working")>>}
Start == {<<Move("running", "working")>>, <<Set("working")>>}

OnlyPromotionOffers ==
    /\ todo["loop"] \in Seq(PlainUpdates) \cup {Promotion, <<Touch>>}
    /\ todo["thread"] \in Seq(PlainUpdates) \cup {<<Touch>>}
    /\ todo["detector"] \in Seq(PlainUpdates)
    /\ todo["loop"] = <<Touch>> => archived
    /\ todo["thread"] = <<Touch>> => thread # "none"
    /\ \A w \in Writer :
          /\ copy[w].status = "idea" => w = "loop" /\ todo["loop"] = <<Touch>>
          /\ copy[w].status = "pending" =>
                (w = "loop" /\ todo["loop"] = Promotion) \/ (todo[w] = <<Touch>> /\ archived)

RunsAlone ==
    queued \/ thread # "none" =>
        /\ task.status # "idea" /\ promoting = 0
        /\ todo["loop"] # Promotion /\ copy["loop"].status # "idea"

Started ==
    thread # "none" /\ ~archived => task.status # "pending" \/ todo["thread"] \in Start

OfferLeft == accepted < offers + restarts + restored

OffersInv ==
    /\ AcceptedPerOffer
    /\ OnlyPromotionOffers /\ RunsAlone /\ Started
    /\ task.status = "pending" => OfferLeft \/ todo["loop"] \in Acceptance
    /\ todo["loop"] = Promotion => OfferLeft

=============================================================================
