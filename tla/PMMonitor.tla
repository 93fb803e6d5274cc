------------------------------ MODULE PMMonitor ------------------------------
(***************************************************************************)
(* The PM's monitor (monitor/pm_monitor.py) and the part of the server it  *)
(* polls.  Every cycle it reads the pending messages of the PM, the tasks  *)
(* and the approved proposals, turns what is new into triggers and works   *)
(* the triggers off in order: some only leave a note, the others start a   *)
(* headless PM session, at most MaxSpawns of them in an hour.  What it has *)
(* seen and handled is kept in memory and written to a file at the end of  *)
(* a cycle; launchd starts the monitor again when it dies.                 *)
(***************************************************************************)
EXTENDS Naturals, Sequences, FiniteSets, Functions, FiniteSetsExt

CONSTANTS Messages,    \* messages to the PM that ask for a response
          Tasks,       \* build tasks
          Proposals,   \* specs a headless PM proposes
          ProposalLimit, \* how many proposals the server lists, the newest first
          MaxSpawns,   \* PM_MONITOR_MAX_SPAWNS
          Hour,        \* the rate limit's window, in ticks of the clock
          HandledCap,  \* how many handled triggers are remembered (500)
          MaxTroubles  \* bound: deaths, failed requests, spawns and saves

Keys == Messages \cup Tasks \cup Proposals

ASSUME MonitorAssumption ==
  /\ MaxSpawns \in Nat \ {0} /\ Hour \in Nat \ {0} /\ HandledCap \in Nat \ {0}
  /\ MaxTroubles \in Nat /\ ProposalLimit \in Nat \ {0}
  /\ Messages \cap (Tasks \cup Proposals) = {}
  /\ Tasks \cap Proposals = {}

VARIABLES
  msg,       \* the bus: messages to the PM that ask for a response
  tier2,     \* those of type "blocker" or "decision_gate", which wait for Brad
  task,      \* the server's tasks, "none" before they are created
  qaSpec,    \* the build tasks a QA spec refers to
  prop,      \* the proposals
  created,   \* the proposals in the order they were created in
  mem,       \* the monitor's state in memory
  file,      \* the state file, Fresh when it is absent or unreadable
  pc,        \* where the monitor is in its cycle
  triggers,  \* the triggers collected and not processed yet
  started,   \* history: the sessions this life of the monitor started, by age
  runs,      \* history: how often a trigger started a session, up to 2
  forgotten, \* history: handled triggers dropped from the list, or lost in a crash
  troubles

server  == <<msg, tier2, task, qaSpec, prop, created>>
history == <<started, runs, forgotten>>
monitorVars    == <<server, mem, file, pc, triggers, history, troubles>>

Ended    == {"completed", "failed", "cancelled"}
Ages     == 0 .. Hour - 1
NoSpawns == [a \in Ages |-> 0]
Fresh == [seen |-> {}, statuses |-> [t \in Tasks |-> "none"],
          spawns |-> NoSpawns, handled |-> <<>>]
----------------------------------------------------------------------------
(* The server, as far as the monitor sees it. *)

(* A message to the PM that asks for a response, and its answer. *)
Ask(m)    == msg[m] = "none" /\ msg' = [msg EXCEPT ![m] = "pending"]
             /\ UNCHANGED <<task, qaSpec, prop, created>>
Answer(m) == msg[m] = "pending" /\ msg' = [msg EXCEPT ![m] = "answered"]
             /\ UNCHANGED <<task, qaSpec, prop, created>>

(* A task is created and ends; a QA spec for it is sent by whoever was told. *)
TaskMoves(t) ==
  /\ \/ task[t] = "none" /\ task' = [task EXCEPT ![t] = "pending"]
     \/ task[t] = "pending" /\ \E s \in Ended : task' = [task EXCEPT ![t] = s]
  /\ UNCHANGED <<msg, qaSpec, prop, created>>
SendQASpec(t) == /\ task[t] = "completed" /\ t \notin qaSpec
                 /\ qaSpec' = qaSpec \cup {t}
                 /\ UNCHANGED <<msg, task, prop, created>>

(* A proposal is created, approved, rejected; neither of the last two looks *)
(* at the status the proposal has.                                          *)
Propose(p) == prop[p] = "none" /\ prop' = [prop EXCEPT ![p] = "pending"]
              /\ created' = Append(created, p) /\ UNCHANGED <<msg, task, qaSpec>>
Approve(p) == prop[p] \notin {"none", "approved"}
              /\ prop' = [prop EXCEPT ![p] = "approved"]
              /\ UNCHANGED <<msg, task, qaSpec, created>>
Reject(p)  == prop[p] \notin {"none", "rejected"}
              /\ prop' = [prop EXCEPT ![p] = "rejected"]
              /\ UNCHANGED <<msg, task, qaSpec, created>>

Server == /\ \/ \E m \in Messages : Ask(m) \/ Answer(m)
             \/ \E t \in Tasks : TaskMoves(t) \/ SendQASpec(t)
             \/ \E p \in Proposals : Propose(p) \/ Approve(p) \/ Reject(p)
          /\ UNCHANGED <<tier2, mem, file, pc, triggers, history, troubles>>
----------------------------------------------------------------------------
(* Start-up: the state file is read, and what a first run finds is taken as *)
(* old: the tasks when the state knows of none, the messages when it has    *)
(* seen none.  A snapshot is saved.                                         *)
SnapshotTasks(s) ==
  IF \A t \in Tasks : s.statuses[t] = "none" THEN [s EXCEPT !.statuses = task] ELSE s
SnapshotMessages(s) ==
  IF s.seen = {} THEN [s EXCEPT !.seen = {m \in Messages : msg[m] # "none"}] ELSE s

Start ==
  /\ pc = "down"
  /\ mem' = SnapshotMessages(SnapshotTasks(file)) /\ file' = mem'
  /\ started' = NoSpawns
  /\ pc' = "sleep"
  /\ UNCHANGED <<server, triggers, runs, forgotten, troubles>>

(* The server is down when the monitor starts: nothing is taken as old. *)
StartUnreached ==
  /\ pc = "down" /\ troubles < MaxTroubles
  /\ troubles' = troubles + 1
  /\ mem' = file /\ started' = NoSpawns /\ pc' = "sleep"
  /\ UNCHANGED <<server, file, triggers, runs, forgotten>>

Wake == /\ pc = "sleep"
        /\ pc' = "messages" /\ triggers' = <<>>
        /\ UNCHANGED <<server, mem, file, history, troubles>>

NextCheck == [messages |-> "unread", unread |-> "tasks",
              tasks |-> "proposals", proposals |-> "process"]

(* A request that fails yields nothing, and the cycle goes on. *)
FetchFails ==
  /\ pc \in DOMAIN NextCheck /\ troubles < MaxTroubles
  /\ troubles' = troubles + 1 /\ pc' = NextCheck[pc]
  /\ UNCHANGED <<server, mem, file, triggers, history>>

IsHandled(k) == k \in Range(mem.handled)

(* The lists of the server come in some order. *)
Listed(S) == {q \in [1 .. Cardinality(S) -> S] : Range(q) = S}

(* A message is seen once it is listed, whatever becomes of its trigger. *)
CheckPendingMessages ==
  /\ pc = "messages"
  /\ LET new == {m \in Messages : msg[m] = "pending"} \ mem.seen
     IN  /\ mem' = [mem EXCEPT !.seen = @ \cup new]
         /\ \E q \in Listed({m \in new : ~IsHandled(m)}) : triggers' = q
  /\ pc' = "unread"
  /\ UNCHANGED <<server, file, history, troubles>>

(* An answered message the PM has not read is seen without a trigger. *)
CheckUnreadMessages ==
  /\ pc = "unread"
  /\ \E S \in SUBSET {m \in Messages : msg[m] = "answered"} :
       mem' = [mem EXCEPT !.seen = @ \cup S]
  /\ pc' = "tasks"
  /\ UNCHANGED <<server, file, triggers, history, troubles>>

LastOf(q, n)   == SubSeq(q, Len(q) - Min({n, Len(q)}) + 1, Len(q))
Handled(h, q)  == LastOf(h \o q, HandledCap)
MarkHandled(q) ==
  /\ mem' = [mem EXCEPT !.handled = Handled(@, q)]
  /\ forgotten' = forgotten \cup (Range(mem.handled) \ Range(mem'.handled))

(* A completed build that has a QA spec is only marked; one without, and a *)
(* failed task, become triggers.  The statuses are remembered for all.     *)
CheckTaskChanges ==
  /\ pc = "tasks"
  /\ LET new  == {t \in Tasks : /\ task[t] # mem.statuses[t]
                                /\ task[t] \in {"completed", "failed"}
                                /\ ~IsHandled(t)}
         done == {t \in new : task[t] = "completed" /\ t \in qaSpec}
     IN  /\ \E q \in Listed(new \ done) : triggers' = triggers \o q
         /\ \E q \in Listed(done) :
              mem' = [mem EXCEPT !.statuses = task, !.handled = Handled(@, q)]
         /\ forgotten' = forgotten \cup
                         ((Range(mem.handled) \cup done) \ Range(mem'.handled))
  /\ pc' = "proposals"
  /\ UNCHANGED <<server, file, started, runs, troubles>>

(* GET /pm/proposals?status=approved lists the newest of them; what was      *)
(* executed stays approved, and so keeps its place in the list.             *)
CreatedAfter(p, q) == \E i, j \in DOMAIN created : i > j /\ created[i] = p /\ created[j] = q
Approved == {p \in Proposals : prop[p] = "approved"}
NewestApproved ==
  {p \in Approved : Cardinality({q \in Approved : CreatedAfter(q, p)}) < ProposalLimit}

(* Variant with a bug: a proposal is marked when it is collected. *)
CheckApprovedProposalsMarks ==
  /\ pc = "proposals"
  /\ \E q \in Listed({p \in NewestApproved : ~IsHandled(p)}) :
       /\ triggers' = triggers \o q
       /\ mem' = [mem EXCEPT !.handled = Handled(@, q)]
  /\ forgotten' = forgotten \cup (Range(mem.handled) \ Range(mem'.handled))
  /\ pc' = "process"
  /\ UNCHANGED <<server, file, started, runs, troubles>>

(* An approved proposal that is listed is a trigger in every cycle until it *)
(* is handled.                                                              *)
CheckApprovedProposals ==
  /\ pc = "proposals"
  /\ \E q \in Listed({p \in NewestApproved : ~IsHandled(p)}) :
       triggers' = triggers \o q
  /\ pc' = "process"
  /\ UNCHANGED <<server, mem, file, history, troubles>>
----------------------------------------------------------------------------
(* The triggers are worked off in order. *)
Total(spawns) == Cardinality(UNION {{a} \X (1 .. spawns[a]) : a \in Ages})
CanSpawnOneMore == Total(mem.spawns) <= MaxSpawns  \* variant with a bug
CanSpawn      == Total(mem.spawns) < MaxSpawns
Processing    == pc = "process" /\ triggers # <<>>

QueueForBrad ==
  /\ Processing /\ Head(triggers) \in tier2
  /\ MarkHandled(<<Head(triggers)>>)
  /\ triggers' = Tail(triggers)
  /\ UNCHANGED <<server, file, pc, started, runs, troubles>>

(* The rest of the triggers is dropped with the one that is limited. *)
RateLimited ==
  /\ Processing /\ Head(triggers) \notin tier2 /\ ~CanSpawn
  /\ triggers' = <<>>
  /\ UNCHANGED <<server, mem, file, pc, history, troubles>>

SpawnHeadlessPM ==
  /\ Processing /\ Head(triggers) \notin tier2 /\ CanSpawn
  /\ LET k == Head(triggers)
         h == Handled(mem.handled, <<k>>)
     IN  /\ mem' = [mem EXCEPT !.spawns[0] = @ + 1, !.handled = h]
         /\ forgotten' = forgotten \cup (Range(mem.handled) \ Range(h))
         /\ runs' = [runs EXCEPT ![k] = Min({2, @ + 1})]
         /\ started' = [started EXCEPT ![0] = @ + 1]
  /\ triggers' = Tail(triggers)
  /\ UNCHANGED <<server, file, pc, troubles>>

(* A session that cannot be started leaves a note, and is not handled. *)
SpawnFails ==
  /\ Processing /\ Head(triggers) \notin tier2 /\ CanSpawn /\ troubles < MaxTroubles
  /\ troubles' = troubles + 1
  /\ triggers' = Tail(triggers)
  /\ UNCHANGED <<server, mem, file, pc, history>>

SaveState ==
  /\ pc = "process" /\ triggers = <<>>
  /\ pc' = "sleep"
  /\ \/ file' = mem /\ UNCHANGED troubles
     \/ troubles < MaxTroubles /\ troubles' = troubles + 1 /\ UNCHANGED file
  /\ UNCHANGED <<server, mem, triggers, history>>

(* The monitor dies: between two steps, or while it writes the file, which  *)
(* is then unreadable.  An interrupt in a cycle saves what there is.        *)
Die ==
  /\ pc # "down" /\ troubles < MaxTroubles
  /\ troubles' = troubles + 1
  /\ \/ UNCHANGED file
     \/ pc = "process" /\ triggers = <<>> /\ file' = Fresh
     \/ pc # "sleep" /\ file' = mem
  /\ pc' = "down" /\ triggers' = <<>>
  /\ forgotten' = forgotten \cup (Range(mem.handled) \ Range(file'.handled))
  /\ UNCHANGED <<server, mem, started, runs>>

(* Time passes: a session started an hour ago is not counted any more. *)
OlderThanHour(spawns) == [a \in 0 .. Hour |-> IF a = 0 THEN 0 ELSE spawns[a - 1]]  \* variant with a bug
Older(spawns) == [a \in Ages |-> IF a = 0 THEN 0 ELSE spawns[a - 1]]
Tick ==
  /\ mem' = [mem EXCEPT !.spawns = Older(@)]
  /\ file' = [file EXCEPT !.spawns = Older(@)]
  /\ started' = Older(started)
  /\ UNCHANGED <<server, pc, triggers, runs, forgotten, troubles>>
----------------------------------------------------------------------------
MonitorInit ==
  /\ msg = [m \in Messages |-> "none"] /\ tier2 \in SUBSET Messages
  /\ task = [t \in Tasks |-> "none"] /\ qaSpec = {}
  /\ prop = [p \in Proposals |-> "none"] /\ created = <<>>
  /\ mem = Fresh /\ file = Fresh /\ pc = "down" /\ triggers = <<>>
  /\ started = NoSpawns /\ runs = [k \in Keys |-> 0]
  /\ forgotten = {}
  /\ troubles = 0

Cycle == \/ Start \/ Wake \/ CheckPendingMessages \/ CheckUnreadMessages
         \/ CheckTaskChanges \/ CheckApprovedProposals
         \/ QueueForBrad \/ RateLimited \/ SpawnHeadlessPM \/ SaveState

MonitorNext == Server \/ Cycle \/ StartUnreached \/ FetchFails \/ SpawnFails \/ Die \/ Tick

(* The monitor's loop never stops by itself, and launchd restarts it.  The *)
(* server owes it nothing.                                                 *)
MonitorFairness == WF_monitorVars(Cycle) /\ WF_monitorVars(Tick)
MonitorSpec == MonitorInit /\ [][MonitorNext]_monitorVars /\ MonitorFairness
----------------------------------------------------------------------------
MemOK == [seen : SUBSET Messages,
          statuses : [Tasks -> {"none", "pending"} \cup Ended],
          spawns : [Ages -> Nat], handled : Seq(Keys)]

MonitorTypeOK ==
  /\ msg \in [Messages -> {"none", "pending", "answered"}] /\ tier2 \subseteq Messages
  /\ task \in [Tasks -> {"none", "pending"} \cup Ended] /\ qaSpec \subseteq Tasks
  /\ prop \in [Proposals -> {"none", "pending", "approved", "rejected"}]
  /\ created \in Seq(Proposals)
  /\ mem \in MemOK /\ file \in MemOK
  /\ pc \in {"down", "sleep", "process"} \cup DOMAIN NextCheck
  /\ triggers \in Seq(Keys)
  /\ started \in [Ages -> Nat] /\ runs \in [Keys -> 0 .. 2]
  /\ forgotten \subseteq Keys
  /\ troubles \in 0 .. MaxTroubles

(* However often requests, spawns and saves fail, one life of the monitor   *)
(* never starts more than MaxSpawns sessions in an hour (_can_spawn); and no *)
(* trigger starts two sessions, across all its lives, unless its mark fell   *)
(* off the bounded list or was lost with a crash (_is_handled,               *)
(* _mark_handled, _save_state).                                              *)
RateLimit   == Total(started) <= MaxSpawns
HandledOnce == \A k \in Keys : runs[k] > 1 => k \in forgotten
SpawnDiscipline == RateLimit /\ HandledOnce

(* Inductive, with MonitorTypeOK: what counts against this life's sessions   *)
(* includes them, and neither state counts more than MaxSpawns; a trigger    *)
(* that started a session is among the handled ones, in memory or, while the *)
(* monitor is down, in the file, or was forgotten; the triggers not processed *)
(* yet are different ones, not handled, of the checks made so far; and the   *)
(* server's lists are finite.                                                *)
Counted == /\ \A a \in Ages : started[a] <= mem.spawns[a]
           /\ Total(mem.spawns) <= MaxSpawns /\ Total(file.spawns) <= MaxSpawns
Remembering == \A k \in Keys : runs[k] > 0 =>
                 k \in forgotten \cup Range((IF pc = "down" THEN file ELSE mem).handled)
Collected == CASE pc \in {"unread", "tasks"} -> Messages
               [] pc = "proposals" -> Messages \cup Tasks
               [] pc = "process" -> Keys
               [] OTHER -> {}
Outstanding == /\ IsInjective(triggers) /\ Range(triggers) \subseteq Collected
               /\ Range(triggers) \cap Range(mem.handled) = {}
ServerIsFinite == /\ IsFiniteSet({m \in Messages : msg[m] # "none"})
                  /\ IsFiniteSet({t \in Tasks : task[t] # "none"})
                  /\ IsFiniteSet({p \in Proposals : prop[p] # "none"})
MonitorInv == ServerIsFinite /\ Counted /\ Remembering /\ Outstanding /\ SpawnDiscipline

(* An approved proposal is executed in the end, although the rate limit      *)
(* drops triggers and requests, spawns and saves fail, as long as it is      *)
(* listed: until its approval is withdrawn, or ProposalLimit newer ones are  *)
(* approved, which are listed in its place for ever (_check_approved_        *)
(* proposals, _process_triggers; proposals_list).                            *)
ApprovalsRun ==
  \A p \in Proposals : p \in NewestApproved ~> runs[p] > 0 \/ p \notin NewestApproved
=============================================================================
