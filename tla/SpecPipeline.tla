---------------------------- MODULE SpecPipeline ----------------------------
(***************************************************************************)
(* How the PM's tools send a specification and close it (leroy_send_spec   *)
(* and leroy_update_spec in mcp/leroy_client.py).  Every PM session runs   *)
(* a client of its own; the clients share the directory of spec files, the *)
(* table of plans and the server.  A send goes through its gates, records  *)
(* a plan, saves a file under a name that is free, posts the spec, and     *)
(* writes the task's id into plan and file.  Closing a task looks for the  *)
(* file with its id.                                                       *)
(***************************************************************************)
EXTENDS Naturals, Sequences, FiniteSets

CONSTANTS Clients,     \* PM sessions, each with its own MCP client
          Slugs,       \* a day's slugs: numbers, as names are compared
          CheckedSlugs,\* the slugs of specs that need a machine or a service
          MaxSends,    \* bound: sends begun
          Window,      \* how many files the retro gate looks at (20)
          MaxUnlucky   \* bound: failed calls and deaths of clients

ASSUME SpecAssumption ==
  /\ Slugs \subseteq Nat /\ CheckedSlugs \subseteq Slugs
  /\ MaxSends \in Nat /\ Window \in Nat \ {0} /\ MaxUnlucky \in Nat

SendIds == 1 .. MaxSends                  \* a send is its spec's text
Names   == Slugs \X SendIds               \* <<slug, counter>>

VARIABLES
  sends,     \* how many sends were begun
  slug,      \* the slug of each send's spec
  files,     \* the spec files
  plans,     \* the plans, by the send that made them
  tasks,     \* the server's tasks
  step,      \* where each client is
  own,       \* the send each client is busy with
  path,      \* the name each client chose
  got,       \* the id of the task the server answered with
  clashed,   \* history: names two clients chose at the same time
  adrift,    \* history: sends whose answer or whose client was lost
  forced,    \* the sends whose subject overrides the gates
  early,     \* history: sends whose task ended before its plan was linked
  unlucky

specVars == <<sends, slug, files, plans, tasks, step, own, path, got, clashed,
              adrift, early, forced, unlucky>>
shared   == <<files, plans, tasks>>
books    == <<clashed, adrift, early, forced>>

NoFile == [spec |-> 0, task |-> 0, status |-> "none", retro |-> "none"]
NoPlan == [task |-> 0, status |-> "none"]
Exists(n) == files[n] # NoFile
----------------------------------------------------------------------------
(* The server takes tasks up.  The handlers of a running task's end write   *)
(* it into the plan, if there is one with the task's id.                    *)
Works(t) ==
  /\ tasks[t].status \in {"pending", "ended_past"}
  /\ tasks' = [tasks EXCEPT ![t].status = "working"]
  /\ UNCHANGED <<sends, slug, files, plans, step, own, path, got, books, unlucky>>

PlansOf(t) == {p \in SendIds : plans[p].task = t}
TaskEnds(t, s) ==
  /\ tasks[t].status \in {"working", "ended_past"}
  /\ tasks' = [tasks EXCEPT ![t].status = s]
  /\ plans' = [p \in SendIds |-> IF p \in PlansOf(t)
                 THEN [plans[p] EXCEPT !.status = IF s = "completed"
                                                    THEN "completed_unverified" ELSE s]
                 ELSE plans[p]]
  /\ early' = IF PlansOf(t) = {} THEN early \cup {tasks[t].spec} ELSE early
  /\ UNCHANGED <<sends, slug, files, step, own, path, got, clashed, adrift, forced, unlucky>>

(* Whatever else ends a task writes its status and no plan: a force-fail, a *)
(* cancel, a completion that the state machine refuses or that asks for a   *)
(* QA review, the end of a run that was blocked, the failure of a           *)
(* container.  "ended_past" stands for what they write.  How they leave the *)
(* task's state is not modelled: it may be taken up, or end, after that.    *)
EndsPast(t) ==
  /\ tasks' = [tasks EXCEPT ![t].status = "ended_past"]
  /\ UNCHANGED <<sends, slug, files, plans, step, own, path, got, books, unlucky>>

Server == \E t \in DOMAIN tasks :
            \/ Works(t) \/ EndsPast(t)
            \/ \E s \in {"completed", "failed"} : TaskEnds(t, s)
----------------------------------------------------------------------------
Unlucky == unlucky < MaxUnlucky /\ unlucky' = unlucky + 1
Moves(c, from, to) == step[c] = from /\ step' = [step EXCEPT ![c] = to]

(* The names in descending order: the newest day, within it by slug, and of *)
(* one slug the name without a counter first, then "-9" down to "-2".       *)
Above(m, n) == \/ m[1] > n[1]
               \/ m[1] = n[1] /\ n[2] # 1 /\ (m[2] = 1 \/ m[2] > n[2])
Recent == {n \in Names : /\ Exists(n)
                         /\ Cardinality({m \in Names : Exists(m) /\ Above(m, n)}) < Window}
RetroDebt == {n \in Recent : files[n].status = "completed" /\ files[n].retro # "written"}

(* "Retro gate": a send is blocked unless its subject overrides the gate.   *)
PassesRetroGate(override) == override \/ RetroDebt = {}
RetroGate(c) ==
  /\ sends < MaxSends
  /\ \E g \in Slugs, override \in BOOLEAN :
       /\ PassesRetroGate(override)
       /\ slug' = [slug EXCEPT ![sends + 1] = g]
       /\ forced' = IF override THEN forced \cup {sends + 1} ELSE forced
  /\ Moves(c, "idle", "gates")
  /\ sends' = sends + 1 /\ own' = [own EXCEPT ![c] = sends + 1]
  /\ UNCHANGED <<shared, path, got, clashed, adrift, early, unlucky>>

(* The other gates: time since the PM's last persist, preflight, and tasks  *)
(* with the same subject that are being worked on.  When the tasks cannot   *)
(* be listed, or the gate is overridden, a duplicate passes.                *)
Duplicate(s) == \E t \in DOMAIN tasks : /\ tasks[t].status = "working"
                                        /\ slug[tasks[t].spec] = slug[s]
OtherGates(c) ==
  /\ step[c] = "gates"
  /\ \/ /\ ~Duplicate(own[c]) /\ Moves(c, "gates", "plan")
        /\ UNCHANGED <<own, unlucky>>
     \/ /\ Duplicate(own[c]) /\ Moves(c, "gates", "plan")
        /\ IF own[c] \in forced THEN UNCHANGED unlucky ELSE Unlucky
        /\ UNCHANGED own
     \/ /\ Moves(c, "gates", "idle") /\ own' = [own EXCEPT ![c] = 0]
        /\ UNCHANGED unlucky
  /\ UNCHANGED <<sends, slug, shared, path, got, books>>

(* Making the plan of a spec with preflight checks raises: a later import   *)
(* makes json a local name that has no value yet.  Without a plan the send  *)
(* goes on.                                                                 *)
PlanIsMade(s) == slug[s] \notin CheckedSlugs
CreatePlan(c) ==
  /\ Moves(c, "plan", "name")
  /\ plans' = IF PlanIsMade(own[c])
                THEN [plans EXCEPT ![own[c]].status = "draft"] ELSE plans
  /\ UNCHANGED <<sends, slug, files, tasks, own, path, got, books, unlucky>>

UniqueNameIsSlug(g, k) == k = 1  \* variant with a bug

(* The first name of the slug that is not taken. *)
UniqueName(g, k) == /\ ~Exists(<<g, k>>)
                    /\ \A i \in 1 .. k - 1 : Exists(<<g, i>>)
ChooseName(c) ==
  /\ Moves(c, "name", "save")
  /\ \E k \in SendIds : /\ UniqueName(slug[own[c]], k)
                        /\ path' = [path EXCEPT ![c] = <<slug[own[c]], k>>]
  /\ clashed' = IF \E d \in Clients \ {c} : step[d] # "idle" /\ path[d] = path'[c]
                  THEN clashed \cup {path'[c]} ELSE clashed
  /\ UNCHANGED <<sends, slug, shared, own, got, adrift, early, forced, unlucky>>

SaveFile(c) ==
  /\ Moves(c, "save", "post")
  /\ files' = [files EXCEPT ![path[c]] =
                 [spec |-> own[c], task |-> 0, status |-> "sent", retro |-> "pending"]]
  /\ UNCHANGED <<sends, slug, plans, tasks, own, path, got, books, unlucky>>

(* The post fails, before or after the server made the task: the file and   *)
(* the plan stay as they are.                                               *)
NewTask(s) == tasks' = Append(tasks, [spec |-> s, status |-> "pending"])
PostSpec(c) ==
  /\ \/ /\ Moves(c, "post", "linkPlan") /\ NewTask(own[c])
        /\ got' = [got EXCEPT ![c] = Len(tasks')]
        /\ UNCHANGED <<own, path, adrift, unlucky>>
     \/ /\ Unlucky /\ Moves(c, "post", "idle")
        /\ NewTask(own[c]) \/ UNCHANGED tasks
        /\ adrift' = adrift \cup {own[c]}
        /\ own' = [own EXCEPT ![c] = 0] /\ path' = [path EXCEPT ![c] = <<>>]
        /\ UNCHANGED got
  /\ UNCHANGED <<sends, slug, files, plans, clashed, early, forced>>

(* link_task: the plan is "sent" from now on. *)
Linked(p, t) == IF p.status = "none" THEN p ELSE [task |-> t, status |-> "sent"]
LinkPlan(c) ==
  /\ Moves(c, "linkPlan", "linkFile")
  /\ plans' = [plans EXCEPT ![own[c]] = Linked(@, got[c])]
  /\ UNCHANGED <<sends, slug, files, tasks, own, path, got, books, unlucky>>

(* Variant with a bug: the id goes to the slug's first file. *)
LinkFileOfSlug(c) ==
  /\ Moves(c, "linkFile", "idle")
  /\ files' = [files EXCEPT ![<<slug[own[c]], 1>>].task = got[c]]
  /\ own' = [own EXCEPT ![c] = 0] /\ path' = [path EXCEPT ![c] = <<>>]
  /\ got' = [got EXCEPT ![c] = 0]
  /\ UNCHANGED <<sends, slug, plans, tasks, books, unlucky>>

LinkFile(c) ==
  /\ Moves(c, "linkFile", "idle")
  /\ files' = [files EXCEPT ![path[c]].task = got[c]]
  /\ own' = [own EXCEPT ![c] = 0] /\ path' = [path EXCEPT ![c] = <<>>]
  /\ got' = [got EXCEPT ![c] = 0]
  /\ UNCHANGED <<sends, slug, plans, tasks, books, unlucky>>

(* leroy_update_spec: the PM closes a task with a word and a text that    *)
(* may be blank; first the file with the task's id, then the plan.          *)
UpdateSpec(c, t, word, retro) ==
  /\ step[c] = "idle"
  /\ \E n \in Names :
       /\ files[n].task = t
       /\ files' = [files EXCEPT ![n].status = word, ![n].retro = retro]
  /\ plans' = [p \in SendIds |-> IF p \in PlansOf(t)
                 THEN [plans[p] EXCEPT !.status = word] ELSE plans[p]]
  /\ UNCHANGED <<sends, slug, tasks, step, own, path, got, books, unlucky>>

ClientDies(c) ==
  /\ step[c] # "idle" /\ Unlucky
  /\ step' = [step EXCEPT ![c] = "idle"]
  /\ adrift' = adrift \cup {own[c]}
  /\ own' = [own EXCEPT ![c] = 0] /\ path' = [path EXCEPT ![c] = <<>>]
  /\ got' = [got EXCEPT ![c] = 0]
  /\ UNCHANGED <<sends, slug, shared, clashed, early, forced>>
----------------------------------------------------------------------------
PipelineInit ==
  /\ sends = 0 /\ slug = [s \in SendIds |-> 0]
  /\ files = [n \in Names |-> NoFile] /\ plans = [s \in SendIds |-> NoPlan]
  /\ tasks = <<>>
  /\ step = [c \in Clients |-> "idle"] /\ own = [c \in Clients |-> 0]
  /\ path = [c \in Clients |-> <<>>] /\ got = [c \in Clients |-> 0]
  /\ clashed = {} /\ adrift = {} /\ early = {} /\ forced = {} /\ unlucky = 0

SendSpec(c) == \/ RetroGate(c) \/ OtherGates(c) \/ CreatePlan(c) \/ ChooseName(c)
               \/ SaveFile(c) \/ PostSpec(c) \/ LinkPlan(c) \/ LinkFile(c)
CloseTask(c) == \E t \in DOMAIN tasks, word \in {"completed", "failed"},
                   retro \in {"written", "blank"} : UpdateSpec(c, t, word, retro)
PipelineNext == Server \/ \E c \in Clients : SendSpec(c) \/ CloseTask(c) \/ ClientDies(c)
PipelineSpec == PipelineInit /\ [][PipelineNext]_specVars
----------------------------------------------------------------------------
PipelineTypeOK ==
  /\ sends \in 0 .. MaxSends /\ slug \in [SendIds -> Slugs \cup {0}]
  /\ files \in [Names -> [spec : 0 .. MaxSends, task : 0 .. MaxSends,
                          status : {"none", "sent", "completed", "failed"},
                          retro : {"none", "pending", "written", "blank"}]]
  /\ plans \in [SendIds -> [task : 0 .. MaxSends,
                            status : {"none", "draft", "sent", "completed", "failed",
                                      "completed_unverified"}]]
  /\ tasks \in Seq([spec : SendIds, status : {"pending", "working", "completed", "failed",
                                              "ended_past"}])
  /\ step \in [Clients -> {"idle", "gates", "plan", "name", "save", "post",
                           "linkPlan", "linkFile"}]
  /\ own \in [Clients -> 0 .. MaxSends] /\ got \in [Clients -> 0 .. MaxSends]
  /\ path \in [Clients -> Names \cup {<<>>}]
  /\ clashed \subseteq Names /\ adrift \subseteq SendIds /\ early \subseteq SendIds
  /\ forced \subseteq SendIds
  /\ unlucky \in 0 .. MaxUnlucky

(* Every task the server has can be closed: there is a file with its id and *)
(* its spec, or its client is still about to write it; only a lost answer,  *)
(* a client that died, or two clients that chose the same name at the same  *)
(* time leave a task without (leroy_send_spec, _unique_spec_path).  And a   *)
(* plan says "sent" of a task that its handlers saw end only if the task    *)
(* ended before the plan was linked to it (link_task,                       *)
(* _update_plan_on_completion).  Of a task that was ended past them, by a   *)
(* force-fail or by the fallback of /tasks/complete, it may say so for ever.*)
TaskHasItsFile ==
  \A t \in DOMAIN tasks :
    \/ \E n \in Names : files[n].task = t /\ files[n].spec = tasks[t].spec
    \/ \E c \in Clients : own[c] = tasks[t].spec
    \/ tasks[t].spec \in adrift
    \/ \E n \in clashed : n[1] = slug[tasks[t].spec]
PlanFollowsTask ==
  \A p \in SendIds : plans[p].status = "sent" /\ tasks[plans[p].task].status \in
                       {"completed", "failed"} => p \in early
TasksAreFiled == TaskHasItsFile /\ PlanFollowsTask

(* A saved spec is never overwritten by another one, except under a name    *)
(* that two clients chose at the same time (_unique_spec_path).             *)
SpecKept ==
  [][\A n \in Names \ clashed : Exists(n) => files'[n].spec = files[n].spec]_specVars
=============================================================================
