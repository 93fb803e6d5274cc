------------------------------- MODULE AgentBus -------------------------------
(***************************************************************************)
(* The message bus and its push delivery (src/server/agent_bus.py) with    *)
(* the message store behind it (PersistentMessageStore of task_db.py).     *)
(*                                                                         *)
(* Messages are sent from worker threads and from the event loop; they are *)
(* answered, read and subscribed to on the event loop only, one request at *)
(* a time.  All of them change memory first, under a lock, and SQLite      *)
(* afterwards, outside that lock.  A delivery thread takes what was queued *)
(* for the webhooks and posts it, each post up to MaxAttempts times.  A    *)
(* restart may fall between any two of these steps; only tables survive.   *)
(*                                                                         *)
(* The messages are those to one recipient, the hooks are that recipient's. *)
(***************************************************************************)
EXTENDS Integers, Sequences, FiniteSets

CONSTANTS
    Message,      \* the messages that may be sent
    Hook,         \* the webhooks that may be registered
    Matches,      \* the messages whose type a webhook asked for
    MaxAttempts,  \* posts per message and webhook
    MaxHooks,     \* registrations per agent
    MaxRestarts   \* bound on the restarts explored

ASSUME BusAssumption ==
    /\ Matches \in [Hook -> SUBSET Message]
    /\ MaxAttempts \in Nat \ {0}
    /\ MaxHooks \in Nat /\ MaxRestarts \in Nat

VARIABLES
    sender,      \* where the send of each message is
    messages,    \* the store's dictionary: messages in memory
    flags,       \* what each of them says: responded, read
    responses,   \* the store's cache of answers, which poll_response reads
    stored,      \* messages with a row
    row,         \* the flags in each row
    writing,     \* the answer or read mark whose row is being written
    hook,        \* registration of each webhook
    queue,       \* deliveries queued
    batch,       \* deliveries the thread has taken
    trying,      \* the webhook it is posting to, and the posts that failed
    received,    \* history: what the webhooks received
    recorded,    \* deliveries the registry has counted as a success or a failure
    due,         \* history: what was queued in this process
    log,         \* history: messages in the order in which they were queued
    restarts     \* restarts so far

store == <<messages, flags, responses>>
tables == <<stored, row>>
pushes == <<queue, batch, trying, received, recorded, due, log>>
vars == <<sender, messages, flags, responses, stored, row, writing, hook, queue,
          batch, trying, received, recorded, due, log, restarts>>

Flag == {"responded", "read"}
Update == [msg : Message, flag : Flag, copy : SUBSET Flag]
Delivery == [msg : Message, targets : SUBSET Hook]
Attempt == [hook : Hook, failed : 0 .. MaxAttempts - 1]
Pair == Message \X Hook

TypeOK ==
    /\ sender \in [Message -> {"new", "storing", "notifying", "sent", "cut off"}]
    /\ messages \subseteq Message /\ responses \subseteq Message
    /\ stored \subseteq Message
    /\ flags \in [Message -> SUBSET Flag] /\ row \in [Message -> SUBSET Flag]
    /\ writing \subseteq Update
    /\ hook \in [Hook -> {"none", "active", "gone"}]
    /\ queue \in Seq(Delivery) /\ batch \in Seq(Delivery)
    /\ trying \subseteq Attempt
    /\ received \subseteq Pair /\ recorded \subseteq Pair /\ due \subseteq Pair
    /\ log \in Seq(Message)
    /\ restarts \in 0 .. MaxRestarts

Init ==
    /\ sender = [m \in Message |-> "new"]
    /\ messages = {} /\ responses = {} /\ stored = {}
    /\ flags = [m \in Message |-> {}] /\ row = [m \in Message |-> {}]
    /\ writing = {}
    /\ hook = [h \in Hook |-> "none"]
    /\ queue = <<>> /\ batch = <<>> /\ trying = {}
    /\ received = {} /\ recorded = {} /\ due = {} /\ log = <<>>
    /\ restarts = 0

-----------------------------------------------------------------------------
(* Variants with one plausible bug each, used to test the properties.      *)

\* A copy of the message as send built it.
SerialisedAsSent(m) == {}

\* The other webhooks of the message are forgotten.
AdvanceToNextMessage(h) ==
    /\ trying' = {}
    /\ batch' = Tail(batch)

\* One post too many: the attempts are counted from one failure less.
PushFailsOnceMore(t) ==
    /\ t \in trying
    /\ received' \in {received, received \cup {<<Head(batch).msg, t.hook>>}}
    /\ IF t.failed < MaxAttempts
       THEN /\ trying' = {[t EXCEPT !.failed = @ + 1]}
            /\ UNCHANGED <<batch, recorded>>
       ELSE /\ recorded' = recorded \cup {<<Head(batch).msg, t.hook>>}
            /\ trying' = {} /\ batch' = Tail(batch)
    /\ UNCHANGED <<sender, store, tables, writing, hook, queue, due, log, restarts>>

\* A failed delivery goes to the end of the batch.
PushFailsRequeued(t) ==
    /\ t \in trying
    /\ received' \in {received, received \cup {<<Head(batch).msg, t.hook>>}}
    /\ trying' = {}
    /\ batch' = Append(Tail(batch), Head(batch))
    /\ UNCHANGED <<sender, store, tables, writing, hook, queue, recorded, due, log, restarts>>

-----------------------------------------------------------------------------
(* send, in any thread.                                                    *)

SendStore(m) ==
    /\ sender[m] = "new"
    /\ sender' = [sender EXCEPT ![m] = "storing"]
    /\ messages' = messages \cup {m}
    /\ UNCHANGED <<flags, responses, tables, writing, hook, pushes, restarts>>

\* upsert_message serialises the dictionary that memory holds, not a copy of it,
\* under the database's write lock.
Serialised(m) == flags[m]

SendWrite(m) ==
    /\ sender[m] = "storing"
    /\ sender' = [sender EXCEPT ![m] = "notifying"]
    /\ stored' = stored \cup {m}
    /\ row' = [row EXCEPT ![m] = Serialised(m)]
    /\ UNCHANGED <<store, writing, hook, pushes, restarts>>

Targets(m) == {h \in Hook : hook[h] = "active" /\ m \in Matches[h]}

\* notify, and send returns the message's id.
SendNotify(m) ==
    /\ sender[m] = "notifying"
    /\ sender' = [sender EXCEPT ![m] = "sent"]
    /\ IF Targets(m) = {}
       THEN UNCHANGED <<queue, due, log>>
       ELSE /\ queue' = Append(queue, [msg |-> m, targets |-> Targets(m)])
            /\ due' = due \cup ({m} \X Targets(m))
            /\ log' = Append(log, m)
    /\ UNCHANGED <<store, tables, writing, hook, batch, trying, received, recorded, restarts>>

-----------------------------------------------------------------------------
(* The requests the event loop serves.                                     *)

LoopIsFree == writing = {}

\* respond and mark_read copy the message under the lock once they have changed it.
Change(m, flag) ==
    /\ LoopIsFree
    /\ m \in messages
    /\ flags' = [flags EXCEPT ![m] = @ \cup {flag}]
    /\ writing' = {[msg |-> m, flag |-> flag, copy |-> flags[m] \cup {flag}]}

Respond(m) ==
    /\ Change(m, "responded")
    /\ responses' = responses \cup {m}
    /\ UNCHANGED <<sender, messages, tables, hook, pushes, restarts>>

MarkRead(m) ==
    /\ Change(m, "read")
    /\ UNCHANGED <<sender, messages, responses, tables, hook, pushes, restarts>>

\* The row is written and the request is acknowledged.
WriteUpdate(u) ==
    /\ u \in writing
    /\ writing' = {}
    /\ stored' = stored \cup {u.msg}
    /\ row' = [row EXCEPT ![u.msg] = u.copy]
    /\ UNCHANGED <<sender, store, hook, pushes, restarts>>

\* A registration and its row change in one step here: threads that send see the
\* first of the two writes, and a restart before the second is one before both.
Register(h) ==
    /\ LoopIsFree
    /\ hook[h] = "none"
    /\ Cardinality({g \in Hook : hook[g] = "active"}) < MaxHooks
    /\ hook' = [hook EXCEPT ![h] = "active"]
    /\ UNCHANGED <<sender, store, tables, writing, pushes, restarts>>

Unregister(h) ==
    /\ LoopIsFree
    /\ hook[h] = "active"
    /\ hook' = [hook EXCEPT ![h] = "gone"]
    /\ UNCHANGED <<sender, store, tables, writing, pushes, restarts>>

-----------------------------------------------------------------------------
(* The delivery thread.                                                    *)

TakeBatch ==
    /\ batch = <<>> /\ queue # <<>>
    /\ batch' = queue
    /\ queue' = <<>>
    /\ UNCHANGED <<sender, store, tables, writing, hook, trying, received, recorded,
                   due, log, restarts>>

PickTarget(h) ==
    /\ batch # <<>> /\ trying = {}
    /\ h \in Head(batch).targets
    /\ trying' = {[hook |-> h, failed |-> 0]}
    /\ UNCHANGED <<sender, store, tables, writing, hook, queue, batch, received, recorded,
                   due, log, restarts>>

\* The delivery to h is over: go on with the next webhook or the next delivery.
Advance(h) ==
    /\ trying' = {}
    /\ batch' = IF Head(batch).targets = {h}
                THEN Tail(batch)
                ELSE [batch EXCEPT ![1].targets = @ \ {h}]

\* The webhook answers in time, with a status below 400.
PushSucceeds(t) ==
    /\ t \in trying
    /\ received' = received \cup {<<Head(batch).msg, t.hook>>}
    /\ recorded' = recorded \cup {<<Head(batch).msg, t.hook>>}
    /\ Advance(t.hook)
    /\ UNCHANGED <<sender, store, tables, writing, hook, queue, due, log, restarts>>

\* It refuses, is unreachable, or its answer is lost; the last failure is recorded.
PushFails(t) ==
    /\ t \in trying
    /\ received' \in {received, received \cup {<<Head(batch).msg, t.hook>>}}
    /\ IF t.failed + 1 < MaxAttempts
       THEN /\ trying' = {[t EXCEPT !.failed = @ + 1]}
            /\ UNCHANGED <<batch, recorded>>
       ELSE /\ recorded' = recorded \cup {<<Head(batch).msg, t.hook>>}
            /\ Advance(t.hook)
    /\ UNCHANGED <<sender, store, tables, writing, hook, queue, due, log, restarts>>

-----------------------------------------------------------------------------
\* A new process loads both tables; the answers it looks for in the rows are in a
\* field (pm_response) that respond does not write.
Restart ==
    /\ restarts < MaxRestarts
    /\ restarts' = restarts + 1
    /\ sender' = [m \in Message |-> IF sender[m] \in {"storing", "notifying"}
                                    THEN "cut off" ELSE sender[m]]
    /\ messages' = stored
    /\ flags' = row
    /\ responses' = {}
    /\ writing' = {}
    /\ queue' = <<>> /\ batch' = <<>> /\ trying' = {} /\ due' = {}
    /\ UNCHANGED <<tables, hook, received, recorded, log>>

Send(m) == SendStore(m) \/ SendWrite(m) \/ SendNotify(m)

Request ==
    \/ \E m \in Message : Respond(m) \/ MarkRead(m)
    \/ \E u \in writing : WriteUpdate(u)
    \/ \E h \in Hook : Register(h) \/ Unregister(h)

Deliver ==
    \/ TakeBatch
    \/ \E h \in Hook : PickTarget(h)
    \/ \E t \in trying : PushSucceeds(t) \/ PushFails(t)

Next ==
    \/ \E m \in Message : Send(m)
    \/ Request
    \/ Deliver
    \/ Restart

Spec == Init /\ [][Next]_vars

\* The delivery thread runs and its posts end: each has a timeout.
FairSpec == Spec /\ WF_vars(Deliver)

-----------------------------------------------------------------------------
(* Properties.                                                             *)

Pairs(s) == {p \in Pair : \E i \in DOMAIN s : p[1] = s[i].msg /\ p[2] \in s[i].targets}

\* When nobody is in the middle of writing a message, its row says what memory
\* says: the writers, each writing outside the lock under which it changed the
\* message, do not overwrite one another with something older.
Durable ==
    \A m \in messages :
        (sender[m] # "storing" /\ \A u \in writing : u.msg # m) =>
            m \in stored /\ row[m] = flags[m]

\* An answer or a read mark that was acknowledged is not taken back, by another
\* writer or by a restart.
AckedKept == [][\A m \in Message : row[m] \subseteq row'[m] /\ row'[m] \subseteq flags'[m]]_vars

\* A message whose id was returned to its sender, and one a webhook has received,
\* can be looked up, after a restart too.
PushedIsStored ==
    \A m \in Message :
        (sender[m] = "sent" \/ \E h \in Hook : <<m, h>> \in received) => m \in stored \cap messages

\* What was queued for a webhook is in the queue, in the thread's batch, or its
\* success or failure has been recorded, whatever became of the other webhooks
\* and messages.
NoPushLost == due \subseteq Pairs(queue) \cup Pairs(batch) \cup recorded

\* A webhook receives messages in the order in which they were queued: the retries
\* of one hold up the ones behind it.
InOrder ==
    [][\A p \in received' \ received :
          \A i, j \in DOMAIN log :
              (log[i] = p[1] /\ i < j) => <<log[j], p[2]>> \notin received]_vars

\* Inductive, with TypeOK, and stronger than the properties above.  One update is
\* written at a time and carries what memory says; queued messages have rows; what
\* the thread holds and what is queued are the end of the log, in its order, and
\* nothing behind the delivery in progress has been received.
OneUpdate ==
    /\ \A u, w \in writing : u = w
    /\ \A u \in writing : u.msg \in messages /\ u.copy = flags[u.msg]

RowsBehind ==
    /\ stored \subseteq messages
    /\ \A m \in Message : sender[m] = "storing" => m \in messages
    /\ \A m \in Message : row[m] \subseteq flags[m]

QueuedAreStored ==
    /\ \A m \in Message : sender[m] = "notifying" => m \in stored
    /\ \A i \in DOMAIN log : sender[log[i]] = "sent" /\ log[i] \in stored
    /\ \A i, j \in DOMAIN log : log[i] = log[j] => i = j

Done == Len(log) - Len(queue) - Len(batch)

InLogOrder ==
    /\ Done >= 0
    /\ \A i \in DOMAIN batch : batch[i].msg = log[Done + i]
    /\ \A i \in DOMAIN queue : queue[i].msg = log[Done + Len(batch) + i]
    /\ \A p \in received : \E i \in DOMAIN log : log[i] = p[1] /\ i <= Done + 1

OneTarget ==
    /\ \A t, w \in trying : t = w
    /\ \A t \in trying : batch # <<>> /\ t.hook \in Head(batch).targets

BusInv ==
    /\ OneUpdate /\ RowsBehind /\ Durable
    /\ QueuedAreStored /\ PushedIsStored
    /\ InLogOrder /\ OneTarget /\ NoPushLost

\* Every push ends, well or badly, unless a restart forgets it.
PushesSettle ==
    \A h \in Hook : \A m \in Matches[h] :
        <<m, h>> \in due ~> <<m, h>> \in recorded \/ <<m, h>> \notin due

=============================================================================
