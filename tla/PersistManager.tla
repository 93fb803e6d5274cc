--------------------------- MODULE PersistManager ---------------------------
(***************************************************************************)
(* The persistence manager (src/server/persist_manager.py): persist_task   *)
(* sends the record of a finished task to the knowledge store ("brain") or *)
(* puts it in a queue file; flushes drain the file; a circuit breaker keeps*)
(* both away from a store that does not answer; an entry that failed too   *)
(* often goes to a dead-letter file.                                       *)
(*                                                                         *)
(* Every call of persist_task is a thread of its own and is identified with*)
(* the payload it builds.  One flush runs at a time (_flush_lock); it takes*)
(* _lock only to load the file, to use the circuit and to save.  A crash   *)
(* keeps the two files and loses everything else.                          *)
(*                                                                         *)
(* The store is external: up, down (nothing answers) or flaky (it answers  *)
(* the health check, and a send ends in an error, before or after the store*)
(* has kept the record).                                                   *)
(***************************************************************************)
EXTENDS Integers, Sequences, FiniteSets

CONSTANTS
    Payload,      \* one per call of persist_task
    MaxDepth,     \* MAX_QUEUE_DEPTH
    MaxAttempts,  \* MAX_PERSIST_ATTEMPTS
    Threshold,    \* CIRCUIT_BREAKER_THRESHOLD
    MaxCrashes    \* bound on the crashes explored

ASSUME PersistAssumption ==
    /\ MaxDepth \in Nat \ {0}
    /\ MaxAttempts \in Nat \ {0}
    /\ Threshold \in Nat \ {0}
    /\ MaxCrashes \in Nat

VARIABLES
    queue,       \* the queue file: a sequence of [id, attempt_count]
    dead,        \* ids in the dead-letter file
    persist,     \* where each call of persist_task is
    circuit,     \* the breaker: [state, failures, cooled]
    flush,       \* where the flush that holds _flush_lock is
    entries,     \* the flush's snapshot of the file
    next,        \* index of the snapshot's entry to be sent next
    remaining,   \* the flush's list of entries to keep
    brain,       \* the external store
    stored,      \* history: how often the store kept a payload (0, 1, many = 2)
    tries,       \* history: failed sends of a payload by flushes, up to MaxAttempts
    overflowed,  \* history: payloads dropped by _enqueue at full depth
    faults,      \* history: a send failed after the store had kept the record
    crashes      \* crashes so far

circuitVars == <<circuit>>
flushVars == <<flush, entries, next, remaining>>
history == <<stored, tries, overflowed, faults, crashes>>
vars == <<queue, dead, persist, circuit, flush, entries, next, remaining, brain,
          stored, tries, overflowed, faults, crashes>>

\* An entry of the file has failed fewer than MAX_PERSIST_ATTEMPTS times.
Item == [id : Payload, attempt_count : 0 .. MaxAttempts - 1]
Ids(s) == {s[i].id : i \in DOMAIN s}

\* Only "Threshold or more" is ever asked of the failure count: it saturates.
Circuit == [state : {"closed", "open", "half-open"}, failures : 0 .. Threshold,
            cooled : BOOLEAN]
Closed == [state |-> "closed", failures |-> 0, cooled |-> FALSE]

TypeOK ==
    /\ queue \in Seq(Item)
    /\ entries \in Seq(Item)
    /\ remaining \in Seq(Item)
    /\ dead \subseteq Payload
    /\ persist \in [Payload -> {"new", "health", "attempt", "enqueue", "done", "crashed"}]
    /\ circuit \in Circuit
    /\ flush \in {"none", "check", "health", "send", "save"}
    /\ next \in Nat \ {0}
    /\ brain \in {"up", "down", "flaky"}
    /\ stored \in [Payload -> 0 .. 2]
    /\ tries \in [Payload -> 0 .. MaxAttempts]
    /\ overflowed \subseteq Payload
    /\ faults \in BOOLEAN
    /\ crashes \in 0 .. MaxCrashes

Init ==
    /\ queue = <<>> /\ entries = <<>> /\ remaining = <<>>
    /\ dead = {}
    /\ persist = [p \in Payload |-> "new"]
    /\ circuit = Closed
    /\ flush = "none"
    /\ next = 1
    /\ brain = "up"
    /\ stored = [p \in Payload |-> 0]
    /\ tries = [p \in Payload |-> 0]
    /\ overflowed = {}
    /\ faults = FALSE
    /\ crashes = 0

-----------------------------------------------------------------------------
(* Variants with one plausible bug each, used to test the properties.      *)


FlushBeginUnlocked ==
    /\ queue # <<>>
    /\ flush \in {"none", "send"}
    /\ flush' = "check"
    /\ entries' = queue
    /\ next' = 1
    /\ remaining' = <<>>
    /\ UNCHANGED <<queue, dead, persist, circuit, brain, history>>

SaveSnapshot ==
    /\ flush = "save"
    /\ queue' = entries
    /\ flush' = "none"
    /\ entries' = <<>>
    /\ next' = 1
    /\ remaining' = <<>>
    /\ UNCHANGED <<dead, persist, circuit, brain, history>>

IsDeadLate(item) == item.attempt_count >= MaxAttempts

-----------------------------------------------------------------------------
(* The circuit breaker; both operators run with _lock held.                *)

\* _check_circuit's answer, and what it does to the circuit: an open circuit
\* whose cooldown has passed becomes half-open.
Allows(c) == c.state # "open" \/ c.cooled
CheckCircuit(c) ==
    IF c.state = "open" /\ c.cooled THEN [c EXCEPT !.state = "half-open"] ELSE c

\* _record_circuit_result: a success counts only while the circuit is not open.
Record(c, success) ==
    LET n == IF c.failures < Threshold THEN c.failures + 1 ELSE Threshold
        trips == c.state = "half-open" \/ (c.state = "closed" /\ n >= Threshold)
    IN  CASE success /\ c.state = "open" -> c
          [] success /\ c.state # "open" -> Closed
          [] ~success /\ trips  -> [state |-> "open", failures |-> n, cooled |-> FALSE]
          [] ~success /\ ~trips -> [c EXCEPT !.failures = n]

CooldownPasses ==
    /\ circuit.state = "open"
    /\ ~circuit.cooled
    /\ circuit' = [circuit EXCEPT !.cooled = TRUE]
    /\ UNCHANGED <<queue, dead, persist, flushVars, brain, history>>

\* reset_circuit; the flush it triggers is FlushBegin.
ResetCircuit ==
    /\ circuit' = Closed
    /\ UNCHANGED <<queue, dead, persist, flushVars, brain, history>>

-----------------------------------------------------------------------------
(* The external store.                                                     *)

BrainChanges ==
    /\ \E b \in {"up", "down", "flaky"} : brain' = b
    /\ UNCHANGED <<queue, dead, persist, circuit, flushVars, history>>

Alive == brain # "down"

\* Does the store keep the record, and does the sender hear of it?
Outcomes ==
    CASE brain = "up"    -> {[kept |-> TRUE, ok |-> TRUE]}
      [] brain = "down"  -> {[kept |-> FALSE, ok |-> FALSE]}
      [] brain = "flaky" -> {[kept |-> TRUE, ok |-> FALSE], [kept |-> FALSE, ok |-> FALSE]}

Send(p, o) ==
    /\ stored' = [stored EXCEPT ![p] = IF o.kept /\ @ < 2 THEN @ + 1 ELSE @]
    /\ faults' = (faults \/ (o.kept /\ ~o.ok))

-----------------------------------------------------------------------------
(* persist_task.                                                           *)

PersistTask(p) ==
    /\ persist[p] = "new"
    /\ persist' = [persist EXCEPT ![p] = IF Allows(circuit) THEN "health" ELSE "enqueue"]
    /\ circuit' = CheckCircuit(circuit)
    /\ UNCHANGED <<queue, dead, flushVars, brain, history>>

PersistHealth(p) ==
    /\ persist[p] = "health"
    /\ persist' = [persist EXCEPT ![p] = IF Alive THEN "attempt" ELSE "enqueue"]
    /\ circuit' = Record(circuit, Alive)
    /\ UNCHANGED <<queue, dead, flushVars, brain, history>>

PersistAttempt(p) ==
    /\ persist[p] = "attempt"
    /\ \E o \in Outcomes :
          /\ Send(p, o)
          /\ persist' = [persist EXCEPT ![p] = IF o.ok THEN "done" ELSE "enqueue"]
          /\ circuit' = Record(circuit, o.ok)
    /\ UNCHANGED <<queue, dead, flushVars, brain, tries, overflowed, crashes>>

\* The queue file with a payload added, the oldest entry making room if need be.
EnqueueItem(s, p) ==
    Append(IF Len(s) >= MaxDepth THEN Tail(s) ELSE s, [id |-> p, attempt_count |-> 0])

PersistEnqueue(p) ==
    /\ persist[p] = "enqueue"
    /\ queue' = EnqueueItem(queue, p)
    /\ overflowed' = overflowed \cup (Ids(queue) \ Ids(queue'))
    /\ persist' = [persist EXCEPT ![p] = "done"]
    /\ UNCHANGED <<dead, circuit, flushVars, brain, stored, tries, faults, crashes>>

-----------------------------------------------------------------------------
(* Flushes: at startup, by the retry thread, after reset_circuit, or by the*)
(* thread flush_if_ready starts.                                           *)

FlushBegin ==
    /\ queue # <<>>
    /\ flush = "none"
    /\ flush' = "check"
    /\ entries' = queue
    /\ next' = 1
    /\ remaining' = <<>>
    /\ UNCHANGED <<queue, dead, persist, circuit, brain, history>>

\* flush_if_ready asks the circuit first, which may turn it half-open, and goes
\* no further when the circuit is open; the thread it starts is FlushBegin.
FlushIfReady ==
    /\ circuit' = CheckCircuit(circuit)
    /\ UNCHANGED <<queue, dead, persist, flushVars, brain, history>>

FlushCheck ==
    /\ flush = "check"
    /\ flush' = IF Allows(circuit) THEN "health" ELSE "none"
    /\ entries' = IF flush' = "none" THEN <<>> ELSE entries
    /\ circuit' = CheckCircuit(circuit)
    /\ UNCHANGED <<queue, dead, persist, next, remaining, brain, history>>

FlushHealth ==
    /\ flush = "health"
    /\ flush' = IF Alive THEN "send" ELSE "none"
    /\ entries' = IF flush' = "none" THEN <<>> ELSE entries
    /\ circuit' = Record(circuit, Alive)
    /\ UNCHANGED <<queue, dead, persist, next, remaining, brain, history>>

\* One more failure makes an entry a dead letter.
IsDead(item) == item.attempt_count + 1 >= MaxAttempts

\* The loop over the snapshot: it stops at the first send that fails.
FlushSend ==
    /\ flush = "send"
    /\ next <= Len(entries)
    /\ LET item == entries[next] IN \E o \in Outcomes :
          /\ Send(item.id, o)
          /\ next' = next + 1
          /\ \/ /\ o.ok
                /\ UNCHANGED <<flush, remaining, dead, tries>>
             \/ /\ ~o.ok
                /\ flush' = "save"
                /\ tries' = [tries EXCEPT ![item.id] = IF @ < MaxAttempts THEN @ + 1 ELSE @]
                /\ \/ /\ IsDead(item)
                      /\ dead' = dead \cup {item.id}
                      /\ UNCHANGED remaining
                   \/ /\ ~IsDead(item)
                      /\ remaining' = Append(remaining,
                                             [item EXCEPT !.attempt_count = @ + 1])
                      /\ UNCHANGED dead
    /\ UNCHANGED <<queue, persist, circuit, entries, brain, overflowed, crashes>>

FlushSentAll ==
    /\ flush = "send"
    /\ next > Len(entries)
    /\ flush' = "save"
    /\ UNCHANGED <<queue, dead, persist, circuit, entries, next, remaining, brain, history>>

\* The file is replaced by what the loop kept.
FlushSave ==
    /\ flush = "save"
    /\ queue' = remaining
    /\ flush' = "none"
    /\ entries' = <<>>
    /\ next' = 1
    /\ remaining' = <<>>
    /\ UNCHANGED <<dead, persist, circuit, brain, history>>

-----------------------------------------------------------------------------
\* The process dies and is started again: the files survive.
Crash ==
    /\ crashes < MaxCrashes
    /\ crashes' = crashes + 1
    /\ persist' = [p \in Payload |-> IF persist[p] \in {"new", "done"} THEN persist[p]
                                                                        ELSE "crashed"]
    /\ circuit' = Closed
    /\ flush' = "none"
    /\ entries' = <<>> /\ next' = 1 /\ remaining' = <<>>
    /\ UNCHANGED <<queue, dead, brain, stored, tries, overflowed, faults>>

Caller(p) == PersistTask(p) \/ PersistHealth(p) \/ PersistAttempt(p) \/ PersistEnqueue(p)

Flusher == FlushBegin \/ FlushCheck \/ FlushHealth \/ FlushSend \/ FlushSentAll \/ FlushSave

Next ==
    \/ \E p \in Payload : Caller(p)
    \/ Flusher
    \/ FlushIfReady
    \/ CooldownPasses
    \/ ResetCircuit
    \/ BrainChanges
    \/ Crash

Spec == Init /\ [][Next]_vars

\* The retry thread wakes again and again, time passes, and a thread that has
\* entered persist_task goes on; nobody has to call it, reset it or crash.
Fairness ==
    /\ WF_vars(Flusher)
    /\ WF_vars(CooldownPasses)
    /\ \A p \in Payload : WF_vars(persist[p] # "new" /\ Caller(p))

FairSpec == Spec /\ Fairness

-----------------------------------------------------------------------------
(* Properties.                                                             *)

\* The queue file never outgrows MAX_QUEUE_DEPTH, whatever enqueues and saves
\* interleave.
QueueBound == Len(queue) <= MaxDepth

\* The breaker is open or probing exactly when the failure count has reached the
\* threshold, although calls that were let through before it tripped, and the
\* flush, still report their results to it.
CircuitMatchesFailures == circuit.state = "closed" <=> circuit.failures < Threshold

\* Once the circuit is open nobody is let in before the cooldown has passed: the
\* calls under way do not grow, except by a reset or a restart.
OpenKeepsOut ==
    [][(circuit.state = "open" /\ ~circuit.cooled /\ circuit'.state = "open")
          => /\ \A p \in Payload : persist'[p] = "health" => persist[p] = "health"
             /\ flush' = "health" => flush = "health"]_vars

\* Without a crash, and without a send that failed after the store kept the
\* record, no record is stored twice: _flush_lock keeps a second flush from
\* loading entries the first has sent and not yet removed.
StoredOnce == (crashes = 0 /\ ~faults) => \A p \in Payload : stored[p] <= 1

\* An entry is given up only after MAX_PERSIST_ATTEMPTS failed sends of its own,
\* and the count kept in the file never exceeds what really failed.
AttemptsHonest ==
    /\ \A p \in dead : tries[p] = MaxAttempts
    /\ \A i \in DOMAIN queue : queue[i].attempt_count <= tries[queue[i].id]

\* A payload is queued once at most, only by a call that has ended, and no longer
\* when it is a dead letter and its flush has ended: only a crash between the two
\* files' writes can leave it in both.
QueuedOnce ==
    /\ \A i, j \in DOMAIN queue : queue[i].id = queue[j].id => i = j
    /\ \A i \in DOMAIN queue : persist[queue[i].id] = "done"
    /\ crashes = 0 /\ flush # "save" => dead \cap Ids(queue) = {}

\* Inductive, and stronger than the invariants above: what a flush has loaded and
\* what it keeps is made like the file (WellFormed), it keeps one entry at most,
\* and what is still to be sent has not been stored (Unsent).
WellFormed(s) ==
    \A i \in DOMAIN s :
        /\ \A j \in DOMAIN s : s[i].id = s[j].id => i = j
        /\ persist[s[i].id] = "done"
        /\ s[i].attempt_count <= tries[s[i].id]

FlushPhases ==
    /\ flush = "none" => entries = <<>>
    /\ flush \in {"none", "check", "health"} => next = 1
    /\ flush # "save" => remaining = <<>>
    /\ Len(remaining) <= 1

DeadApart ==
    /\ \A p \in dead : persist[p] = "done" /\ tries[p] = MaxAttempts
    /\ crashes = 0 =>
         /\ dead \cap Ids(remaining) = {}
         /\ flush # "save" => dead \cap (Ids(queue) \cup Ids(entries)) = {}

Unsent ==
    (crashes = 0 /\ ~faults) =>
        /\ \A p \in Payload : stored[p] <= 1 /\ (persist[p] # "done" => stored[p] = 0)
        /\ \A i \in DOMAIN entries : i >= next => stored[entries[i].id] = 0
        /\ \A p \in (Ids(queue) \ Ids(entries)) \cup Ids(remaining) : stored[p] = 0

PersistInv ==
    /\ QueueBound
    /\ CircuitMatchesFailures
    /\ FlushPhases
    /\ WellFormed(queue) /\ WellFormed(entries) /\ WellFormed(remaining)
    /\ DeadApart
    /\ Unsent

\* When the store stays up, everything queued leaves the queue: the breaker does
\* not stay open for ever and the flush gets through.
QueueDrains == <>[](brain = "up") => []<>(queue = <<>>)

\* "No engineering context is lost even during brain outages"
\* (persist_manager.py:270): an entry leaves the queue file because it was stored,
\* became a dead letter, or was the oldest of a full queue, and for no other reason.
NoContextLost ==
    [][\A id \in Ids(queue) \ (dead' \cup overflowed') :
          id \in Ids(queue') \/ stored'[id] > 0]_vars
=============================================================================
