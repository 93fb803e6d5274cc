------------------------ MODULE PersistManagerProofs ------------------------
(* Proofs about PersistManager, for every number of payloads, queue depth,  *)
(* attempt limit, threshold and number of crashes.                          *)
EXTENDS PersistManager, TLAPS

-----------------------------------------------------------------------------
(* The sequence operators the model is built from.                         *)

LEMMA TailOfItems ==
    ASSUME NEW s \in Seq(Item), s # <<>>
    PROVE  /\ Tail(s) \in Seq(Item)
           /\ Len(Tail(s)) = Len(s) - 1
           /\ \A i \in 1 .. Len(Tail(s)) : Tail(s)[i] = s[i + 1]
  OBVIOUS

LEMMA AppendOfItems ==
    ASSUME NEW s \in Seq(Item), NEW e \in Item
    PROVE  /\ Append(s, e) \in Seq(Item)
           /\ Len(Append(s, e)) = Len(s) + 1
           /\ \A i \in 1 .. Len(s) : Append(s, e)[i] = s[i]
           /\ Append(s, e)[Len(s) + 1] = e
  OBVIOUS

\* The enqueued file is the old one, perhaps without its first entry, and then
\* the new entry; it is within the depth if the old one was.
LEMMA EnqueueItemShape ==
    ASSUME NEW s \in Seq(Item), NEW p \in Payload
    PROVE  LET t == EnqueueItem(s, p) IN
           /\ t \in Seq(Item)
           /\ Len(s) <= MaxDepth => Len(t) <= MaxDepth
           /\ \E k \in {0, 1} :
                 /\ Len(t) = Len(s) + 1 - k
                 /\ \A i \in 1 .. Len(s) - k : t[i] = s[i + k]
                 /\ t[Len(t)] = [id |-> p, attempt_count |-> 0]
  <1>1. [id |-> p, attempt_count |-> 0] \in Item
    BY PersistAssumption DEF Item
  <1>2. CASE Len(s) >= MaxDepth
    <2>1. s # <<>>
      BY <1>2, PersistAssumption
    <2>2. EnqueueItem(s, p) = Append(Tail(s), [id |-> p, attempt_count |-> 0])
      BY <1>2 DEF EnqueueItem
    <2> QED
      BY <1>1, <2>1, <2>2, TailOfItems, AppendOfItems, PersistAssumption
  <1>3. CASE ~(Len(s) >= MaxDepth)
    <2>1. EnqueueItem(s, p) = Append(s, [id |-> p, attempt_count |-> 0])
      BY <1>3 DEF EnqueueItem
    <2> QED
      BY <1>1, <1>3, <2>1, AppendOfItems, PersistAssumption
  <1> QED
    BY <1>2, <1>3

\* The circuit's operators stay within Circuit and keep the state in step with
\* the failure count.
Matches(c) == c.state = "closed" <=> c.failures < Threshold

LEMMA CircuitOperators ==
    ASSUME NEW c \in Circuit, NEW success \in BOOLEAN
    PROVE  /\ CheckCircuit(c) \in Circuit
           /\ Record(c, success) \in Circuit
           /\ Closed \in Circuit
           /\ Matches(Closed)
           /\ Matches(c) => Matches(CheckCircuit(c)) /\ Matches(Record(c, success))
  <1>1. /\ CheckCircuit(c) \in Circuit
        /\ Matches(c) => Matches(CheckCircuit(c))
    BY DEF CheckCircuit, Circuit, Matches
  <1>2. Closed \in Circuit /\ Matches(Closed)
    BY PersistAssumption DEF Closed, Circuit, Matches
  <1>3. CASE success
    BY <1>1, <1>2, <1>3 DEF Record
  <1>4. CASE ~success
    <2> DEFINE n == IF c.failures < Threshold THEN c.failures + 1 ELSE Threshold
    <2>1. n \in 0 .. Threshold /\ n > 0 /\ (c.failures = Threshold => n = Threshold)
      BY PersistAssumption DEF Circuit
    <2>2. CASE c.state = "half-open" \/ (c.state = "closed" /\ n >= Threshold)
      <3>1. Record(c, success) = [state |-> "open", failures |-> n, cooled |-> FALSE]
        BY <1>4, <2>2 DEF Record
      <3>2. Matches(c) => n = Threshold
        BY <2>1, <2>2, PersistAssumption DEF Circuit, Matches
      <3> QED
        BY <1>1, <1>2, <2>1, <3>1, <3>2, PersistAssumption DEF Circuit, Matches
    <2>3. CASE ~(c.state = "half-open" \/ (c.state = "closed" /\ n >= Threshold))
      <3>1. Record(c, success) = [c EXCEPT !.failures = n]
        BY <1>4, <2>3 DEF Record
      <3> QED
        BY <1>1, <1>2, <2>1, <2>3, <3>1, PersistAssumption DEF Circuit, Matches
    <2> QED
      BY <2>2, <2>3
  <1> QED
    BY <1>3, <1>4

LEMMA OutcomesShape ==
    ASSUME TypeOK, NEW o \in Outcomes
    PROVE  o.ok \in BOOLEAN /\ o.kept \in BOOLEAN /\ (o.ok => o.kept)
  <1>1. CASE brain = "up"
    <2>1. o = [kept |-> TRUE, ok |-> TRUE]
      BY <1>1 DEF Outcomes
    <2> QED
      BY <2>1
  <1>2. CASE brain = "down"
    <2>1. o = [kept |-> FALSE, ok |-> FALSE]
      BY <1>2 DEF Outcomes
    <2> QED
      BY <2>1
  <1>3. CASE brain = "flaky"
    <2>1. \/ o = [kept |-> TRUE, ok |-> FALSE]
          \/ o = [kept |-> FALSE, ok |-> FALSE]
      BY <1>3 DEF Outcomes
    <2>2. CASE o = [kept |-> TRUE, ok |-> FALSE]
      BY <2>2
    <2>3. CASE o = [kept |-> FALSE, ok |-> FALSE]
      BY <2>3
    <2> QED
      BY <2>1, <2>2, <2>3
  <1>4. brain \in {"up", "down", "flaky"}
    BY DEF TypeOK
  <1> QED
    BY <1>1, <1>2, <1>3, <1>4

-----------------------------------------------------------------------------
(* Type correctness.                                                       *)

LEMMA SendKeepsType ==
    ASSUME TypeOK, NEW p \in Payload, NEW o \in Outcomes, Send(p, o)
    PROVE  stored' \in [Payload -> 0 .. 2] /\ faults' \in BOOLEAN
  <1>1. o.ok \in BOOLEAN /\ o.kept \in BOOLEAN
    BY OutcomesShape
  <1>2. stored' \in [Payload -> 0 .. 2]
    BY <1>1 DEF TypeOK, Send
  <1>3. faults' \in BOOLEAN
    BY <1>1 DEF TypeOK, Send
  <1> QED
    BY <1>2, <1>3

LEMMA TypeStep == TypeOK /\ [Next]_vars => TypeOK'
  <1> SUFFICES ASSUME TypeOK, [Next]_vars PROVE TypeOK'
    OBVIOUS
  <1> USE DEF history, flushVars
  <1>1. Allows(circuit) \in BOOLEAN /\ Alive \in BOOLEAN
    BY DEF Allows, Alive, TypeOK, Circuit
  <1>2. \A success \in BOOLEAN : Record(circuit, success) \in Circuit
    BY CircuitOperators DEF TypeOK
  <1>3. CheckCircuit(circuit) \in Circuit /\ Closed \in Circuit
    BY CircuitOperators DEF TypeOK
  <1>4. ASSUME NEW p \in Payload, PersistTask(p) PROVE TypeOK'
    BY <1>3, <1>4 DEF PersistTask, TypeOK
  <1>5. ASSUME NEW p \in Payload, PersistHealth(p) PROVE TypeOK'
    BY <1>1, <1>2, <1>5 DEF PersistHealth, TypeOK
  <1>6. ASSUME NEW p \in Payload, PersistAttempt(p) PROVE TypeOK'
    <2> PICK o \in Outcomes :
          /\ Send(p, o)
          /\ persist' = [persist EXCEPT ![p] = IF o.ok THEN "done" ELSE "enqueue"]
          /\ circuit' = Record(circuit, o.ok)
      BY <1>6 DEF PersistAttempt
    <2>1. circuit' \in Circuit
      BY <1>2, OutcomesShape
    <2>2. stored' \in [Payload -> 0 .. 2] /\ faults' \in BOOLEAN
      BY SendKeepsType
    <2> QED
      BY <1>6, <2>1, <2>2 DEF PersistAttempt, TypeOK
  <1>7. ASSUME NEW p \in Payload, PersistEnqueue(p) PROVE TypeOK'
    <2>1. queue' \in Seq(Item)
      BY <1>7, EnqueueItemShape DEF PersistEnqueue, TypeOK
    <2>2. overflowed' \subseteq Payload
      <3>1. \A i \in DOMAIN queue : queue[i] \in Item
        BY DEF TypeOK
      <3>2. Ids(queue) \subseteq Payload
        BY <3>1 DEF Ids, Item
      <3> QED
        BY <1>7, <3>2 DEF PersistEnqueue, TypeOK
    <2> QED
      BY <1>7, <2>1, <2>2 DEF PersistEnqueue, TypeOK
  <1>8. CASE FlushBegin
    BY <1>8 DEF FlushBegin, TypeOK
  <1>9. CASE FlushCheck
    BY <1>9, <1>3 DEF FlushCheck, TypeOK
  <1>10. CASE FlushHealth
    BY <1>10, <1>1, <1>2 DEF FlushHealth, TypeOK
  <1>11. CASE FlushSend
    <2> DEFINE item == entries[next]
    <2>1. item \in Item
      BY <1>11 DEF FlushSend, TypeOK
    <2> PICK o \in Outcomes :
          /\ Send(item.id, o)
          /\ next' = next + 1
          /\ \/ /\ o.ok
                /\ UNCHANGED <<flush, remaining, dead, tries>>
             \/ /\ ~o.ok
                /\ flush' = "save"
                /\ tries' = [tries EXCEPT ![item.id] = IF @ < MaxAttempts THEN @ + 1 ELSE @]
                /\ \/ /\ IsDead(item)
                      /\ dead' = dead \cup {item.id}
                      /\ UNCHANGED remaining
                   \/ /\ ~IsDead(item)
                      /\ remaining' = Append(remaining,
                                             [item EXCEPT !.attempt_count = @ + 1])
                      /\ UNCHANGED dead
      BY <1>11 DEF FlushSend
    <2>2. item.id \in Payload
      BY <2>1 DEF Item
    <2>3. stored' \in [Payload -> 0 .. 2] /\ faults' \in BOOLEAN
      BY <2>2, SendKeepsType
    <2>4. remaining' \in Seq(Item)
      <3>1. ~IsDead(item) => [item EXCEPT !.attempt_count = @ + 1] \in Item
        BY <2>1, PersistAssumption DEF IsDead, Item
      <3>2. remaining \in Seq(Item)
        BY DEF TypeOK
      <3>3. ~IsDead(item)
              => Append(remaining, [item EXCEPT !.attempt_count = @ + 1]) \in Seq(Item)
        BY <3>1, <3>2, AppendOfItems
      <3> QED
        BY <3>2, <3>3
    <2>5. tries' \in [Payload -> 0 .. MaxAttempts]
      <3>1. [tries EXCEPT ![item.id] = IF @ < MaxAttempts THEN @ + 1 ELSE @]
              \in [Payload -> 0 .. MaxAttempts]
        BY <2>2, PersistAssumption DEF TypeOK
      <3>2. tries \in [Payload -> 0 .. MaxAttempts]
        BY DEF TypeOK
      <3> QED
        BY <3>1, <3>2
    <2>6. dead' \subseteq Payload /\ flush' \in {"send", "save"} /\ next' \in Nat \ {0}
      BY <1>11, <2>2 DEF TypeOK, FlushSend
    <2> QED
      BY <1>11, <2>3, <2>4, <2>5, <2>6 DEF FlushSend, TypeOK
  <1>12. CASE FlushSentAll
    BY <1>12 DEF FlushSentAll, TypeOK
  <1>13. CASE FlushSave
    BY <1>13 DEF FlushSave, TypeOK
  <1>14. CASE FlushIfReady \/ ResetCircuit
    BY <1>14, <1>3 DEF FlushIfReady, ResetCircuit, TypeOK
  <1>15. CASE CooldownPasses
    BY <1>15 DEF CooldownPasses, TypeOK, Circuit
  <1>16. CASE BrainChanges
    BY <1>16 DEF BrainChanges, TypeOK
  <1>17. CASE Crash
    BY <1>17, <1>3, PersistAssumption DEF Crash, TypeOK
  <1>18. CASE UNCHANGED vars
    BY <1>18 DEF vars, TypeOK
  <1> QED
    BY <1>4, <1>5, <1>6, <1>7, <1>8, <1>9, <1>10, <1>11, <1>12, <1>13, <1>14,
       <1>15, <1>16, <1>17, <1>18 DEF Next, Caller, Flusher

\* Every reachable state is well typed: in particular an entry of the queue
\* file, of a snapshot or of what a flush keeps has failed fewer than
\* MAX_PERSIST_ATTEMPTS times.
THEOREM TypeCorrect == Spec => []TypeOK
  <1>1. Init => TypeOK
    <2> SUFFICES ASSUME Init PROVE TypeOK
      OBVIOUS
    <2>1. circuit \in Circuit
      BY PersistAssumption DEF Init, Closed, Circuit
    <2>2. queue \in Seq(Item) /\ entries \in Seq(Item) /\ remaining \in Seq(Item)
      BY DEF Init
    <2>3. /\ persist \in [Payload -> {"new", "health", "attempt", "enqueue", "done", "crashed"}]
          /\ stored \in [Payload -> 0 .. 2]
      BY DEF Init
    <2>4. tries \in [Payload -> 0 .. MaxAttempts] /\ crashes \in 0 .. MaxCrashes
      BY PersistAssumption DEF Init
    <2>5. dead \subseteq Payload /\ overflowed \subseteq Payload /\ faults \in BOOLEAN
      BY DEF Init
    <2> QED
      BY <2>1, <2>2, <2>3, <2>4, <2>5 DEF Init, TypeOK
  <1> QED
    BY <1>1, TypeStep, PTL DEF Spec

-----------------------------------------------------------------------------
(* The inductive invariant.                                                *)

\* WellFormed with the variables it reads as parameters.
Fits(s, ps, ts) ==
    \A i \in DOMAIN s :
        /\ \A j \in DOMAIN s : s[i].id = s[j].id => i = j
        /\ ps[s[i].id] = "done"
        /\ s[i].attempt_count <= ts[s[i].id]

Calls == {"new", "health", "attempt", "enqueue", "done", "crashed"}

\* A sequence stays well formed while calls that have ended stay so and the
\* counts of failed sends grow.
LEMMA FitsStays ==
    ASSUME NEW s \in Seq(Item), NEW ps, NEW qs,
           NEW ts \in [Payload -> 0 .. MaxAttempts],
           NEW us \in [Payload -> 0 .. MaxAttempts],
           Fits(s, ps, ts),
           \A p \in Payload : ps[p] = "done" => qs[p] = "done",
           \A p \in Payload : ts[p] <= us[p]
    PROVE  Fits(s, qs, us)
  <1>1. \A i \in DOMAIN s : s[i].id \in Payload /\ s[i].attempt_count \in Nat
    <2>1. \A i \in DOMAIN s : s[i] \in Item
      OBVIOUS
    <2> QED
      BY <2>1, PersistAssumption DEF Item
  <1>2. ASSUME NEW i \in DOMAIN s PROVE s[i].attempt_count <= us[s[i].id]
    <2>1. /\ s[i].attempt_count <= ts[s[i].id]
          /\ ts[s[i].id] <= us[s[i].id]
          /\ ts[s[i].id] \in Int /\ us[s[i].id] \in Int
      BY <1>1, PersistAssumption DEF Fits
    <2> QED
      BY <1>1, <2>1
  <1> QED
    BY <1>1, <1>2 DEF Fits

LEMMA WellFormedFits == \A s : WellFormed(s) <=> Fits(s, persist, tries)
  BY DEF WellFormed, Fits

\* Steps that only move the circuit or a call that goes on.
LEMMA QuietStep ==
    ASSUME TypeOK, PersistInv,
           UNCHANGED <<queue, dead, flushVars, stored, tries, faults, crashes>>,
           \A p \in Payload : persist'[p] = "done" <=> persist[p] = "done",
           Matches(circuit')
    PROVE  PersistInv'
  <1> USE DEF flushVars
  <1>1. \A s \in Seq(Item) : \A i \in DOMAIN s : s[i].id \in Payload
    <2>1. \A s \in Seq(Item) : \A i \in DOMAIN s : s[i] \in Item
      OBVIOUS
    <2> QED
      BY <2>1 DEF Item
  <1>2. QueueBound' /\ CircuitMatchesFailures' /\ FlushPhases'
    BY DEF PersistInv, QueueBound, CircuitMatchesFailures, Matches, FlushPhases
  <1>3. WellFormed(queue)' /\ WellFormed(entries)' /\ WellFormed(remaining)'
    BY <1>1 DEF PersistInv, WellFormed, TypeOK
  <1>4. DeadApart'
    BY DEF PersistInv, DeadApart, Ids, TypeOK
  <1>5. Unsent'
    BY DEF PersistInv, Unsent, Ids, TypeOK
  <1> QED
    BY <1>2, <1>3, <1>4, <1>5 DEF PersistInv

LEMMA PersistAttemptKeeps ==
    ASSUME TypeOK, PersistInv, NEW p \in Payload, PersistAttempt(p)
    PROVE  PersistInv'
  <1> USE DEF flushVars
  <1> PICK o \in Outcomes :
        /\ Send(p, o)
        /\ persist' = [persist EXCEPT ![p] = IF o.ok THEN "done" ELSE "enqueue"]
        /\ circuit' = Record(circuit, o.ok)
    BY DEF PersistAttempt
  <1>1. o.ok \in BOOLEAN /\ o.kept \in BOOLEAN /\ (o.ok => o.kept)
    BY OutcomesShape
  <1>2. /\ \A q \in Payload : persist[q] = "done" => persist'[q] = "done"
        /\ persist[p] = "attempt"
    BY DEF PersistAttempt, TypeOK
  <1>3. QueueBound' /\ CircuitMatchesFailures' /\ FlushPhases'
    <2>1. Matches(circuit')
      BY <1>1, CircuitOperators DEF PersistInv, CircuitMatchesFailures, Matches, TypeOK
    <2> QED
      BY <2>1 DEF PersistAttempt, PersistInv, QueueBound, CircuitMatchesFailures,
                  Matches, FlushPhases
  <1>4. WellFormed(queue)' /\ WellFormed(entries)' /\ WellFormed(remaining)'
    BY <1>2, FitsStays DEF PersistAttempt, PersistInv, WellFormed, Fits, TypeOK
  <1>5. DeadApart'
    BY <1>2 DEF PersistAttempt, PersistInv, DeadApart, Ids, TypeOK
  <1>6. Unsent'
    <2> SUFFICES ASSUME crashes' = 0, ~faults' PROVE Unsent'
      BY DEF Unsent
    <2>1. /\ crashes = 0 /\ ~faults /\ o.kept = o.ok
          /\ UNCHANGED <<queue, entries, next, remaining>>
      BY <1>1 DEF Send, PersistAttempt
    <2>2. \A q \in Payload \ {p} : stored'[q] = stored[q] /\ persist'[q] = persist[q]
      BY DEF Send, TypeOK
    <2>3. stored[p] = 0
      BY <1>2, <2>1 DEF PersistInv, Unsent
    <2>4. stored'[p] <= 1 /\ (persist'[p] # "done" => stored'[p] = 0)
      BY <1>1, <2>1, <2>3 DEF Send, TypeOK
    <2>5. /\ \A i \in DOMAIN entries : entries[i].id \in Payload \ {p}
          /\ p \notin Ids(queue) \cup Ids(remaining)
      <3>1. /\ \A i \in DOMAIN entries : entries[i].id # p
            /\ \A i \in DOMAIN queue : queue[i].id # p
            /\ \A i \in DOMAIN remaining : remaining[i].id # p
        BY <1>2 DEF PersistInv, WellFormed
      <3>2. \A i \in DOMAIN entries : entries[i] \in Item
        BY DEF TypeOK
      <3> QED
        BY <3>1, <3>2 DEF Ids, Item
    <2>6. Ids(queue) \cup Ids(remaining) \subseteq Payload
      <3>1. /\ \A i \in DOMAIN queue : queue[i] \in Item
            /\ \A i \in DOMAIN remaining : remaining[i] \in Item
        BY DEF TypeOK
      <3> QED
        BY <3>1 DEF Ids, Item
    <2>7. \A q \in Payload : stored'[q] <= 1 /\ (persist'[q] # "done" => stored'[q] = 0)
      BY <2>1, <2>2, <2>4 DEF PersistInv, Unsent
    <2>8. \A i \in DOMAIN entries : i >= next => stored'[entries[i].id] = 0
      BY <2>1, <2>2, <2>5 DEF PersistInv, Unsent
    <2>9. \A q \in (Ids(queue) \ Ids(entries)) \cup Ids(remaining) : stored'[q] = 0
      BY <2>1, <2>2, <2>5, <2>6 DEF PersistInv, Unsent
    <2> QED
      BY <2>1, <2>7, <2>8, <2>9 DEF Unsent, Ids
  <1> QED
    BY <1>3, <1>4, <1>5, <1>6 DEF PersistInv

LEMMA PersistEnqueueKeeps ==
    ASSUME TypeOK, PersistInv, NEW p \in Payload, PersistEnqueue(p)
    PROVE  PersistInv'
  <1> USE DEF flushVars
  <1>1. /\ \A q \in Payload \ {p} : persist'[q] = persist[q]
        /\ persist[p] = "enqueue" /\ persist'[p] = "done"
    BY DEF PersistEnqueue, TypeOK
  <1>0. queue \in Seq(Item) /\ queue' = EnqueueItem(queue, p)
    BY DEF PersistEnqueue, TypeOK
  <1>a. /\ queue' \in Seq(Item)
        /\ Len(queue) <= MaxDepth => Len(queue') <= MaxDepth
        /\ \E k \in {0, 1} :
              /\ Len(queue') = Len(queue) + 1 - k
              /\ \A i \in 1 .. Len(queue) - k : queue'[i] = queue[i + k]
              /\ queue'[Len(queue')] = [id |-> p, attempt_count |-> 0]
    <2> DEFINE t == EnqueueItem(queue, p)
    <2>1. /\ t \in Seq(Item)
          /\ Len(queue) <= MaxDepth => Len(t) <= MaxDepth
          /\ \E k \in {0, 1} :
                /\ Len(t) = Len(queue) + 1 - k
                /\ \A i \in 1 .. Len(queue) - k : t[i] = queue[i + k]
                /\ t[Len(t)] = [id |-> p, attempt_count |-> 0]
      BY <1>0, EnqueueItemShape
    <2> HIDE DEF t
    <2>2. queue' = t
      BY <1>0 DEF t
    <2> QED
      BY <2>1, <2>2
  <1>2. /\ queue' \in Seq(Item)
        /\ Len(queue) <= MaxDepth => Len(queue') <= MaxDepth
    BY <1>a
  <1> PICK k \in {0, 1} :
        /\ Len(queue') = Len(queue) + 1 - k
        /\ \A i \in 1 .. Len(queue) - k : queue'[i] = queue[i + k]
        /\ queue'[Len(queue')] = [id |-> p, attempt_count |-> 0]
    BY <1>a
  <1>3. \A i \in DOMAIN queue : queue[i].id \in Payload \ {p} /\ persist[queue[i].id] = "done"
    <2>1. \A i \in DOMAIN queue : queue[i] \in Item
      BY DEF TypeOK
    <2> QED
      BY <1>1, <2>1 DEF PersistInv, WellFormed, Item
  <1>4. \A i \in DOMAIN queue' :
           i = Len(queue') \/ (i \in 1 .. Len(queue) - k /\ i + k \in DOMAIN queue)
    <2>1. DOMAIN queue' = 1 .. Len(queue') /\ DOMAIN queue = 1 .. Len(queue)
      BY <1>2 DEF TypeOK
    <2>2. Len(queue) \in Nat /\ Len(queue') \in Nat
      BY <1>2 DEF TypeOK
    <2>3. ASSUME NEW i \in 1 .. Len(queue'), i # Len(queue')
          PROVE  i \in 1 .. Len(queue) - k /\ i + k \in 1 .. Len(queue)
      <3>1. CASE k = 0
        BY <2>2, <2>3, <3>1
      <3>2. CASE k = 1
        BY <2>2, <2>3, <3>2
      <3> QED
        BY <3>1, <3>2
    <2> TAKE i \in DOMAIN queue'
    <2> QED
      BY <2>1, <2>3
  <1>5. WellFormed(queue)'
    <2> SUFFICES ASSUME NEW i \in DOMAIN queue'
                 PROVE  /\ \A j \in DOMAIN queue' : queue'[i].id = queue'[j].id => i = j
                        /\ persist'[queue'[i].id] = "done"
                        /\ queue'[i].attempt_count <= tries'[queue'[i].id]
      BY DEF WellFormed
    <2>1. CASE i = Len(queue')
      <3>1. queue'[i].id = p /\ queue'[i].attempt_count = 0
        BY <2>1
      <3>2. \A j \in DOMAIN queue' : queue'[i].id = queue'[j].id => i = j
        BY <1>3, <1>4, <2>1, <3>1
      <3> QED
        BY <1>1, <3>1, <3>2 DEF PersistEnqueue, TypeOK
    <2>2. CASE i \in 1 .. Len(queue) - k /\ i + k \in DOMAIN queue
      <3>1. queue'[i] = queue[i + k]
        BY <2>2
      <3>2. ASSUME NEW j \in DOMAIN queue', queue'[i].id = queue'[j].id PROVE i = j
        <4>1. CASE j = Len(queue')
          BY <1>3, <2>2, <3>1, <3>2, <4>1
        <4>2. CASE j \in 1 .. Len(queue) - k /\ j + k \in DOMAIN queue
          <5>1. i + k = j + k
            BY <2>2, <3>1, <3>2, <4>2 DEF PersistInv, WellFormed
          <5> QED
            BY <5>1, <2>2, <4>2
        <4> QED
          BY <1>4, <4>1, <4>2
      <3>3. persist'[queue'[i].id] = "done"
        BY <1>1, <1>3, <2>2, <3>1
      <3>4. queue'[i].attempt_count <= tries'[queue'[i].id]
        BY <2>2, <3>1 DEF PersistEnqueue, PersistInv, WellFormed
      <3> QED
        BY <3>2, <3>3, <3>4
    <2> QED
      BY <1>4, <2>1, <2>2
  <1>6. WellFormed(entries)' /\ WellFormed(remaining)'
    <2>1. \A q \in Payload : persist[q] = "done" => persist'[q] = "done"
      BY <1>1
    <2> QED
      BY <2>1, FitsStays DEF PersistEnqueue, PersistInv, WellFormed, Fits, TypeOK
  <1>7. Ids(queue)' \subseteq Ids(queue) \cup {p}
    BY <1>4 DEF Ids
  <1>8. QueueBound' /\ CircuitMatchesFailures' /\ FlushPhases'
    BY <1>2 DEF PersistEnqueue, PersistInv, QueueBound, CircuitMatchesFailures, FlushPhases
  <1>9. DeadApart'
    <2>1. p \notin dead
      BY <1>1 DEF PersistInv, DeadApart
    <2>2. \A q \in dead : persist'[q] = "done" /\ tries'[q] = MaxAttempts
      BY <1>1, <2>1 DEF PersistEnqueue, PersistInv, DeadApart, TypeOK
    <2>3. UNCHANGED <<dead, flush, crashes, entries, remaining>>
      BY DEF PersistEnqueue
    <2> QED
      BY <1>7, <2>1, <2>2, <2>3 DEF PersistInv, DeadApart, Ids
  <1>10. Unsent'
    <2> SUFFICES ASSUME crashes' = 0, ~faults' PROVE Unsent'
      BY DEF Unsent
    <2>1. /\ crashes = 0 /\ ~faults
          /\ UNCHANGED <<stored, entries, next, remaining>>
      BY DEF PersistEnqueue
    <2>2. stored[p] = 0
      BY <1>1, <2>1 DEF PersistInv, Unsent
    <2>3. \A q \in Payload : stored'[q] <= 1 /\ (persist'[q] # "done" => stored'[q] = 0)
      BY <1>1, <2>1 DEF PersistInv, Unsent
    <2>4. \A i \in DOMAIN entries : i >= next => stored'[entries[i].id] = 0
      BY <2>1 DEF PersistInv, Unsent
    <2>5. \A q \in (Ids(queue)' \ Ids(entries)) \cup Ids(remaining) : stored'[q] = 0
      BY <1>7, <2>1, <2>2 DEF PersistInv, Unsent
    <2> QED
      BY <2>1, <2>3, <2>4, <2>5 DEF Unsent, Ids
  <1> QED
    BY <1>5, <1>6, <1>8, <1>9, <1>10 DEF PersistInv

LEMMA FlushBeginKeeps ==
    ASSUME TypeOK, PersistInv, FlushBegin
    PROVE  PersistInv'
  <1> USE DEF history
  <1>1. /\ entries' = queue /\ remaining' = <<>> /\ next' = 1 /\ flush' = "check"
        /\ flush = "none" /\ entries = <<>>
        /\ UNCHANGED <<queue, dead, persist, circuit, stored, tries, faults, crashes>>
    BY DEF FlushBegin, PersistInv, FlushPhases
  <1>2. QueueBound' /\ CircuitMatchesFailures' /\ FlushPhases'
    BY <1>1 DEF PersistInv, QueueBound, CircuitMatchesFailures, FlushPhases
  <1>3. WellFormed(queue)' /\ WellFormed(entries)' /\ WellFormed(remaining)'
    BY <1>1 DEF PersistInv, WellFormed
  <1>4. DeadApart'
    BY <1>1 DEF PersistInv, DeadApart, Ids
  <1>5. Unsent'
    BY <1>1 DEF PersistInv, Unsent, Ids
  <1> QED
    BY <1>2, <1>3, <1>4, <1>5 DEF PersistInv

\* The flush goes on to the health check and to the sends, or gives up.
LEMMA FlushMovesOn ==
    ASSUME TypeOK, PersistInv, FlushCheck \/ FlushHealth
    PROVE  PersistInv'
  <1> USE DEF history
  <1>1. /\ entries' = IF flush' = "none" THEN <<>> ELSE entries
        /\ flush \in {"check", "health"} /\ flush' \in {"none", "health", "send"}
        /\ next = 1 /\ remaining = <<>>
        /\ UNCHANGED <<queue, dead, persist, next, remaining, stored, tries, faults, crashes>>
    BY DEF FlushCheck, FlushHealth, PersistInv, FlushPhases
  <1>2. Matches(circuit')
    <2>1. Alive \in BOOLEAN
      BY DEF Alive
    <2> QED
      BY <2>1, CircuitOperators, SMTT(30) DEF FlushCheck, FlushHealth, PersistInv, TypeOK,
                                    CircuitMatchesFailures, Matches
  <1>3. QueueBound' /\ CircuitMatchesFailures' /\ FlushPhases'
    BY <1>1, <1>2 DEF PersistInv, QueueBound, CircuitMatchesFailures, Matches, FlushPhases
  <1>4. WellFormed(queue)' /\ WellFormed(entries)' /\ WellFormed(remaining)'
    BY <1>1 DEF PersistInv, WellFormed
  <1>5. DeadApart'
    BY <1>1 DEF PersistInv, DeadApart, Ids
  <1>6. Unsent'
    <2> SUFFICES ASSUME crashes' = 0, ~faults' PROVE Unsent'
      BY DEF Unsent
    <2>1. \A q \in Ids(queue) \cup Ids(entries) \cup Ids(remaining) : stored[q] = 0
      <3>1. \A i \in DOMAIN entries : stored[entries[i].id] = 0
        BY <1>1 DEF PersistInv, Unsent, TypeOK
      <3> QED
        BY <1>1, <3>1 DEF PersistInv, Unsent, Ids
    <2>2. \A q \in Payload : stored'[q] <= 1 /\ (persist'[q] # "done" => stored'[q] = 0)
      BY <1>1 DEF PersistInv, Unsent
    <2>3. \A i \in DOMAIN entries' : stored'[entries'[i].id] = 0
      BY <1>1, <2>1 DEF Ids
    <2> QED
      BY <1>1, <2>1, <2>2, <2>3 DEF Unsent, Ids
  <1> QED
    BY <1>3, <1>4, <1>5, <1>6 DEF PersistInv

LEMMA FlushSendKeeps ==
    ASSUME TypeOK, PersistInv, FlushSend
    PROVE  PersistInv'
  <1> DEFINE item == entries[next]
             kept == [item EXCEPT !.attempt_count = @ + 1]
  <1>1. /\ flush = "send" /\ next \in DOMAIN entries /\ item \in Item
        /\ remaining = <<>>
    BY DEF FlushSend, TypeOK, PersistInv, FlushPhases
  <1>2. item.id \in Payload /\ item.attempt_count \in 0 .. MaxAttempts - 1
    BY <1>1 DEF Item
  <1>3. /\ \A i, j \in DOMAIN entries : entries[i].id = entries[j].id => i = j
        /\ persist[item.id] = "done"
        /\ item.attempt_count <= tries[item.id]
    BY <1>1 DEF PersistInv, WellFormed
  <1> PICK o \in Outcomes :
        /\ Send(item.id, o)
        /\ next' = next + 1
        /\ \/ /\ o.ok
              /\ UNCHANGED <<flush, remaining, dead, tries>>
           \/ /\ ~o.ok
              /\ flush' = "save"
              /\ tries' = [tries EXCEPT ![item.id] = IF @ < MaxAttempts THEN @ + 1 ELSE @]
              /\ \/ /\ IsDead(item)
                    /\ dead' = dead \cup {item.id}
                    /\ UNCHANGED remaining
                 \/ /\ ~IsDead(item)
                    /\ remaining' = Append(remaining, kept)
                    /\ UNCHANGED dead
    BY DEF FlushSend
  <1>4. o.ok \in BOOLEAN /\ o.kept \in BOOLEAN /\ (o.ok => o.kept)
    BY OutcomesShape
  <1>5. UNCHANGED <<queue, persist, circuit, entries, crashes>>
    BY DEF FlushSend
  <1>6. /\ tries' \in [Payload -> 0 .. MaxAttempts]
        /\ \A p \in Payload : tries[p] <= tries'[p]
    <2>1. [Next]_vars
      BY DEF Next, Flusher
    <2>2. tries \in [Payload -> 0 .. MaxAttempts] /\ tries' \in [Payload -> 0 .. MaxAttempts]
      BY <2>1, TypeStep DEF TypeOK
    <2>3. \/ tries' = tries
          \/ tries' = [tries EXCEPT ![item.id] = IF @ < MaxAttempts THEN @ + 1 ELSE @]
      OBVIOUS
    <2>4. ASSUME NEW p \in Payload PROVE tries[p] <= tries'[p]
      <3>1. tries[p] \in 0 .. MaxAttempts /\ MaxAttempts \in Nat
        BY <2>2, PersistAssumption
      <3>2. tries'[p] = tries[p] \/ tries'[p] = tries[p] + 1
        BY <2>2, <2>3
      <3> QED
        BY <3>1, <3>2
    <2> QED
      BY <2>2, <2>4
  <1>7. ~o.ok => item.attempt_count + 1 <= tries'[item.id]
    <2>1. tries \in [Payload -> 0 .. MaxAttempts] /\ tries[item.id] \in 0 .. MaxAttempts
      BY <1>2 DEF TypeOK
    <2>2. ~o.ok => tries'[item.id] = IF tries[item.id] < MaxAttempts THEN tries[item.id] + 1
                                     ELSE tries[item.id]
      BY <1>2, <2>1
    <2> QED
      BY <1>2, <1>3, <2>1, <2>2, PersistAssumption
  <1>8. kept.id = item.id /\ kept.attempt_count = item.attempt_count + 1
    BY <1>1 DEF Item
  <1> HIDE DEF kept
  <1>9. remaining' = <<>> \/ (~o.ok /\ ~IsDead(item) /\ remaining' = <<kept>>)
    BY <1>1
  <1>10. QueueBound' /\ CircuitMatchesFailures' /\ FlushPhases'
    <2>1. Len(remaining') <= 1
      BY <1>9
    <2>2. flush' = "save" \/ (flush' = "send" /\ remaining' = <<>>)
      BY <1>1
    <2> QED
      BY <1>5, <2>1, <2>2 DEF PersistInv, QueueBound, CircuitMatchesFailures, FlushPhases
  <1>11. WellFormed(queue)' /\ WellFormed(entries)'
    <2>1. /\ Fits(queue, persist, tries) /\ Fits(entries, persist, tries)
          /\ queue \in Seq(Item) /\ entries \in Seq(Item)
          /\ tries \in [Payload -> 0 .. MaxAttempts]
      BY WellFormedFits DEF PersistInv, TypeOK
    <2>2. Fits(queue, persist, tries') /\ Fits(entries, persist, tries')
      BY <1>6, <2>1, FitsStays
    <2> QED
      BY <1>5, <2>2 DEF WellFormed, Fits
  <1>12. WellFormed(remaining)'
    BY <1>3, <1>5, <1>7, <1>8, <1>9 DEF WellFormed
  <1>13. Ids(remaining)' \subseteq {item.id}
    BY <1>8, <1>9 DEF Ids
  <1>14. DeadApart'
    <2>1. item.id \in Ids(entries)
      BY <1>1 DEF Ids
    <2>2. dead' = dead \/ (~o.ok /\ IsDead(item) /\ dead' = dead \cup {item.id})
      OBVIOUS
    <2>3. ~o.ok /\ IsDead(item) => tries'[item.id] = MaxAttempts
      BY <1>2, <1>6, <1>7, PersistAssumption DEF IsDead
    <2>4. \A p \in dead : persist'[p] = "done" /\ tries'[p] = MaxAttempts
      <3>1. \A p \in dead : p \in Payload /\ persist[p] = "done" /\ tries[p] = MaxAttempts
        BY DEF PersistInv, DeadApart, TypeOK
      <3> QED
        BY <1>5, <1>6, <3>1, PersistAssumption
    <2>5. \A p \in dead' : persist'[p] = "done" /\ tries'[p] = MaxAttempts
      BY <1>3, <1>5, <2>2, <2>3, <2>4
    <2>6. crashes' = 0 => dead' \cap Ids(remaining)' = {}
      <3> SUFFICES ASSUME crashes' = 0 PROVE dead' \cap Ids(remaining)' = {}
        OBVIOUS
      <3>1. item.id \notin dead
        BY <1>1, <1>5, <2>1 DEF PersistInv, DeadApart
      <3>2. CASE remaining' = <<>>
        BY <3>2 DEF Ids
      <3>3. CASE ~o.ok /\ ~IsDead(item)
        BY <1>13, <2>2, <3>1, <3>3
      <3> QED
        BY <1>9, <3>2, <3>3
    <2>7. (crashes' = 0 /\ flush' # "save")
             => dead' \cap (Ids(queue)' \cup Ids(entries)') = {}
      BY <1>1, <1>5 DEF PersistInv, DeadApart, Ids
    <2> QED
      BY <2>5, <2>6, <2>7 DEF DeadApart, Ids
  <1>15. Unsent'
    <2> SUFFICES ASSUME crashes' = 0, ~faults' PROVE Unsent'
      BY DEF Unsent
    <2>1. crashes = 0 /\ ~faults /\ o.kept = o.ok
      BY <1>4, <1>5 DEF Send
    <2>2. /\ \A p \in Payload \ {item.id} : stored'[p] = stored[p]
          /\ stored'[item.id] <= 1
          /\ ~o.ok => stored'[item.id] = 0
      <3>1. stored[item.id] = 0
        BY <1>1, <2>1 DEF PersistInv, Unsent, TypeOK
      <3> QED
        BY <1>2, <1>4, <2>1, <3>1 DEF Send, TypeOK
    <2>3. \A p \in Payload : stored'[p] <= 1 /\ (persist'[p] # "done" => stored'[p] = 0)
      BY <1>3, <1>5, <2>1, <2>2 DEF PersistInv, Unsent
    <2>4. \A i \in DOMAIN entries : i >= next' => stored'[entries[i].id] = 0
      <3> SUFFICES ASSUME NEW i \in DOMAIN entries, i >= next + 1
                   PROVE  stored'[entries[i].id] = 0
        OBVIOUS
      <3>1. i # next /\ i >= next
        BY DEF TypeOK
      <3>2. entries[i].id \in Payload \ {item.id}
        <4>1. entries[i] \in Item
          BY DEF TypeOK
        <4> QED
          BY <1>1, <1>3, <3>1, <4>1 DEF Item
      <3> QED
        BY <2>1, <2>2, <3>1, <3>2 DEF PersistInv, Unsent
    <2>5. \A p \in Ids(queue) \ Ids(entries) : stored'[p] = 0
      <3>1. Ids(queue) \ Ids(entries) \subseteq Payload \ {item.id}
        <4>1. \A i \in DOMAIN queue : queue[i] \in Item
          BY DEF TypeOK
        <4> QED
          BY <1>1, <4>1 DEF Ids, Item
      <3> QED
        BY <2>1, <2>2, <3>1 DEF PersistInv, Unsent
    <2>6. \A p \in Ids(remaining)' : stored'[p] = 0
      <3>1. CASE remaining' = <<>>
        BY <3>1 DEF Ids
      <3>2. CASE ~o.ok
        BY <1>13, <2>2, <3>2
      <3> QED
        BY <1>9, <3>1, <3>2
    <2> QED
      BY <1>5, <2>3, <2>4, <2>5, <2>6 DEF Unsent, Ids
  <1> QED
    BY <1>10, <1>11, <1>12, <1>14, <1>15 DEF PersistInv

LEMMA FlushEndKeeps ==
    ASSUME TypeOK, PersistInv, FlushSentAll \/ FlushSave
    PROVE  PersistInv'
  <1> USE DEF history
  <1>1. CASE FlushSentAll
    <2>1. /\ flush = "send" /\ flush' = "save" /\ remaining = <<>>
          /\ UNCHANGED <<queue, dead, persist, circuit, entries, next, remaining,
                         stored, tries, faults, crashes>>
      BY <1>1 DEF FlushSentAll, PersistInv, FlushPhases
    <2>2. QueueBound' /\ CircuitMatchesFailures' /\ FlushPhases'
      BY <2>1 DEF PersistInv, QueueBound, CircuitMatchesFailures, FlushPhases
    <2>3. WellFormed(queue)' /\ WellFormed(entries)' /\ WellFormed(remaining)'
      BY <2>1 DEF PersistInv, WellFormed
    <2>4. DeadApart'
      BY <2>1 DEF PersistInv, DeadApart, Ids
    <2>5. Unsent'
      BY <2>1 DEF PersistInv, Unsent, Ids
    <2> QED
      BY <2>2, <2>3, <2>4, <2>5 DEF PersistInv
  <1>2. CASE FlushSave
    <2>1. /\ queue' = remaining /\ entries' = <<>> /\ remaining' = <<>> /\ next' = 1
          /\ flush = "save" /\ flush' = "none"
          /\ UNCHANGED <<dead, persist, circuit, stored, tries, faults, crashes>>
      BY <1>2 DEF FlushSave
    <2>2. QueueBound' /\ CircuitMatchesFailures' /\ FlushPhases'
      BY <2>1, PersistAssumption
         DEF PersistInv, QueueBound, CircuitMatchesFailures, FlushPhases, TypeOK
    <2>3. WellFormed(queue)' /\ WellFormed(entries)' /\ WellFormed(remaining)'
      BY <2>1 DEF PersistInv, WellFormed
    <2>4. DeadApart'
      BY <2>1 DEF PersistInv, DeadApart, Ids
    <2>5. Unsent'
      BY <2>1 DEF PersistInv, Unsent, Ids
    <2> QED
      BY <2>2, <2>3, <2>4, <2>5 DEF PersistInv
  <1> QED
    BY <1>1, <1>2

LEMMA CrashKeeps ==
    ASSUME TypeOK, PersistInv, Crash
    PROVE  PersistInv'
  <1>1. /\ crashes' = crashes + 1 /\ circuit' = Closed /\ flush' = "none"
        /\ entries' = <<>> /\ next' = 1 /\ remaining' = <<>>
        /\ UNCHANGED <<queue, dead, tries>>
        /\ \A p \in Payload : persist[p] = "done" => persist'[p] = "done"
    BY DEF Crash
  <1>2. crashes' # 0
    BY <1>1 DEF TypeOK
  <1>3. QueueBound' /\ CircuitMatchesFailures' /\ FlushPhases'
    BY <1>1, CircuitOperators, PersistAssumption
       DEF PersistInv, QueueBound, CircuitMatchesFailures, FlushPhases, Closed, TypeOK
  <1>4. WellFormed(queue)'
    <2>1. /\ Fits(queue, persist, tries) /\ queue \in Seq(Item)
          /\ tries \in [Payload -> 0 .. MaxAttempts]
      BY WellFormedFits DEF PersistInv, TypeOK
    <2>2. \A p \in Payload : tries[p] <= tries[p]
      BY <2>1, PersistAssumption
    <2>3. Fits(queue, persist', tries)
      BY <1>1, <2>1, <2>2, FitsStays
    <2> QED
      BY <1>1, <2>3 DEF WellFormed, Fits
  <1>5. WellFormed(entries)' /\ WellFormed(remaining)'
    BY <1>1 DEF WellFormed
  <1>6. DeadApart'
    BY <1>1, <1>2 DEF PersistInv, DeadApart, TypeOK
  <1>7. Unsent'
    BY <1>2 DEF Unsent
  <1> QED
    BY <1>3, <1>4, <1>5, <1>6, <1>7 DEF PersistInv

LEMMA PersistInvStep == TypeOK /\ PersistInv /\ [Next]_vars => PersistInv'
  <1> SUFFICES ASSUME TypeOK, PersistInv, [Next]_vars PROVE PersistInv'
    OBVIOUS
  <1> USE DEF history
  <1>1. /\ \A success \in BOOLEAN : Matches(Record(circuit, success))
        /\ Matches(CheckCircuit(circuit)) /\ Matches(Closed) /\ Matches(circuit)
        /\ Alive \in BOOLEAN
    BY CircuitOperators DEF PersistInv, CircuitMatchesFailures, Matches, TypeOK, Alive
  <1>2. ASSUME NEW p \in Payload, PersistTask(p) \/ PersistHealth(p) PROVE PersistInv'
    <2>1. \A q \in Payload : persist'[q] = "done" <=> persist[q] = "done"
      BY <1>2 DEF PersistTask, PersistHealth, TypeOK
    <2>2. Matches(circuit')
      BY <1>1, <1>2 DEF PersistTask, PersistHealth
    <2> QED
      BY <1>2, <2>1, <2>2, QuietStep DEF PersistTask, PersistHealth
  <1>3. ASSUME NEW p \in Payload, PersistAttempt(p) PROVE PersistInv'
    BY <1>3, PersistAttemptKeeps
  <1>4. ASSUME NEW p \in Payload, PersistEnqueue(p) PROVE PersistInv'
    BY <1>4, PersistEnqueueKeeps
  <1>5. CASE Flusher
    BY <1>5, FlushBeginKeeps, FlushMovesOn, FlushSendKeeps, FlushEndKeeps DEF Flusher
  <1>6. CASE FlushIfReady \/ ResetCircuit \/ BrainChanges
    <2>1. Matches(circuit')
      BY <1>1, <1>6 DEF FlushIfReady, ResetCircuit, BrainChanges
    <2> QED
      BY <1>6, <2>1, QuietStep DEF FlushIfReady, ResetCircuit, BrainChanges
  <1>7. CASE CooldownPasses
    <2>1. Matches(circuit')
      BY <1>1, <1>7 DEF CooldownPasses, Matches, TypeOK, Circuit
    <2> QED
      BY <1>7, <2>1, QuietStep DEF CooldownPasses
  <1>8. CASE Crash
    BY <1>8, CrashKeeps
  <1>9. CASE UNCHANGED vars
    BY <1>1, <1>9, QuietStep DEF vars, flushVars
  <1> QED
    BY <1>2, <1>3, <1>4, <1>5, <1>6, <1>7, <1>8, <1>9 DEF Next, Caller

\* The invariant the properties below follow from.
THEOREM PersistCorrect == Spec => []PersistInv
  <1>1. Init => PersistInv
    <2> SUFFICES ASSUME Init PROVE PersistInv
      OBVIOUS
    <2>1. QueueBound /\ CircuitMatchesFailures /\ FlushPhases
      BY PersistAssumption
         DEF Init, QueueBound, CircuitMatchesFailures, FlushPhases, Closed
    <2>2. WellFormed(queue) /\ WellFormed(entries) /\ WellFormed(remaining)
      BY DEF Init, WellFormed
    <2>3. DeadApart
      BY DEF Init, DeadApart
    <2>4. Unsent
      BY DEF Init, Unsent, Ids
    <2> QED
      BY <2>1, <2>2, <2>3, <2>4 DEF PersistInv
  <1>2. TypeOK /\ PersistInv /\ [Next]_vars => PersistInv'
    BY PersistInvStep
  <1> QED
    BY <1>1, <1>2, TypeCorrect, PTL DEF Spec

-----------------------------------------------------------------------------
(* What the invariant gives.                                               *)

\* The queue file never outgrows MAX_QUEUE_DEPTH.
THEOREM QueueBounded == Spec => []QueueBound
  <1>1. PersistInv => QueueBound
    BY DEF PersistInv
  <1> QED
    BY <1>1, PersistCorrect, PTL

\* The circuit is closed exactly while the failure count is below the threshold,
\* whatever late results arrive.
THEOREM CircuitConsistent == Spec => []CircuitMatchesFailures
  <1>1. PersistInv => CircuitMatchesFailures
    BY DEF PersistInv
  <1> QED
    BY <1>1, PersistCorrect, PTL

\* Barring crashes and answers lost on the way back, nothing is stored twice:
\* neither by two flushes nor by a flush and the call that queued the payload.
THEOREM NothingStoredTwice == Spec => []StoredOnce
  <1>1. PersistInv => StoredOnce
    BY DEF PersistInv, Unsent, StoredOnce
  <1> QED
    BY <1>1, PersistCorrect, PTL

\* Entries are given up only after MAX_PERSIST_ATTEMPTS failures of their own.
THEOREM AttemptsAreHonest == Spec => []AttemptsHonest
  <1>1. PersistInv => AttemptsHonest
    BY DEF PersistInv, DeadApart, WellFormed, AttemptsHonest
  <1> QED
    BY <1>1, PersistCorrect, PTL

\* A dead letter has left the queue, and a payload is queued once at most.
THEOREM QueueIsClean == Spec => []QueuedOnce
  <1>1. PersistInv => QueuedOnce
    BY DEF PersistInv, DeadApart, WellFormed, QueuedOnce
  <1> QED
    BY <1>1, PersistCorrect, PTL

\* While the circuit is open and its cooldown has not passed, no call and no
\* flush newly reaches the health check of the knowledge store.
THEOREM OpenCircuitKeepsOut == Spec => OpenKeepsOut
  <1> DEFINE A == (circuit.state = "open" /\ ~circuit.cooled /\ circuit'.state = "open")
                     => /\ \A p \in Payload : persist'[p] = "health" => persist[p] = "health"
                        /\ flush' = "health" => flush = "health"
  <1>1. TypeOK /\ [Next]_vars => A \/ UNCHANGED vars
    <2> SUFFICES ASSUME TypeOK, Next, circuit.state = "open", ~circuit.cooled
                 PROVE  /\ \A p \in Payload : persist'[p] = "health" => persist[p] = "health"
                        /\ flush' = "health" => flush = "health"
      OBVIOUS
    <2>1. ~Allows(circuit)
      BY DEF Allows
    <2>2. ASSUME NEW p \in Payload, Caller(p)
          PROVE  flush' = flush
                 /\ \A q \in Payload : persist'[q] = "health" => persist[q] = "health"
      <3>1. flush' = flush
        BY <2>2 DEF Caller, PersistTask, PersistHealth, PersistAttempt, PersistEnqueue,
                    flushVars
      <3>2. \E v \in {"attempt", "enqueue", "done"} : persist' = [persist EXCEPT ![p] = v]
        BY <2>1, <2>2 DEF Caller, PersistTask, PersistHealth, PersistAttempt, PersistEnqueue
      <3> QED
        BY <3>1, <3>2 DEF TypeOK
    <2>3. CASE Flusher
      BY <2>1, <2>3 DEF Flusher, FlushBegin, FlushCheck, FlushHealth, FlushSend,
                        FlushSentAll, FlushSave
    <2>4. CASE FlushIfReady \/ CooldownPasses \/ ResetCircuit \/ BrainChanges
      BY <2>4 DEF FlushIfReady, CooldownPasses, ResetCircuit, BrainChanges, flushVars
    <2>5. CASE Crash
      BY <2>5 DEF Crash
    <2> QED
      BY <2>2, <2>3, <2>4, <2>5 DEF Next
  <1> QED
    BY <1>1, TypeCorrect, PTL DEF Spec, OpenKeepsOut
=============================================================================
