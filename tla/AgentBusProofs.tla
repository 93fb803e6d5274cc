---------------------------- MODULE AgentBusProofs ----------------------------
(***************************************************************************)
(* Proofs about AgentBus for every set of messages and webhooks.  BusInv   *)
(* is the inductive invariant.  Its first half is about messages and rows  *)
(* (the loop writes one update at a time and carries what memory says),    *)
(* its second half about pushes (what the thread holds and what is queued  *)
(* are the end of the log).                                                *)
(***************************************************************************)
EXTENDS AgentBus, TLAPS

-----------------------------------------------------------------------------
\* What every step of the specification is, one disjunct per action.
Step ==
    \/ \E m \in Message :
          SendStore(m) \/ SendWrite(m) \/ SendNotify(m) \/ Respond(m) \/ MarkRead(m)
    \/ \E u \in writing : WriteUpdate(u)
    \/ \E h \in Hook : Register(h) \/ Unregister(h) \/ PickTarget(h)
    \/ TakeBatch
    \/ \E t \in trying : PushSucceeds(t) \/ PushFails(t)
    \/ Restart

LEMMA NextIsStep == Next <=> Step
BY DEF Next, Step, Send, Request, Deliver

-----------------------------------------------------------------------------
(* Type correctness.                                                       *)

LEMMA InitTypeOK == Init => TypeOK
BY BusAssumption DEF Init, TypeOK

\* A batch loses a target of its first delivery, or that delivery.
LEMMA AdvanceType ==
    ASSUME TypeOK, batch # <<>>, NEW h \in Hook, Advance(h)
    PROVE  batch' \in Seq(Delivery) /\ trying' = {}
<1>0. batch \in Seq(Delivery) /\ Len(batch) > 0
  <2>1. batch \in Seq(Delivery)
    BY DEF TypeOK
  <2>2. QED
    BY <2>1
<1>1. CASE Head(batch).targets = {h}
  BY <1>0, <1>1 DEF Advance
<1>2. CASE Head(batch).targets # {h}
  <2>1. batch[1] \in Delivery /\ 1 \in DOMAIN batch
    BY <1>0
  <2>2. [batch[1] EXCEPT !.targets = @ \ {h}] \in Delivery
    BY <2>1 DEF Delivery
  <2>3. batch' = [batch EXCEPT ![1] = [batch[1] EXCEPT !.targets = @ \ {h}]]
    BY <1>2, <2>1 DEF Advance
  <2>4. batch' \in Seq(Delivery)
    BY <1>0, <2>2, <2>3
  <2>5. QED
    BY <2>4 DEF Advance
<1>3. QED
  BY <1>1, <1>2 DEF Advance

LEMMA StepTypeOK == TypeOK /\ OneTarget /\ [Next]_vars => TypeOK'
<1> SUFFICES ASSUME TypeOK, OneTarget, [Next]_vars
             PROVE  TypeOK'
  OBVIOUS
<1> USE DEF store, tables, pushes
<1>1. ASSUME NEW m \in Message, SendStore(m)  PROVE TypeOK'
  BY <1>1 DEF SendStore, TypeOK
<1>2. ASSUME NEW m \in Message, SendWrite(m)  PROVE TypeOK'
  BY <1>2 DEF SendWrite, Serialised, TypeOK
<1>3. ASSUME NEW m \in Message, SendNotify(m)  PROVE TypeOK'
  <2>1. Targets(m) \in SUBSET Hook
    BY DEF Targets
  <2>2. [msg |-> m, targets |-> Targets(m)] \in Delivery
    BY <2>1 DEF Delivery
  <2>3. queue' \in Seq(Delivery) /\ log' \in Seq(Message)
    <3>1. queue \in Seq(Delivery) /\ log \in Seq(Message)
      BY DEF TypeOK
    <3>2. /\ Append(queue, [msg |-> m, targets |-> Targets(m)]) \in Seq(Delivery)
          /\ Append(log, m) \in Seq(Message)
      BY <2>2, <3>1
    <3>3. QED
      BY <1>3, <3>1, <3>2 DEF SendNotify
  <2>4. due' \subseteq Pair
    <3>1. due \subseteq Pair /\ {m} \X Targets(m) \subseteq Pair
      BY <2>1 DEF TypeOK, Pair
    <3>2. QED
      BY <1>3, <3>1 DEF SendNotify
  <2>5. sender' \in [Message -> {"new", "storing", "notifying", "sent", "cut off"}]
    BY <1>3 DEF SendNotify, TypeOK
  <2>6. QED
    BY <1>3, <2>3, <2>4, <2>5 DEF SendNotify, TypeOK
<1>4. ASSUME NEW m \in Message, NEW flag \in Flag, Change(m, flag)
      PROVE  flags' \in [Message -> SUBSET Flag] /\ writing' \subseteq Update
  <2>1. flags \in [Message -> SUBSET Flag] /\ flags[m] \cup {flag} \in SUBSET Flag
    BY <1>4 DEF TypeOK
  <2>2. [msg |-> m, flag |-> flag, copy |-> flags[m] \cup {flag}] \in Update
    BY <2>1 DEF Update
  <2>3. QED
    BY <1>4, <2>1, <2>2 DEF Change
<1>5. ASSUME NEW m \in Message, Respond(m)  PROVE TypeOK'
  <2>1. flags' \in [Message -> SUBSET Flag] /\ writing' \subseteq Update
    BY <1>4, <1>5 DEF Respond, Flag
  <2>2. responses' \subseteq Message
    BY <1>5 DEF Respond, TypeOK
  <2>3. QED
    BY <1>5, <2>1, <2>2 DEF Respond, TypeOK
<1>6. ASSUME NEW m \in Message, MarkRead(m)  PROVE TypeOK'
  <2>1. flags' \in [Message -> SUBSET Flag] /\ writing' \subseteq Update
    BY <1>4, <1>6 DEF MarkRead, Flag
  <2>2. QED
    BY <1>6, <2>1 DEF MarkRead, TypeOK
<1>7. ASSUME NEW u \in writing, WriteUpdate(u)  PROVE TypeOK'
  <2>1. u.msg \in Message /\ u.copy \in SUBSET Flag
    BY DEF TypeOK, Update
  <2>2. QED
    BY <1>7, <2>1 DEF WriteUpdate, TypeOK
<1>8. ASSUME NEW h \in Hook, Register(h)  PROVE TypeOK'
  BY <1>8 DEF Register, TypeOK
<1>9. ASSUME NEW h \in Hook, Unregister(h)  PROVE TypeOK'
  BY <1>9 DEF Unregister, TypeOK
<1>10. ASSUME NEW h \in Hook, PickTarget(h)  PROVE TypeOK'
  <2>1. [hook |-> h, failed |-> 0] \in Attempt
    BY BusAssumption DEF Attempt
  <2>2. QED
    BY <1>10, <2>1 DEF PickTarget, TypeOK
<1>11. CASE TakeBatch
  BY <1>11 DEF TakeBatch, TypeOK
<1>12. ASSUME NEW t \in trying
       PROVE  /\ batch # <<>> /\ t.hook \in Hook /\ t.failed \in 0 .. MaxAttempts - 1
              /\ <<Head(batch).msg, t.hook>> \in Pair
  <2>1. batch # <<>> /\ t.hook \in Hook /\ t.failed \in 0 .. MaxAttempts - 1
    BY DEF OneTarget, TypeOK, Attempt
  <2>2. Head(batch) \in Delivery
    <3>1. batch \in Seq(Delivery)
      BY DEF TypeOK
    <3>2. QED
      BY <2>1, <3>1
  <2>3. QED
    BY <2>1, <2>2 DEF Delivery, Pair
<1>13. ASSUME NEW t \in trying, PushSucceeds(t)  PROVE TypeOK'
  <2>1. batch' \in Seq(Delivery) /\ trying' = {}
    BY <1>12, <1>13, AdvanceType DEF PushSucceeds
  <2>2. received' \subseteq Pair /\ recorded' \subseteq Pair
    BY <1>12, <1>13 DEF PushSucceeds, TypeOK
  <2>3. QED
    BY <1>13, <2>1, <2>2 DEF PushSucceeds, TypeOK
<1>14. ASSUME NEW t \in trying, PushFails(t)  PROVE TypeOK'
  <2>1. received' \subseteq Pair
    BY <1>12, <1>14 DEF PushFails, TypeOK
  <2>2. CASE t.failed + 1 < MaxAttempts
    <3>1. t \in Attempt /\ t.failed + 1 \in 0 .. MaxAttempts - 1
      <4>1. t \in Attempt
        BY DEF TypeOK
      <4>2. t.failed \in 0 .. MaxAttempts - 1
        BY <1>12
      <4>3. MaxAttempts \in Nat
        BY BusAssumption DEF BusAssumption
      <4>4. QED
        BY <2>2, <4>1, <4>2, <4>3
    <3>2. [t EXCEPT !.failed = @ + 1] \in Attempt
      BY <3>1 DEF Attempt
    <3>3. QED
      BY <1>14, <2>1, <2>2, <3>2 DEF PushFails, TypeOK
  <2>3. CASE ~(t.failed + 1 < MaxAttempts)
    <3>1. batch' \in Seq(Delivery) /\ trying' = {}
      BY <1>12, <1>14, <2>3, AdvanceType DEF PushFails
    <3>2. recorded' \subseteq Pair
      BY <1>12, <1>14, <2>3 DEF PushFails, TypeOK
    <3>3. QED
      BY <1>14, <2>1, <3>1, <3>2 DEF PushFails, TypeOK
  <2>4. QED
    BY <2>2, <2>3
<1>15. CASE Restart
  <2>1. sender' \in [Message -> {"new", "storing", "notifying", "sent", "cut off"}]
    BY <1>15 DEF Restart, TypeOK
  <2>2. restarts' \in 0 .. MaxRestarts
    <3>1. restarts \in 0 .. MaxRestarts /\ restarts < MaxRestarts /\ restarts' = restarts + 1
      BY <1>15 DEF Restart, TypeOK
    <3>2. QED
      BY <3>1, BusAssumption
  <2>3. queue' \in Seq(Delivery) /\ batch' \in Seq(Delivery)
    <3>1. queue' = <<>> /\ batch' = <<>>
      BY <1>15 DEF Restart
    <3>2. QED
      BY <3>1
  <2>4. QED
    BY <1>15, <2>1, <2>2, <2>3 DEF Restart, TypeOK
<1>16. CASE UNCHANGED vars
  BY <1>16 DEF vars, TypeOK
<1>17. QED
  BY <1>1, <1>2, <1>3, <1>5, <1>6, <1>7, <1>8, <1>9, <1>10, <1>11, <1>13, <1>14,
     <1>15, <1>16, NextIsStep DEF Step

-----------------------------------------------------------------------------
(* What a step does to the messages, and what it does to the pushes.       *)

LEMMA MessageStep ==
    ASSUME [Next]_vars
    PROVE  \/ UNCHANGED <<sender, messages, flags, stored, row, writing>>
           \/ \E m \in Message : SendStore(m) \/ SendWrite(m) \/ SendNotify(m)
           \/ \E m \in Message, flag \in Flag :
                 Change(m, flag) /\ UNCHANGED <<sender, messages, stored, row>>
           \/ \E u \in writing : WriteUpdate(u)
           \/ Restart
<1> USE DEF store, tables
<1>1. ASSUME NEW m \in Message, Respond(m)
      PROVE  Change(m, "responded") /\ UNCHANGED <<sender, messages, stored, row>>
  BY <1>1 DEF Respond
<1>2. ASSUME NEW m \in Message, MarkRead(m)
      PROVE  Change(m, "read") /\ UNCHANGED <<sender, messages, stored, row>>
  BY <1>2 DEF MarkRead
<1>3. ASSUME NEW h \in Hook, Register(h) \/ Unregister(h) \/ PickTarget(h)
      PROVE  UNCHANGED <<sender, messages, flags, stored, row, writing>>
  BY <1>3 DEF Register, Unregister, PickTarget
<1>4. ASSUME NEW t \in trying, PushSucceeds(t) \/ PushFails(t)
      PROVE  UNCHANGED <<sender, messages, flags, stored, row, writing>>
  BY <1>4 DEF PushSucceeds, PushFails
<1>5. CASE TakeBatch
  BY <1>5 DEF TakeBatch
<1>6. CASE UNCHANGED vars
  BY <1>6 DEF vars
<1>7. QED
  BY <1>1, <1>2, <1>3, <1>4, <1>5, <1>6, NextIsStep DEF Step, Flag

\* A post: the webhook may receive the message; either it will be tried again or
\* the delivery is over.
Posted(t) ==
    LET pair == <<Head(batch).msg, t.hook>>
    IN  /\ UNCHANGED <<queue, due, log, sender, stored>>
        /\ received \subseteq received' /\ received' \subseteq received \cup {pair}
        /\ \/ /\ UNCHANGED <<batch, recorded>>
              /\ trying' = {[t EXCEPT !.failed = @ + 1]}
           \/ /\ Advance(t.hook)
              /\ recorded' = recorded \cup {pair}

LEMMA PushStep ==
    ASSUME [Next]_vars
    PROVE  \/ UNCHANGED <<queue, batch, trying, received, recorded, due, log>>
           \/ \E m \in Message : SendNotify(m)
           \/ TakeBatch
           \/ \E h \in Hook : PickTarget(h)
           \/ \E t \in trying : Posted(t)
           \/ Restart
<1> USE DEF pushes
<1>1. ASSUME NEW m \in Message, SendStore(m) \/ SendWrite(m) \/ Respond(m) \/ MarkRead(m)
      PROVE  UNCHANGED <<queue, batch, trying, received, recorded, due, log>>
  BY <1>1 DEF SendStore, SendWrite, Respond, MarkRead
<1>2. ASSUME NEW u \in writing, WriteUpdate(u)
      PROVE  UNCHANGED <<queue, batch, trying, received, recorded, due, log>>
  BY <1>2 DEF WriteUpdate
<1>3. ASSUME NEW h \in Hook, Register(h) \/ Unregister(h)
      PROVE  UNCHANGED <<queue, batch, trying, received, recorded, due, log>>
  BY <1>3 DEF Register, Unregister
<1>4. ASSUME NEW t \in trying, PushSucceeds(t)  PROVE Posted(t)
  BY <1>4 DEF PushSucceeds, Posted, tables
<1>5. ASSUME NEW t \in trying, PushFails(t)  PROVE Posted(t)
  BY <1>5 DEF PushFails, Posted, tables
<1>6. CASE UNCHANGED vars
  BY <1>6 DEF vars
<1>7. QED
  BY <1>1, <1>2, <1>3, <1>4, <1>5, <1>6, NextIsStep DEF Step

-----------------------------------------------------------------------------
(* Messages and rows.                                                      *)

LEMMA StepOneUpdate == TypeOK /\ OneUpdate /\ [Next]_vars => OneUpdate'
<1> SUFFICES ASSUME TypeOK, OneUpdate, [Next]_vars
             PROVE  OneUpdate'
  OBVIOUS
<1> USE DEF store, tables, OneUpdate
<1>1. CASE UNCHANGED <<sender, messages, flags, stored, row, writing>>
  BY <1>1
<1>2. ASSUME NEW m \in Message, SendStore(m) \/ SendWrite(m) \/ SendNotify(m)
      PROVE  OneUpdate'
  BY <1>2 DEF SendStore, SendWrite, SendNotify
<1>3. ASSUME NEW m \in Message, NEW flag \in Flag, Change(m, flag),
             UNCHANGED <<sender, messages, stored, row>>
      PROVE  OneUpdate'
  <2>1. flags'[m] = flags[m] \cup {flag}
    BY <1>3 DEF Change, TypeOK
  <2>2. QED
    BY <1>3, <2>1 DEF Change
<1>4. ASSUME NEW u \in writing, WriteUpdate(u)  PROVE OneUpdate'
  BY <1>4 DEF WriteUpdate
<1>5. CASE Restart
  BY <1>5 DEF Restart
<1>6. QED
  BY <1>1, <1>2, <1>3, <1>4, <1>5, MessageStep

LEMMA StepRowsBehind == TypeOK /\ OneUpdate /\ RowsBehind /\ [Next]_vars => RowsBehind'
<1> SUFFICES ASSUME TypeOK, OneUpdate, RowsBehind, [Next]_vars
             PROVE  RowsBehind'
  OBVIOUS
<1> USE DEF store, tables, RowsBehind
<1>1. CASE UNCHANGED <<sender, messages, flags, stored, row, writing>>
  BY <1>1
<1>2. ASSUME NEW m \in Message, SendStore(m)  PROVE RowsBehind'
  BY <1>2 DEF SendStore, TypeOK
<1>3. ASSUME NEW m \in Message, SendWrite(m)  PROVE RowsBehind'
  BY <1>3 DEF SendWrite, Serialised, TypeOK
<1>4. ASSUME NEW m \in Message, SendNotify(m)  PROVE RowsBehind'
  BY <1>4 DEF SendNotify, TypeOK
<1>5. ASSUME NEW m \in Message, NEW flag \in Flag, Change(m, flag),
             UNCHANGED <<sender, messages, stored, row>>
      PROVE  RowsBehind'
  BY <1>5 DEF Change, TypeOK
<1>6. ASSUME NEW u \in writing, WriteUpdate(u)  PROVE RowsBehind'
  <2>1. u.msg \in messages /\ u.copy = flags[u.msg]
    BY DEF OneUpdate
  <2>2. QED
    BY <1>6, <2>1 DEF WriteUpdate, TypeOK
<1>7. CASE Restart
  BY <1>7 DEF Restart, TypeOK
<1>8. QED
  BY <1>1, <1>2, <1>3, <1>4, <1>5, <1>6, <1>7, MessageStep

LEMMA StepDurable ==
    TypeOK /\ OneUpdate /\ RowsBehind /\ Durable /\ [Next]_vars => Durable'
<1> SUFFICES ASSUME TypeOK, OneUpdate, RowsBehind, Durable, [Next]_vars
             PROVE  Durable'
  OBVIOUS
<1> USE DEF store, tables, Durable
<1>1. CASE UNCHANGED <<sender, messages, flags, stored, row, writing>>
  BY <1>1
<1>2. ASSUME NEW m \in Message, SendStore(m)  PROVE Durable'
  BY <1>2 DEF SendStore, TypeOK
<1>3. ASSUME NEW m \in Message, SendWrite(m)  PROVE Durable'
  BY <1>3 DEF SendWrite, Serialised, TypeOK
<1>4. ASSUME NEW m \in Message, SendNotify(m)  PROVE Durable'
  BY <1>4 DEF SendNotify, TypeOK
<1>5. ASSUME NEW m \in Message, NEW flag \in Flag, Change(m, flag),
             UNCHANGED <<sender, messages, stored, row>>
      PROVE  Durable'
  <2>1. \A w \in Message \ {m} : flags'[w] = flags[w]
    BY <1>5 DEF Change, TypeOK
  <2>2. writing = {} /\ \E u \in writing' : u.msg = m
    BY <1>5 DEF Change, LoopIsFree
  <2>3. QED
    BY <1>5, <2>1, <2>2 DEF TypeOK
<1>6. ASSUME NEW u \in writing, WriteUpdate(u)  PROVE Durable'
  <2>1. u.msg \in messages /\ u.copy = flags[u.msg] /\ \A w \in writing : w = u
    BY DEF OneUpdate
  <2>2. row'[u.msg] = flags[u.msg] /\ \A m \in Message \ {u.msg} : row'[m] = row[m]
    BY <1>6, <2>1 DEF WriteUpdate, TypeOK
  <2>3. QED
    BY <1>6, <2>1, <2>2 DEF WriteUpdate, TypeOK
<1>7. CASE Restart
  BY <1>7 DEF Restart, TypeOK
<1>8. QED
  BY <1>1, <1>2, <1>3, <1>4, <1>5, <1>6, <1>7, MessageStep

LEMMA StepQueuedAreStored ==
    TypeOK /\ QueuedAreStored /\ [Next]_vars => QueuedAreStored'
<1> SUFFICES ASSUME TypeOK, QueuedAreStored, [Next]_vars
             PROVE  QueuedAreStored'
  OBVIOUS
<1> USE DEF store, tables, pushes, QueuedAreStored
<1>0. log \in Seq(Message) /\ \A i \in DOMAIN log : log[i] \in Message
  <2>1. log \in Seq(Message)
    BY DEF TypeOK
  <2>2. QED
    BY <2>1
<1>1. CASE UNCHANGED <<sender, stored, log>>
  BY <1>1
<1>2. ASSUME NEW m \in Message, SendStore(m)  PROVE QueuedAreStored'
  BY <1>0, <1>2 DEF SendStore, TypeOK
<1>3. ASSUME NEW m \in Message, SendWrite(m)  PROVE QueuedAreStored'
  BY <1>0, <1>3 DEF SendWrite, TypeOK
<1>4. ASSUME NEW m \in Message, SendNotify(m)  PROVE QueuedAreStored'
  <2>1. m \in stored /\ \A i \in DOMAIN log : log[i] # m
    BY <1>4 DEF SendNotify
  <2>2. /\ sender'[m] = "sent"
        /\ \A w \in Message \ {m} : sender'[w] = sender[w]
        /\ stored' = stored
    BY <1>4 DEF SendNotify, TypeOK
  <2>3. CASE log' = log
    BY <1>0, <2>1, <2>2, <2>3
  <2>4. CASE log' = Append(log, m)
    <3>1. /\ DOMAIN log' = 1 .. Len(log) + 1
          /\ \A i \in DOMAIN log : log'[i] = log[i]
          /\ log'[Len(log) + 1] = m
          /\ DOMAIN log = 1 .. Len(log)
      BY <1>0, <2>4
    <3>2. \A i \in DOMAIN log' : i \in DOMAIN log \/ i = Len(log) + 1
      BY <1>0, <3>1
    <3>3. \A i \in DOMAIN log' : sender'[log'[i]] = "sent" /\ log'[i] \in stored
      BY <1>0, <2>1, <2>2, <3>1, <3>2
    <3>4. \A i, j \in DOMAIN log' : log'[i] = log'[j] => i = j
      BY <2>1, <3>1, <3>2
    <3>5. QED
      BY <2>1, <2>2, <3>3, <3>4
  <2>5. QED
    BY <1>4, <2>3, <2>4 DEF SendNotify
<1>5. ASSUME NEW u \in writing, WriteUpdate(u)  PROVE QueuedAreStored'
  BY <1>5 DEF WriteUpdate
<1>6. CASE Restart
  BY <1>0, <1>6 DEF Restart, TypeOK
<1>7. ASSUME NEW m \in Message, Respond(m) \/ MarkRead(m)
      PROVE  UNCHANGED <<sender, stored, log>>
  BY <1>7 DEF Respond, MarkRead
<1>8. ASSUME NEW h \in Hook, Register(h) \/ Unregister(h) \/ PickTarget(h)
      PROVE  UNCHANGED <<sender, stored, log>>
  BY <1>8 DEF Register, Unregister, PickTarget
<1>9. ASSUME NEW t \in trying, PushSucceeds(t) \/ PushFails(t)
      PROVE  UNCHANGED <<sender, stored, log>>
  BY <1>9 DEF PushSucceeds, PushFails
<1>10. CASE TakeBatch
  BY <1>1, <1>10 DEF TakeBatch
<1>11. CASE UNCHANGED vars
  BY <1>1, <1>11 DEF vars
<1>12. QED
  BY <1>1, <1>2, <1>3, <1>4, <1>5, <1>6, <1>7, <1>8, <1>9, <1>10, <1>11, NextIsStep DEF Step

-----------------------------------------------------------------------------
(* Pushes.                                                                 *)

LEMMA SequencesType ==
    ASSUME TypeOK
    PROVE  /\ batch \in Seq(Delivery) /\ queue \in Seq(Delivery) /\ log \in Seq(Message)
           /\ DOMAIN batch = 1 .. Len(batch) /\ Len(batch) \in Nat
           /\ DOMAIN queue = 1 .. Len(queue) /\ Len(queue) \in Nat
           /\ DOMAIN log = 1 .. Len(log) /\ Len(log) \in Nat
<1>1. batch \in Seq(Delivery) /\ queue \in Seq(Delivery) /\ log \in Seq(Message)
  BY DEF TypeOK
<1>2. QED
  BY <1>1

\* What Advance leaves: the deliveries behind the first, and the first while it has
\* other targets.
LEMMA AdvanceEffect ==
    ASSUME TypeOK, batch # <<>>, NEW h \in Hook, Advance(h)
    PROVE  /\ \/ /\ Len(batch') = Len(batch) - 1
                 /\ DOMAIN batch' = 1 .. Len(batch')
                 /\ \A i \in DOMAIN batch' : batch'[i] = batch[i + 1]
                 /\ Head(batch).targets = {h}
              \/ /\ Len(batch') = Len(batch)
                 /\ DOMAIN batch' = DOMAIN batch
                 /\ \A i \in DOMAIN batch : batch'[i].msg = batch[i].msg
                 /\ \A i \in DOMAIN batch \ {1} : batch'[i] = batch[i]
                 /\ batch'[1].targets = Head(batch).targets \ {h}
           /\ trying' = {}
<1>0. /\ batch \in Seq(Delivery) /\ Len(batch) \in Nat \ {0} /\ 1 \in DOMAIN batch
      /\ DOMAIN batch = 1 .. Len(batch) /\ Head(batch) = batch[1] /\ batch[1] \in Delivery
  BY SequencesType
<1>1. CASE Head(batch).targets = {h}
  <2>1. batch' = Tail(batch)
    BY <1>1 DEF Advance
  <2>2. /\ Len(Tail(batch)) = Len(batch) - 1
        /\ DOMAIN Tail(batch) = 1 .. Len(batch) - 1
        /\ \A i \in 1 .. Len(batch) - 1 : Tail(batch)[i] = batch[i + 1]
    BY <1>0
  <2>3. QED
    BY <1>1, <2>1, <2>2 DEF Advance
<1>2. CASE Head(batch).targets # {h}
  <2>1. batch' = [batch EXCEPT ![1] = [batch[1] EXCEPT !.targets = @ \ {h}]]
    BY <1>0, <1>2 DEF Advance
  <2> DEFINE d == [batch[1] EXCEPT !.targets = @ \ {h}]
  <2>2. d.msg = batch[1].msg /\ d.targets = batch[1].targets \ {h} /\ d \in Delivery
    BY <1>0 DEF Delivery
  <2> HIDE DEF d
  <2>3. batch' = [batch EXCEPT ![1] = d]
    BY <2>1 DEF d
  <2>4. /\ Len(batch') = Len(batch) /\ DOMAIN batch' = DOMAIN batch
        /\ batch'[1] = d /\ \A i \in DOMAIN batch \ {1} : batch'[i] = batch[i]
    BY <1>0, <2>2, <2>3
  <2>5. QED
    BY <1>0, <2>2, <2>4 DEF Advance
<1>3. QED
  BY <1>1, <1>2

LEMMA StepOneTarget == TypeOK /\ OneTarget /\ [Next]_vars => OneTarget'
<1> SUFFICES ASSUME TypeOK, OneTarget, [Next]_vars
             PROVE  OneTarget'
  OBVIOUS
<1> USE DEF OneTarget
<1>1. CASE UNCHANGED <<queue, batch, trying, received, recorded, due, log>>
  BY <1>1
<1>2. ASSUME NEW m \in Message, SendNotify(m)  PROVE OneTarget'
  BY <1>2 DEF SendNotify
<1>3. CASE TakeBatch
  BY <1>3 DEF TakeBatch
<1>4. ASSUME NEW h \in Hook, PickTarget(h)  PROVE OneTarget'
  BY <1>4 DEF PickTarget
<1>5. ASSUME NEW t \in trying, Posted(t)  PROVE OneTarget'
  <2>1. CASE batch' = batch /\ trying' = {[t EXCEPT !.failed = @ + 1]}
    <3>1. [t EXCEPT !.failed = @ + 1].hook = t.hook
      BY DEF TypeOK, Attempt
    <3>2. QED
      BY <2>1, <3>1
  <2>2. CASE trying' = {}
    BY <2>2
  <2>3. QED
    BY <1>5, <2>1, <2>2 DEF Posted, Advance
<1>6. CASE Restart
  BY <1>6 DEF Restart
<1>7. QED
  BY <1>1, <1>2, <1>3, <1>4, <1>5, <1>6, PushStep

\* The pushes of a queue to which one delivery is appended.
LEMMA PairsAppend ==
    ASSUME NEW s \in Seq(Delivery), NEW d \in Delivery
    PROVE  \A p \in Pair :
              p \in Pairs(s) \/ (p[1] = d.msg /\ p[2] \in d.targets) => p \in Pairs(Append(s, d))
<1>1. /\ DOMAIN s = 1 .. Len(s) /\ Len(s) \in Nat
      /\ DOMAIN Append(s, d) = 1 .. Len(s) + 1
      /\ \A i \in DOMAIN s : i \in DOMAIN Append(s, d) /\ Append(s, d)[i] = s[i]
      /\ Append(s, d)[Len(s) + 1] = d /\ Len(s) + 1 \in DOMAIN Append(s, d)
  OBVIOUS
<1>2. QED
  BY <1>1 DEF Pairs

\* Advance takes one pair from the batch.
LEMMA PairsAdvance ==
    ASSUME TypeOK, batch # <<>>, NEW h \in Hook, Advance(h)
    PROVE  Pairs(batch) \subseteq Pairs(batch') \cup {<<Head(batch).msg, h>>}
<1> SUFFICES ASSUME NEW p \in Pairs(batch), p # <<Head(batch).msg, h>>
             PROVE  p \in Pairs(batch')
  OBVIOUS
<1>1. p \in Pair /\ p = <<p[1], p[2]>>
  BY DEF Pairs, Pair
<1>2. PICK i \in DOMAIN batch : p[1] = batch[i].msg /\ p[2] \in batch[i].targets
  BY DEF Pairs
<1>3. /\ DOMAIN batch = 1 .. Len(batch) /\ Len(batch) \in Nat \ {0}
      /\ Head(batch) = batch[1]
  BY SequencesType
<1>4. i = 1 => p[2] # h
  BY <1>1, <1>2, <1>3
<1>5. CASE /\ Len(batch') = Len(batch) - 1
           /\ DOMAIN batch' = 1 .. Len(batch')
           /\ \A j \in DOMAIN batch' : batch'[j] = batch[j + 1]
           /\ Head(batch).targets = {h}
  <2>1. i # 1
    BY <1>2, <1>3, <1>4, <1>5
  <2>2. i - 1 \in DOMAIN batch' /\ batch'[i - 1] = batch[i]
    BY <1>2, <1>3, <1>5, <2>1
  <2>3. QED
    BY <1>1, <1>2, <2>2 DEF Pairs
<1>6. CASE /\ DOMAIN batch' = DOMAIN batch
           /\ \A j \in DOMAIN batch : batch'[j].msg = batch[j].msg
           /\ \A j \in DOMAIN batch \ {1} : batch'[j] = batch[j]
           /\ batch'[1].targets = Head(batch).targets \ {h}
  BY <1>1, <1>2, <1>3, <1>4, <1>6 DEF Pairs
<1>7. QED
  BY <1>5, <1>6, AdvanceEffect

LEMMA StepNoPushLost ==
    TypeOK /\ OneTarget /\ NoPushLost /\ [Next]_vars => NoPushLost'
<1> SUFFICES ASSUME TypeOK, OneTarget, NoPushLost, [Next]_vars
             PROVE  NoPushLost'
  OBVIOUS
<1> USE DEF NoPushLost
<1>1. CASE UNCHANGED <<queue, batch, trying, received, recorded, due, log>>
  BY <1>1 DEF Pairs
<1>2. ASSUME NEW m \in Message, SendNotify(m)  PROVE NoPushLost'
  <2>1. batch' = batch /\ recorded' = recorded
    BY <1>2 DEF SendNotify
  <2>2. Pairs(batch') = Pairs(batch)
    BY <2>1
  <2>3. CASE UNCHANGED <<queue, due>>
    BY <2>1, <2>3 DEF Pairs
  <2>4. CASE /\ queue' = Append(queue, [msg |-> m, targets |-> Targets(m)])
             /\ due' = due \cup ({m} \X Targets(m))
    <3>1. queue \in Seq(Delivery) /\ [msg |-> m, targets |-> Targets(m)] \in Delivery
      BY SequencesType DEF Targets, Delivery
    <3>2. \A p \in Pair : p \in Pairs(queue) \/ (p[1] = m /\ p[2] \in Targets(m))
                            => p \in Pairs(queue')
      BY <2>4, <3>1, PairsAppend
    <3>3. \A p \in {m} \X Targets(m) : p \in Pair /\ p[1] = m /\ p[2] \in Targets(m)
      BY DEF Targets, Pair
    <3>4. Pairs(queue) \subseteq Pair
      BY DEF Pairs
    <3>5. due' \subseteq Pairs(queue') \cup Pairs(batch) \cup recorded
      BY <2>4, <3>2, <3>3, <3>4
    <3>6. QED
      BY <2>1, <2>2, <3>5
  <2>5. QED
    BY <1>2, <2>3, <2>4 DEF SendNotify
<1>3. CASE TakeBatch
  <2>1. Pairs(batch) = {}
    BY <1>3 DEF TakeBatch, Pairs
  <2>2. batch' = queue /\ UNCHANGED <<due, recorded>>
    BY <1>3 DEF TakeBatch
  <2>3. Pairs(batch') = Pairs(queue)
    BY <2>2 DEF Pairs
  <2>4. QED
    BY <2>1, <2>2, <2>3
<1>4. ASSUME NEW h \in Hook, PickTarget(h)  PROVE NoPushLost'
  BY <1>4 DEF PickTarget, Pairs
<1>5. ASSUME NEW t \in trying, Posted(t)  PROVE NoPushLost'
  <2>1. queue' = queue /\ due' = due /\ Pairs(queue') = Pairs(queue)
    BY <1>5 DEF Posted, Pairs
  <2>2. CASE UNCHANGED <<batch, recorded>>
    BY <2>1, <2>2 DEF Pairs
  <2>3. CASE Advance(t.hook) /\ recorded' = recorded \cup {<<Head(batch).msg, t.hook>>}
    <3>1. batch # <<>> /\ t.hook \in Hook
      BY DEF OneTarget, TypeOK, Attempt
    <3>2. Pairs(batch) \subseteq Pairs(batch') \cup {<<Head(batch).msg, t.hook>>}
      BY <2>3, <3>1, PairsAdvance
    <3>3. QED
      BY <2>1, <2>3, <3>2
  <2>4. QED
    BY <1>5, <2>2, <2>3 DEF Posted
<1>6. CASE Restart
  BY <1>6 DEF Restart
<1>7. QED
  BY <1>1, <1>2, <1>3, <1>4, <1>5, <1>6, PushStep

\* The delivery in progress is the first of the log that is not done with.
LEMMA HeadInLog ==
    ASSUME TypeOK, InLogOrder, batch # <<>>
    PROVE  Done + 1 \in DOMAIN log /\ Head(batch).msg = log[Done + 1] /\ Done \in Nat
<1>1. Len(batch) > 0 /\ Head(batch) = batch[1] /\ 1 \in DOMAIN batch
  BY SequencesType
<1>2. Done \in Nat /\ Done + 1 <= Len(log)
  BY <1>1, SequencesType DEF InLogOrder, Done
<1>3. QED
  BY <1>1, <1>2, SequencesType DEF InLogOrder

LEMMA StepInLogOrder ==
    TypeOK /\ OneTarget /\ InLogOrder /\ [Next]_vars => InLogOrder'
<1> SUFFICES ASSUME TypeOK, OneTarget, InLogOrder, [Next]_vars
             PROVE  InLogOrder'
  OBVIOUS
<1>1. CASE UNCHANGED <<queue, batch, trying, received, recorded, due, log>>
  BY <1>1 DEF InLogOrder, Done
<1>2. ASSUME NEW m \in Message, SendNotify(m)  PROVE InLogOrder'
  <2>1. batch' = batch /\ received' = received
    BY <1>2 DEF SendNotify
  <2>2. CASE UNCHANGED <<queue, log>>
    BY <2>1, <2>2 DEF InLogOrder, Done
  <2>3. CASE /\ queue' = Append(queue, [msg |-> m, targets |-> Targets(m)])
             /\ log' = Append(log, m)
    <3> DEFINE d == [msg |-> m, targets |-> Targets(m)]
    <3>1. d \in Delivery /\ d.msg = m
      BY DEF Targets, Delivery
    <3> HIDE DEF d
    <3>2. queue' = Append(queue, d)
      BY <2>3 DEF d
    <3>3. /\ Len(queue') = Len(queue) + 1 /\ DOMAIN queue' = 1 .. Len(queue) + 1
          /\ queue'[Len(queue) + 1] = d
          /\ \A i \in DOMAIN queue : queue'[i] = queue[i]
      BY <3>1, <3>2, SequencesType
    <3>4. /\ Len(log') = Len(log) + 1 /\ DOMAIN log' = 1 .. Len(log) + 1
          /\ log'[Len(log) + 1] = m
          /\ \A i \in DOMAIN log : log'[i] = log[i]
      BY <2>3, SequencesType
    <3>5. Done' = Done /\ Done \in Nat
      BY <2>1, <3>3, <3>4, SequencesType DEF Done, InLogOrder
    <3>6. Done + Len(batch) + Len(queue) = Len(log)
      BY SequencesType DEF Done
    <3>7. \A i \in DOMAIN batch' : batch'[i].msg = log'[Done + i]
      <4>1. \A i \in DOMAIN batch : Done + i \in DOMAIN log
        BY <3>5, <3>6, SequencesType
      <4>2. QED
        BY <2>1, <3>4, <4>1 DEF InLogOrder
    <3>8. \A i \in DOMAIN queue' : queue'[i].msg = log'[Done + Len(batch) + i]
      <4>1. \A i \in DOMAIN queue : Done + Len(batch) + i \in DOMAIN log
        BY <3>5, <3>6, SequencesType
      <4>2. \A i \in DOMAIN queue : queue'[i].msg = log'[Done + Len(batch) + i]
        BY <3>3, <3>4, <4>1 DEF InLogOrder
      <4>3. Done + Len(batch) + (Len(queue) + 1) = Len(log) + 1
        BY <3>5, <3>6, SequencesType
      <4>4. \A i \in DOMAIN queue' : i \in DOMAIN queue \/ i = Len(queue) + 1
        BY <3>3, SequencesType
      <4>5. QED
        BY <3>1, <3>3, <3>4, <4>2, <4>3, <4>4
    <3>9. \A p \in received' : \E i \in DOMAIN log' : log'[i] = p[1] /\ i <= Done + 1
      BY <2>1, <3>4, SequencesType DEF InLogOrder
    <3>10. QED
      BY <2>1, <3>5, <3>7, <3>8, <3>9 DEF InLogOrder
  <2>4. QED
    BY <1>2, <2>2, <2>3 DEF SendNotify
<1>3. CASE TakeBatch
  <2>1. batch = <<>> /\ batch' = queue /\ queue' = <<>> /\ UNCHANGED <<log, received>>
    BY <1>3 DEF TakeBatch
  <2>2. Len(batch) = 0 /\ Len(queue') = 0 /\ DOMAIN queue' = {}
    BY <2>1
  <2>3. Done' = Done /\ Done \in Int
    BY <2>1, <2>2, SequencesType DEF Done
  <2>4. \A i \in DOMAIN queue : Done + Len(batch) + i = Done + i
    BY <2>2, <2>3, SequencesType
  <2>5. QED
    BY <2>1, <2>2, <2>3, <2>4 DEF InLogOrder
<1>4. ASSUME NEW h \in Hook, PickTarget(h)  PROVE InLogOrder'
  BY <1>4 DEF PickTarget, InLogOrder, Done
<1>5. ASSUME NEW t \in trying, Posted(t)  PROVE InLogOrder'
  <2>1. /\ queue' = queue /\ log' = log
        /\ received' \subseteq received \cup {<<Head(batch).msg, t.hook>>}
    BY <1>5 DEF Posted
  <2>2. batch # <<>> /\ t.hook \in Hook
    BY DEF OneTarget, TypeOK, Attempt
  <2>3. Done + 1 \in DOMAIN log /\ Head(batch).msg = log[Done + 1] /\ Done \in Nat
    BY <2>2, HeadInLog
  <2>4. \A p \in received' : \E i \in DOMAIN log : log[i] = p[1] /\ i <= Done + 1
    BY <2>1, <2>3 DEF InLogOrder
  <2>5. CASE Len(batch') = Len(batch) /\ DOMAIN batch' = DOMAIN batch
             /\ \A i \in DOMAIN batch : batch'[i].msg = batch[i].msg
    <3>1. Done' = Done
      BY <2>1, <2>5 DEF Done
    <3>2. QED
      BY <2>1, <2>4, <2>5, <3>1 DEF InLogOrder
  <2>6. CASE /\ Len(batch') = Len(batch) - 1 /\ DOMAIN batch' = 1 .. Len(batch')
             /\ \A i \in DOMAIN batch' : batch'[i] = batch[i + 1]
    <3>1. Done' = Done + 1
      BY <2>1, <2>3, <2>6, SequencesType DEF Done
    <3>2. \A i \in DOMAIN batch' : batch'[i].msg = log[Done' + i]
      <4>1. \A i \in DOMAIN batch' : i + 1 \in DOMAIN batch /\ Done + (i + 1) = Done' + i
        <5>1. DOMAIN batch = 1 .. Len(batch) /\ Len(batch) \in Nat
          BY SequencesType
        <5>2. DOMAIN batch' = 1 .. Len(batch) - 1
          BY <2>6
        <5>3. QED
          BY <2>3, <3>1, <5>1, <5>2
      <4>2. QED
        BY <2>6, <4>1 DEF InLogOrder
    <3>3. \A i \in DOMAIN queue : Done' + Len(batch') + i = Done + Len(batch) + i
      BY <2>3, <2>6, <3>1, SequencesType
    <3>4. \A p \in received' : \E i \in DOMAIN log : log[i] = p[1] /\ i <= Done' + 1
      BY <2>3, <2>4, <3>1, SequencesType
    <3>5. QED
      BY <2>1, <2>3, <3>1, <3>2, <3>3, <3>4 DEF InLogOrder
  <2>7. CASE Advance(t.hook)
    BY <2>2, <2>5, <2>6, <2>7, AdvanceEffect
  <2>8. CASE batch' = batch
    BY <2>5, <2>8
  <2>9. QED
    BY <1>5, <2>7, <2>8 DEF Posted
<1>6. CASE Restart
  <2>1. queue' = <<>> /\ batch' = <<>> /\ log' = log /\ received' = received
    BY <1>6 DEF Restart
  <2>2. /\ Len(queue') = 0 /\ Len(batch') = 0 /\ DOMAIN queue' = {} /\ DOMAIN batch' = {}
    BY <2>1
  <2>3. Done' = Len(log) /\ Len(log) \in Nat
    BY <2>1, <2>2, SequencesType DEF Done
  <2>4. \A p \in received' : \E i \in DOMAIN log' : log'[i] = p[1] /\ i <= Done' + 1
    BY <2>1, <2>3, SequencesType DEF InLogOrder
  <2>5. QED
    BY <2>2, <2>3, <2>4 DEF InLogOrder
<1>7. QED
  BY <1>1, <1>2, <1>3, <1>4, <1>5, <1>6, PushStep

-----------------------------------------------------------------------------
(* The invariant.                                                          *)

LEMMA StepSentAreStored ==
    ASSUME TypeOK, QueuedAreStored, [Next]_vars,
           \A m \in Message : sender[m] = "sent" => m \in stored
    PROVE  \A m \in Message : sender'[m] = "sent" => m \in stored'
<1> USE DEF store, tables
<1>1. CASE UNCHANGED <<sender, messages, flags, stored, row, writing>>
  BY <1>1
<1>2. ASSUME NEW m \in Message, SendStore(m) \/ SendWrite(m) \/ SendNotify(m)
      PROVE  \A w \in Message : sender'[w] = "sent" => w \in stored'
  <2>1. \A w \in Message \ {m} : sender'[w] = sender[w]
    BY <1>2 DEF SendStore, SendWrite, SendNotify, TypeOK
  <2>2. stored \subseteq stored'
    BY <1>2 DEF SendStore, SendWrite, SendNotify
  <2>3. sender'[m] = "sent" => m \in stored
    <3>1. CASE SendStore(m)
      BY <3>1 DEF SendStore, TypeOK
    <3>2. CASE SendWrite(m)
      BY <3>2 DEF SendWrite, TypeOK
    <3>3. CASE SendNotify(m)
      BY <3>3 DEF SendNotify, QueuedAreStored
    <3> QED
      BY <1>2, <3>1, <3>2, <3>3
  <2> QED
    BY <2>1, <2>2, <2>3
<1>3. ASSUME NEW u \in writing, WriteUpdate(u)
      PROVE  \A w \in Message : sender'[w] = "sent" => w \in stored'
  BY <1>3 DEF WriteUpdate
<1>4. CASE Restart
  BY <1>4 DEF Restart, TypeOK
<1>5. QED
  BY <1>1, <1>2, <1>3, <1>4, MessageStep

LEMMA InitBusInv == Init => BusInv
<1> SUFFICES ASSUME Init
             PROVE  BusInv
  OBVIOUS
<1>1. OneUpdate /\ RowsBehind /\ Durable /\ OneTarget /\ PushedIsStored
  BY DEF Init, OneUpdate, RowsBehind, Durable, OneTarget, PushedIsStored
<1>2. queue = <<>> /\ batch = <<>> /\ log = <<>> /\ received = {} /\ due = {}
  BY DEF Init
<1>3. QueuedAreStored
  BY <1>2 DEF Init, QueuedAreStored
<1>4. InLogOrder
  BY <1>2 DEF InLogOrder, Done
<1>5. NoPushLost
  BY <1>2 DEF NoPushLost
<1>6. QED
  BY <1>1, <1>3, <1>4, <1>5 DEF BusInv

LEMMA StepBusInv == TypeOK /\ BusInv /\ [Next]_vars => BusInv'
<1> SUFFICES ASSUME TypeOK, BusInv, [Next]_vars
             PROVE  BusInv'
  OBVIOUS
<1>1. /\ OneUpdate /\ RowsBehind /\ Durable /\ QueuedAreStored /\ PushedIsStored
      /\ InLogOrder /\ OneTarget /\ NoPushLost
  BY DEF BusInv
<1>2. OneUpdate' /\ RowsBehind' /\ Durable'
  BY <1>1, StepOneUpdate, StepRowsBehind, StepDurable
<1>3. QueuedAreStored' /\ InLogOrder' /\ OneTarget' /\ NoPushLost'
  BY <1>1, StepQueuedAreStored, StepInLogOrder, StepOneTarget, StepNoPushLost
<1>4. PushedIsStored'
  <2>1. \A m \in Message : sender[m] = "sent" => m \in stored
    BY <1>1 DEF PushedIsStored
  <2>2. \A m \in Message : sender'[m] = "sent" => m \in stored'
    BY <1>1, <2>1, StepSentAreStored
  <2>3. \A p \in received' : p[1] \in stored'
    BY <1>3 DEF QueuedAreStored, InLogOrder
  <2>4. QED
    BY <1>2, <2>2, <2>3 DEF PushedIsStored, RowsBehind
<1>5. QED
  BY <1>2, <1>3, <1>4 DEF BusInv

LEMMA TypeAndBus == Spec => [](TypeOK /\ BusInv)
<1>1. BusInv => OneTarget
  BY DEF BusInv
<1>2. QED
  BY <1>1, InitTypeOK, InitBusInv, StepTypeOK, StepBusInv, PTL DEF Spec

\* Type correctness of the bus.
THEOREM TypeCorrect == Spec => []TypeOK
BY TypeAndBus, PTL

\* The inductive invariant of the bus, for every set of messages and webhooks.
THEOREM BusCorrect == Spec => []BusInv
BY TypeAndBus, PTL

\* Outside a write, a message's row says what memory says, whichever of send,
\* respond and mark_read wrote it last.
THEOREM RowsAreCurrent == Spec => []Durable
<1>1. BusInv => Durable
  BY DEF BusInv
<1>2. QED
  BY <1>1, BusCorrect, PTL

\* What a sender was told was sent, and what a webhook received, can be looked up.
THEOREM PushesAreStored == Spec => []PushedIsStored
<1>1. BusInv => PushedIsStored
  BY DEF BusInv
<1>2. QED
  BY <1>1, BusCorrect, PTL

\* A push that was queued is queued, held by the thread, or recorded.
THEOREM PushesAreKept == Spec => []NoPushLost
<1>1. BusInv => NoPushLost
  BY DEF BusInv
<1>2. QED
  BY <1>1, BusCorrect, PTL

\* No write and no restart takes back an answer or a read mark that has a row.
THEOREM AnswersAreKept == Spec => AckedKept
<1>1. ASSUME TypeOK, BusInv, BusInv', [Next]_vars
      PROVE  \A m \in Message : row[m] \subseteq row'[m] /\ row'[m] \subseteq flags'[m]
  <2> USE DEF store, tables
  <2>1. OneUpdate /\ RowsBehind /\ RowsBehind'
    BY <1>1 DEF BusInv
  <2>2. CASE row' = row
    BY <2>1, <2>2 DEF RowsBehind
  <2>3. ASSUME NEW m \in Message, SendWrite(m)
        PROVE  \A w \in Message : row[w] \subseteq row'[w]
    BY <1>1, <2>1, <2>3 DEF SendWrite, Serialised, RowsBehind, TypeOK
  <2>4. ASSUME NEW u \in writing, WriteUpdate(u)
        PROVE  \A w \in Message : row[w] \subseteq row'[w]
    <3>1. u.msg \in Message /\ u.copy = flags[u.msg]
      BY <1>1, <2>1 DEF OneUpdate, TypeOK
    <3>2. QED
      BY <1>1, <2>1, <2>4, <3>1 DEF WriteUpdate, RowsBehind, TypeOK
  <2>5. ASSUME NEW m \in Message, SendStore(m) \/ SendNotify(m)  PROVE row' = row
    BY <2>5 DEF SendStore, SendNotify
  <2>6. CASE Restart
    BY <2>2, <2>6 DEF Restart
  <2>7. QED
    BY <1>1, <2>1, <2>2, <2>3, <2>4, <2>5, <2>6, MessageStep DEF RowsBehind
<1>2. QED
  BY <1>1, TypeAndBus, PTL DEF Spec, AckedKept

\* Every webhook receives messages in the order in which they were queued.
THEOREM PushesInOrder == Spec => InOrder
<1>1. ASSUME TypeOK, BusInv, [Next]_vars
      PROVE  \A p \in received' \ received :
                \A i, j \in DOMAIN log :
                    (log[i] = p[1] /\ i < j) => <<log[j], p[2]>> \notin received
  <2> SUFFICES ASSUME NEW p \in received' \ received,
                      NEW i \in DOMAIN log, NEW j \in DOMAIN log,
                      log[i] = p[1], i < j, <<log[j], p[2]>> \in received
               PROVE  FALSE
    OBVIOUS
  <2>1. QueuedAreStored /\ InLogOrder /\ OneTarget
    BY <1>1 DEF BusInv
  <2>2. PICK t \in trying : Posted(t)
    BY <1>1, PushStep DEF SendNotify, TakeBatch, PickTarget, Restart
  <2>3. batch # <<>> /\ p[1] = Head(batch).msg
    BY <2>1, <2>2 DEF Posted, OneTarget
  <2>4. Done + 1 \in DOMAIN log /\ p[1] = log[Done + 1] /\ Done \in Nat
    BY <1>1, <2>1, <2>3, HeadInLog
  <2>5. i = Done + 1
    BY <2>1, <2>4 DEF QueuedAreStored
  <2>6. PICK k \in DOMAIN log : log[k] = log[j] /\ k <= Done + 1
    BY <2>1 DEF InLogOrder
  <2>7. k = j
    BY <2>1, <2>6 DEF QueuedAreStored
  <2>8. i \in Nat /\ j \in Nat
    BY <1>1, SequencesType
  <2>9. QED
    BY <2>4, <2>5, <2>6, <2>7, <2>8
<1>2. QED
  BY <1>1, TypeAndBus, PTL DEF Spec, InOrder
=============================================================================
