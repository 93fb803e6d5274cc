--------------------------- MODULE DaemonsProofs ---------------------------
(***************************************************************************)
(* Proofs about the daemons that poll the server, for every set of         *)
(* messages, tasks and workers and every bound.  The monitor's sessions    *)
(* are limited and no trigger starts two (MonitorInv); the Codex daemon    *)
(* marks what it replied to, and replies once (CodexInv); no task of the   *)
(* remote worker is run twice or lost in silence: what that rests on is    *)
(* that a task that was started never becomes pending again, and that a    *)
(* worker holds only submitted tasks (KushInv).                            *)
(***************************************************************************)
EXTENDS MCDaemons, FiniteSetTheorems, TLAPS

-----------------------------------------------------------------------------
(* The monitor's sessions: how many are counted.                           *)

Sessions(spawns) == UNION {{a} \X (1 .. spawns[a]) : a \in Ages}

LEMMA SessionMembers ==
  ASSUME NEW spawns \in [Ages -> Nat], NEW s
  PROVE  s \in Sessions(spawns) <=> \E a \in Ages : \E n \in 1 .. spawns[a] : s = <<a, n>>
BY DEF Sessions

LEMMA SessionsFinite ==
  ASSUME NEW spawns \in [Ages -> Nat]
  PROVE  /\ IsFiniteSet(Sessions(spawns))
         /\ Total(spawns) = Cardinality(Sessions(spawns)) /\ Total(spawns) \in Nat
<1> DEFINE Of == [a \in Ages |-> {a} \X (1 .. spawns[a])]
           All == {{a} \X (1 .. spawns[a]) : a \in Ages}
<1>1. IsFiniteSet(Ages)
  BY FS_Interval, MonitorAssumption DEF Ages
<1>2. Of \in Surjection(Ages, All)
  BY DEF Surjection
<1>3. IsFiniteSet(All)
  BY <1>1, <1>2, FS_Surjection
<1>4. ASSUME NEW a \in Ages PROVE IsFiniteSet({a} \X (1 .. spawns[a]))
  <2>1. IsFiniteSet({a})
    BY FS_Singleton
  <2>2. 1 \in Int /\ spawns[a] \in Int
    OBVIOUS
  <2>3. IsFiniteSet(1 .. spawns[a])
    BY <2>2, FS_Interval
  <2>4. QED
    BY <2>1, <2>3, FS_Product
<1>5. IsFiniteSet(Sessions(spawns))
  <2>1. \A T \in All : IsFiniteSet(T)
    BY <1>4
  <2> HIDE DEF All
  <2>2. IsFiniteSet(UNION All)
    BY <1>3, <2>1, FS_UNION
  <2>3. QED
    BY <2>2 DEF Sessions, All
<1>6. QED
  BY <1>5, FS_CardinalityType DEF Total, Sessions

\* What counts no session less counts at least as many.
LEMMA TotalGrows ==
  ASSUME NEW f \in [Ages -> Nat], NEW g \in [Ages -> Nat], \A a \in Ages : f[a] <= g[a]
  PROVE  Total(f) <= Total(g)
<1>1. Sessions(f) \subseteq Sessions(g)
  <2> SUFFICES ASSUME NEW a \in Ages, NEW n \in 1 .. f[a] PROVE <<a, n>> \in Sessions(g)
    BY SessionMembers
  <2>1. n \in 1 .. g[a]
    OBVIOUS
  <2>2. QED
    BY <2>1, SessionMembers
<1>2. QED
  BY <1>1, SessionsFinite, FS_Subset

\* A session that is started adds one to the count.
LEMMA TotalAdds ==
  ASSUME NEW f \in [Ages -> Nat], NEW g, g = [f EXCEPT ![0] = @ + 1]
  PROVE  g \in [Ages -> Nat] /\ Total(g) <= Total(f) + 1
<1>1. 0 \in Ages /\ g \in [Ages -> Nat]
  BY MonitorAssumption DEF Ages
<1>2. g[0] = f[0] + 1 /\ \A a \in Ages \ {0} : g[a] = f[a]
  BY <1>1
<1>3. Sessions(g) \subseteq Sessions(f) \cup {<<0, f[0] + 1>>}
  <2> SUFFICES ASSUME NEW s \in Sessions(g), s # <<0, f[0] + 1>>
               PROVE  s \in Sessions(f)
    OBVIOUS
  <2>1. PICK a \in Ages : \E n \in 1 .. g[a] : s = <<a, n>>
    <3>1. g \in [Ages -> Nat]
      BY <1>1
    <3>2. QED
      BY <3>1, SessionMembers, Zenon
  <2>2. PICK n \in 1 .. g[a] : s = <<a, n>>
    BY <2>1
  <2>3. n \in 1 .. f[a]
    <3>1. CASE a = 0
      BY <1>1, <1>2, <2>2, <3>1
    <3>2. CASE a # 0
      BY <1>2, <3>2
    <3>3. QED
      BY <3>1, <3>2
  <2>4. QED
    BY <2>2, <2>3, SessionMembers
<1> DEFINE More == Sessions(f) \cup {<<0, f[0] + 1>>}
<1>4. IsFiniteSet(More) /\ Cardinality(More) \in {Total(f), Total(f) + 1}
  <2>1. IsFiniteSet(Sessions(f)) /\ Total(f) = Cardinality(Sessions(f))
    BY SessionsFinite
  <2>2. QED
    BY <2>1, FS_AddElement
<1> HIDE DEF More
<1>5. Total(g) <= Cardinality(More)
  <2>1. Sessions(g) \in SUBSET More
    BY <1>3 DEF More
  <2>2. Total(g) = Cardinality(Sessions(g))
    BY <1>1, SessionsFinite
  <2>3. QED
    BY <1>4, <2>1, <2>2, FS_Subset
<1>6. Total(f) \in Nat
  BY SessionsFinite
<1>7. Total(g) \in Nat
  BY <1>1, SessionsFinite, Zenon
<1>8. QED
  BY <1>1, <1>4, <1>5, <1>6, <1>7

\* A tick of the clock adds nothing to the count.
LEMMA TotalAges ==
  ASSUME NEW f \in [Ages -> Nat]
  PROVE  Older(f) \in [Ages -> Nat] /\ Total(Older(f)) <= Total(f)
<1>1. Older(f) \in [Ages -> Nat] /\ Older(f)[0] = 0 /\ 0 \in Ages
  BY MonitorAssumption DEF Older, Ages
<1>2. \A a \in Ages \ {0} : a - 1 \in Ages /\ Older(f)[a] = f[a - 1]
  BY MonitorAssumption DEF Older, Ages
<1> DEFINE Younger == [s \in Sessions(Older(f)) |-> <<s[1] - 1, s[2]>>]
<1>3. ASSUME NEW s \in Sessions(Older(f))
      PROVE  /\ s = <<s[1], s[2]>> /\ s[1] \in Int
             /\ <<s[1] - 1, s[2]>> \in Sessions(f)
  <2>0. PICK a \in Ages : \E n \in 1 .. Older(f)[a] : s = <<a, n>>
    BY <1>1, SessionMembers
  <2>1. PICK n \in 1 .. Older(f)[a] : s = <<a, n>>
    BY <2>0
  <2>2. a # 0
    BY <1>1, <2>1
  <2>3. a - 1 \in Ages /\ n \in 1 .. f[a - 1] /\ a \in Int
    BY <1>2, <2>2, MonitorAssumption DEF Ages
  <2>4. <<a - 1, n>> \in Sessions(f)
    BY <2>3, SessionMembers
  <2>5. QED
    BY <2>1, <2>3, <2>4
<1>4. Younger \in Injection(Sessions(Older(f)), Sessions(f))
  <2>1. Younger \in [Sessions(Older(f)) -> Sessions(f)]
    BY <1>3
  <2>2. ASSUME NEW s \in Sessions(Older(f)), NEW t \in Sessions(Older(f)), Younger[s] = Younger[t]
        PROVE  s = t
    <3>1. s[1] - 1 = t[1] - 1 /\ s[2] = t[2]
      BY <2>2
    <3>2. (s = <<s[1], s[2]>>) /\ (t = <<t[1], t[2]>>) /\ (s[1] \in Int) /\ (t[1] \in Int)
      BY <1>3
    <3>3. s[1] = t[1]
      BY <3>1, <3>2
    <3>4. QED
      BY <3>1, <3>2, <3>3
  <2>3. QED
    BY <2>1, <2>2 DEF Injection, IsInjective
<1>5. QED
  BY <1>1, <1>4, SessionsFinite, FS_Injection

LEMMA TotalOfNone == NoSpawns \in [Ages -> Nat] /\ Total(NoSpawns) = 0
<1>1. NoSpawns \in [Ages -> Nat]
  BY DEF NoSpawns
<1>2. Sessions(NoSpawns) = {}
  BY <1>1, SessionMembers DEF NoSpawns
<1>3. QED
  BY <1>1, <1>2, SessionsFinite, FS_EmptySet

-----------------------------------------------------------------------------
(* The lists of triggers and of what was handled.                          *)

\* A finite set is listed by a sequence in which each of its members is once.
LEMMA Listing ==
  ASSUME NEW S, IsFiniteSet(S), NEW q \in Listed(S)
  PROVE  q \in Seq(S) /\ Range(q) = S /\ IsInjective(q)
<1> DEFINE n == Cardinality(S)
<1>1. n \in Nat
  BY FS_CardinalityType
<1>2. q \in [1 .. n -> S] /\ Range(q) = S
  BY DEF Listed
<1>3. IsFiniteSet(1 .. n) /\ Cardinality(1 .. n) = n
  BY <1>1, FS_Interval
<1>4. q \in Surjection(1 .. n, S)
  BY <1>2 DEF Surjection, Range
<1>5. q \in Injection(1 .. n, S)
  BY <1>3, <1>4, FS_Surjection
<1>6. QED
  BY <1>1, <1>2, <1>5 DEF Injection

LEMMA Concatenation ==
  ASSUME NEW S, NEW p \in Seq(S), NEW q \in Seq(S)
  PROVE  /\ p \o q \in Seq(S) /\ Range(p \o q) = Range(p) \cup Range(q)
         /\ IsInjective(p) /\ IsInjective(q) /\ Range(p) \cap Range(q) = {}
               => IsInjective(p \o q)
<1>1. /\ p \o q \in Seq(S) /\ Len(p \o q) = Len(p) + Len(q)
      /\ DOMAIN (p \o q) = 1 .. Len(p) + Len(q) /\ Len(p) \in Nat /\ Len(q) \in Nat
      /\ DOMAIN p = 1 .. Len(p) /\ DOMAIN q = 1 .. Len(q)
  OBVIOUS
<1>2. /\ \A i \in 1 .. Len(p) : (p \o q)[i] = p[i]
      /\ \A i \in 1 .. Len(q) : (p \o q)[Len(p) + i] = q[i]
  OBVIOUS
<1>3. ASSUME NEW i \in 1 .. Len(p) + Len(q)
      PROVE  \/ i \in 1 .. Len(p) /\ (p \o q)[i] = p[i]
             \/ i - Len(p) \in 1 .. Len(q) /\ (p \o q)[i] = q[i - Len(p)]
  <2>1. CASE i <= Len(p)
    BY <1>1, <1>2, <2>1
  <2>2. CASE i > Len(p)
    <3>1. i - Len(p) \in 1 .. Len(q) /\ Len(p) + (i - Len(p)) = i
      BY <1>1, <2>2
    <3>2. QED
      BY <1>2, <3>1
  <2>3. QED
    BY <1>1, <2>1, <2>2
<1>4. Range(p \o q) \subseteq Range(p) \cup Range(q)
  BY <1>1, <1>3 DEF Range
<1>5. Range(p) \subseteq Range(p \o q)
  BY <1>1, <1>2 DEF Range
<1>6. Range(q) \subseteq Range(p \o q)
  <2>1. \A i \in 1 .. Len(q) : Len(p) + i \in 1 .. Len(p) + Len(q)
    BY <1>1
  <2>2. QED
    BY <1>1, <1>2, <2>1 DEF Range
<1>7. ASSUME IsInjective(p), IsInjective(q), Range(p) \cap Range(q) = {}
      PROVE  IsInjective(p \o q)
  <2> SUFFICES ASSUME NEW i \in 1 .. Len(p) + Len(q), NEW j \in 1 .. Len(p) + Len(q),
                      (p \o q)[i] = (p \o q)[j]
               PROVE  i = j
    BY <1>1 DEF IsInjective
  <2>1. \A a \in 1 .. Len(p), b \in 1 .. Len(q) : p[a] # q[b]
    BY <1>1, <1>7 DEF Range
  <2>2. \/ i \in 1 .. Len(p) /\ j \in 1 .. Len(p) /\ p[i] = p[j]
        \/ i - Len(p) \in 1 .. Len(q) /\ j - Len(p) \in 1 .. Len(q) /\ q[i - Len(p)] = q[j - Len(p)]
    BY <1>3, <2>1
  <2>3. i = j \/ i - Len(p) = j - Len(p)
    BY <1>1, <1>7, <2>2 DEF IsInjective
  <2>4. QED
    BY <1>1, <2>3
<1>8. QED
  BY <1>1, <1>4, <1>5, <1>6, <1>7

LEMMA HeadTail ==
  ASSUME NEW S, NEW q \in Seq(S), q # <<>>
  PROVE  /\ Head(q) \in S /\ Tail(q) \in Seq(S) /\ Head(q) \in Range(q)
         /\ Range(Tail(q)) \subseteq Range(q)
         /\ IsInjective(q) => IsInjective(Tail(q)) /\ Head(q) \notin Range(Tail(q))
<1>1. Head(q) = q[1] /\ 1 \in DOMAIN q /\ Tail(q) \in Seq(S)
  OBVIOUS
<1>2. \A i \in DOMAIN Tail(q) : i \in Nat \ {0} /\ i + 1 \in DOMAIN q /\ Tail(q)[i] = q[i + 1]
  OBVIOUS
<1>3. Head(q) \in Range(q) /\ Range(Tail(q)) \subseteq Range(q)
  BY <1>1, <1>2 DEF Range
<1>4. IsInjective(q) => IsInjective(Tail(q))
  <2> SUFFICES ASSUME IsInjective(q), NEW i \in DOMAIN Tail(q), NEW j \in DOMAIN Tail(q),
                      Tail(q)[i] = Tail(q)[j]
               PROVE  i = j
    BY DEF IsInjective
  <2>1. i + 1 = j + 1
    BY <1>2 DEF IsInjective
  <2>2. QED
    BY <1>2, <2>1
<1>5. IsInjective(q) => Head(q) \notin Range(Tail(q))
  <2> SUFFICES ASSUME IsInjective(q), NEW i \in DOMAIN Tail(q), Tail(q)[i] = Head(q) PROVE FALSE
    BY DEF Range
  <2>1. i + 1 = 1
    BY <1>1, <1>2 DEF IsInjective
  <2>2. QED
    BY <1>2, <2>1
<1>6. QED
  BY <1>1, <1>3, <1>4, <1>5

\* The bounded list keeps nothing that was not in it or added, and keeps the last
\* entry.
LEMMA HandledList ==
  ASSUME NEW h \in Seq(Keys), NEW q \in Seq(Keys)
  PROVE  /\ Handled(h, q) \in Seq(Keys) /\ Range(Handled(h, q)) \subseteq Range(h) \cup Range(q)
         /\ \A k : q = <<k>> => k \in Range(Handled(h, q))
<1> DEFINE c == h \o q
           n == Min({HandledCap, Len(c)})
<1>1. c \in Seq(Keys) /\ Len(c) \in Nat /\ Range(c) = Range(h) \cup Range(q)
  BY Concatenation
<1>2. n \in Nat /\ n <= Len(c) /\ (Len(c) > 0 => n > 0)
  <2> DEFINE T == {HandledCap, Len(c)}
  <2>1. \E x \in T : \A y \in T : x =< y
    <3>1. CASE HandledCap =< Len(c)
      BY <1>1, <3>1, MonitorAssumption
    <3>2. CASE Len(c) =< HandledCap
      BY <1>1, <3>2, MonitorAssumption
    <3>3. QED
      BY <1>1, <3>1, <3>2, MonitorAssumption
  <2>2. n \in T /\ \A y \in T : n =< y
    BY <2>1 DEF Min
  <2>3. QED
    BY <1>1, <2>2, MonitorAssumption
<1> HIDE DEF n, c
<1>3. Handled(h, q) = SubSeq(c, Len(c) - n + 1, Len(c))
  BY DEF Handled, LastOf, n, c
<1>4. /\ SubSeq(c, Len(c) - n + 1, Len(c)) \in Seq(Keys)
      /\ Len(SubSeq(c, Len(c) - n + 1, Len(c))) = n
      /\ \A i \in 1 .. n : SubSeq(c, Len(c) - n + 1, Len(c))[i] = c[Len(c) - n + i]
  BY <1>1, <1>2
<1>5. Handled(h, q) \in Seq(Keys) /\ DOMAIN Handled(h, q) = 1 .. n
      /\ \A i \in 1 .. n : Handled(h, q)[i] = c[Len(c) - n + i]
  BY <1>3, <1>4
<1>6. Range(Handled(h, q)) \subseteq Range(c)
  <2>1. \A i \in 1 .. n : Len(c) - n + i \in DOMAIN c
    BY <1>1, <1>2
  <2>2. QED
    BY <1>5, <2>1 DEF Range
<1>7. ASSUME NEW k, q = <<k>> PROVE k \in Range(Handled(h, q))
  <2>1. Len(c) = Len(h) + 1 /\ c[Len(c)] = k
    BY <1>7 DEF c
  <2>2. n \in 1 .. n /\ Len(c) - n + n = Len(c)
    BY <1>1, <1>2, <2>1
  <2>3. QED
    BY <1>5, <2>1, <2>2 DEF Range
<1>8. QED
  BY <1>1, <1>5, <1>6, <1>7

-----------------------------------------------------------------------------
(* The monitor: types and the finiteness of the server's lists.            *)

LEMMA MemFields ==
  ASSUME MonitorTypeOK
  PROVE  /\ mem.seen \subseteq Messages /\ mem.spawns \in [Ages -> Nat] /\ mem.handled \in Seq(Keys)
         /\ file.seen \subseteq Messages /\ file.spawns \in [Ages -> Nat] /\ file.handled \in Seq(Keys)
         /\ Range(mem.handled) \subseteq Keys /\ Range(file.handled) \subseteq Keys
<1>1. /\ mem.seen \subseteq Messages /\ mem.spawns \in [Ages -> Nat] /\ mem.handled \in Seq(Keys)
      /\ file.seen \subseteq Messages /\ file.spawns \in [Ages -> Nat] /\ file.handled \in Seq(Keys)
  BY DEF MonitorTypeOK, MemOK
<1>2. \A q \in Seq(Keys) : Range(q) \subseteq Keys
  BY DEF Range
<1>3. QED
  BY <1>1, <1>2

LEMMA ServerStep ==
  ASSUME MonitorTypeOK, ServerIsFinite, Server PROVE MonitorTypeOK' /\ ServerIsFinite'
<1> DEFINE M == {m \in Messages : msg[m] # "none"}
           T == {t \in Tasks : task[t] # "none"}
           P == {p \in Proposals : prop[p] # "none"}
<1>0. UNCHANGED <<tier2, mem, file, pc, triggers, history, troubles>>
  BY DEF Server
<1>1. ASSUME NEW m \in Messages, Ask(m) \/ Answer(m) PROVE MonitorTypeOK' /\ ServerIsFinite'
  <2>1. msg' \in [Messages -> {"none", "pending", "answered"}] /\ M' \subseteq M \cup {m}
        /\ UNCHANGED <<task, qaSpec, prop, created>>
    BY <1>1 DEF Ask, Answer, MonitorTypeOK
  <2>2. IsFiniteSet(M')
    BY <2>1, FS_AddElement, FS_Subset DEF ServerIsFinite
  <2>3. QED
    BY <1>0, <2>1, <2>2 DEF MonitorTypeOK, ServerIsFinite, history
<1>2. ASSUME NEW t \in Tasks, TaskMoves(t) \/ SendQASpec(t) PROVE MonitorTypeOK' /\ ServerIsFinite'
  <2>1. task' \in [Tasks -> {"none", "pending"} \cup Ended] /\ T' \subseteq T \cup {t}
        /\ qaSpec' \subseteq Tasks /\ UNCHANGED <<msg, prop, created>>
    BY <1>2 DEF TaskMoves, SendQASpec, MonitorTypeOK
  <2>2. IsFiniteSet(T')
    BY <2>1, FS_AddElement, FS_Subset DEF ServerIsFinite
  <2>3. QED
    BY <1>0, <2>1, <2>2 DEF MonitorTypeOK, ServerIsFinite, history
<1>3. ASSUME NEW p \in Proposals, Propose(p) \/ Approve(p) \/ Reject(p)
      PROVE  MonitorTypeOK' /\ ServerIsFinite'
  <2>1. prop' \in [Proposals -> {"none", "pending", "approved", "rejected"}]
        /\ P' \subseteq P \cup {p} /\ UNCHANGED <<msg, task, qaSpec>>
    BY <1>3 DEF Propose, Approve, Reject, MonitorTypeOK
  <2>2. created' = Append(created, p) \/ created' = created
    BY <1>3 DEF Propose, Approve, Reject
  <2>3. created' \in Seq(Proposals)
    <3>1. created \in Seq(Proposals)
      BY DEF MonitorTypeOK
    <3> QED
      BY <2>2, <3>1
  <2>4. IsFiniteSet(P')
    BY <2>1, FS_AddElement, FS_Subset DEF ServerIsFinite
  <2>5. QED
    BY <1>0, <2>1, <2>3, <2>4 DEF MonitorTypeOK, ServerIsFinite, history
<1>4. QED
  BY <1>1, <1>2, <1>3 DEF Server

\* The lists the three checks ask for are finite.
LEMMA ListsFinite ==
  ASSUME ServerIsFinite, NEW S,
         \/ S \subseteq {m \in Messages : msg[m] # "none"}
         \/ S \subseteq {t \in Tasks : task[t] # "none"}
         \/ S \subseteq {p \in Proposals : prop[p] # "none"}
  PROVE  IsFiniteSet(S)
BY FS_Subset DEF ServerIsFinite

\* The three checks: what they collect, and what becomes of the list of handled
\* triggers.
LEMMA MessagesCollected ==
  ASSUME MonitorTypeOK, ServerIsFinite, CheckPendingMessages
  PROVE  /\ triggers' \in Seq(Messages) /\ IsInjective(triggers')
         /\ Range(triggers') \cap Range(mem.handled) = {}
         /\ mem' = [mem EXCEPT !.seen = mem'.seen] /\ mem'.seen \subseteq Messages
<1> DEFINE new == {m \in Messages : msg[m] = "pending"} \ mem.seen
           S == {m \in new : ~IsHandled(m)}
<1>1. mem' = [mem EXCEPT !.seen = @ \cup new]
  BY DEF CheckPendingMessages
<1>2. triggers' \in Listed(S)
  BY DEF CheckPendingMessages
<1>3. S \subseteq {m \in Messages : msg[m] # "none"}
  OBVIOUS
<1>4. IsFiniteSet(S)
  BY <1>3, ListsFinite
<1>5. triggers' \in Seq(S) /\ Range(triggers') = S /\ IsInjective(triggers')
  BY <1>2, <1>4, Listing
<1>6. mem' = [mem EXCEPT !.seen = mem'.seen] /\ mem'.seen \subseteq Messages
  BY <1>1 DEF MonitorTypeOK, MemOK
<1>7. S \subseteq Messages /\ S \cap Range(mem.handled) = {}
  BY DEF IsHandled
<1> HIDE DEF S
<1>8. triggers' \in Seq(Messages)
  BY <1>5, <1>7
<1>9. QED
  BY <1>5, <1>6, <1>7, <1>8

LEMMA TasksCollected ==
  ASSUME MonitorTypeOK, ServerIsFinite, CheckTaskChanges
  PROVE  \E q \in Seq(Tasks), d \in Seq(Tasks) :
           /\ triggers' = triggers \o q /\ IsInjective(q)
           /\ Range(q) \cap (Range(mem.handled) \cup Range(d)) = {}
           /\ mem' = [mem EXCEPT !.statuses = task, !.handled = Handled(@, d)]
           /\ forgotten' = forgotten \cup ((Range(mem.handled) \cup Range(d)) \ Range(mem'.handled))
<1> DEFINE new == {t \in Tasks : /\ task[t] # mem.statuses[t]
                                 /\ task[t] \in {"completed", "failed"}
                                 /\ ~IsHandled(t)}
           done == {t \in new : task[t] = "completed" /\ t \in qaSpec}
           S == new \ done
<1>1. PICK q \in Listed(S) : triggers' = triggers \o q
  BY DEF CheckTaskChanges
<1>2. PICK d \in Listed(done) : mem' = [mem EXCEPT !.statuses = task, !.handled = Handled(@, d)]
  BY DEF CheckTaskChanges
<1>3. forgotten' = forgotten \cup ((Range(mem.handled) \cup done) \ Range(mem'.handled))
  BY DEF CheckTaskChanges
<1>4. IsFiniteSet(S) /\ IsFiniteSet(done)
  BY ListsFinite
<1>5. S \subseteq Tasks /\ done \subseteq Tasks /\ S \cap (Range(mem.handled) \cup done) = {}
  BY DEF IsHandled
<1> HIDE DEF S, done, new
<1>6. /\ q \in Seq(S) /\ Range(q) = S /\ IsInjective(q)
      /\ d \in Seq(done) /\ Range(d) = done
  BY <1>1, <1>2, <1>4, Listing
<1>7. q \in Seq(Tasks) /\ d \in Seq(Tasks)
  BY <1>5, <1>6
<1>8. QED
  BY <1>1, <1>2, <1>3, <1>5, <1>6, <1>7

LEMMA ProposalsCollected ==
  ASSUME MonitorTypeOK, ServerIsFinite, CheckApprovedProposals
  PROVE  \E q \in Seq(Proposals) :
           /\ triggers' = triggers \o q /\ IsInjective(q)
           /\ Range(q) \cap Range(mem.handled) = {}
<1> DEFINE S == {p \in NewestApproved : ~IsHandled(p)}
<1>1. PICK q \in Listed(S) : triggers' = triggers \o q
  BY DEF CheckApprovedProposals
<1>2. IsFiniteSet(S)
  BY ListsFinite DEF NewestApproved, Approved
<1>3. S \subseteq Proposals /\ S \cap Range(mem.handled) = {}
  BY DEF IsHandled, NewestApproved, Approved
<1> HIDE DEF S
<1>4. q \in Seq(S) /\ Range(q) = S /\ IsInjective(q)
  BY <1>1, <1>2, Listing
<1>5. q \in Seq(Proposals)
  BY <1>3, <1>4
<1>6. QED
  BY <1>1, <1>3, <1>4, <1>5

\* Working off the head of the triggers.
LEMMA HeadOfTriggers ==
  ASSUME MonitorTypeOK, Processing
  PROVE  /\ Head(triggers) \in Keys /\ Tail(triggers) \in Seq(Keys)
         /\ Handled(mem.handled, <<Head(triggers)>>) \in Seq(Keys)
<1>1. Head(triggers) \in Keys /\ Tail(triggers) \in Seq(Keys)
  BY HeadTail DEF MonitorTypeOK, Processing
<1>2. <<Head(triggers)>> \in Seq(Keys) /\ mem.handled \in Seq(Keys)
  BY <1>1, MemFields
<1>3. QED
  BY <1>1, <1>2, HandledList

LEMMA MonitorTypeStep ==
  ASSUME MonitorTypeOK, ServerIsFinite, MonitorNext PROVE MonitorTypeOK' /\ ServerIsFinite'
<1> USE MonitorAssumption
<1>0. ASSUME UNCHANGED server, mem' \in MemOK, file' \in MemOK,
             pc' \in {"down", "sleep", "process"} \cup DOMAIN NextCheck,
             triggers' \in Seq(Keys), started' \in [Ages -> Nat],
             runs' \in [Keys -> 0 .. 2], forgotten' \subseteq Keys,
             troubles' = troubles \/ (troubles < MaxTroubles /\ troubles' = troubles + 1)
      PROVE  MonitorTypeOK' /\ ServerIsFinite'
  BY <1>0 DEF MonitorTypeOK, ServerIsFinite, server
<1> DEFINE Cursor == {"down", "sleep", "process"} \cup DOMAIN NextCheck
<1>1. /\ mem \in MemOK /\ file \in MemOK /\ triggers \in Seq(Keys) /\ pc \in Cursor
      /\ task \in [Tasks -> {"none", "pending"} \cup Ended]
      /\ started \in [Ages -> Nat] /\ runs \in [Keys -> 0 .. 2] /\ forgotten \subseteq Keys
  BY DEF MonitorTypeOK
<1>2. NoSpawns \in [Ages -> Nat]
  BY TotalOfNone
<1>3. Cursor = {"down", "sleep", "process", "messages", "unread", "tasks", "proposals"}
  BY DEF NextCheck
<1>4. Messages \subseteq Keys /\ Tasks \subseteq Keys /\ Proposals \subseteq Keys
  BY DEF Keys
<1> HIDE DEF Cursor
<1>5. CASE Server
  BY <1>5, ServerStep
<1>6. CASE Start
  <2>1. mem' \in MemOK
    BY <1>1, <1>6 DEF Start, SnapshotTasks, SnapshotMessages, MemOK
  <2>2. QED
    BY <1>0, <1>1, <1>2, <1>3, <1>6, <2>1 DEF Start, Cursor
<1>7. CASE StartUnreached
  BY <1>0, <1>1, <1>2, <1>3, <1>7 DEF StartUnreached, Cursor
<1>8. CASE Wake
  BY <1>0, <1>1, <1>3, <1>8 DEF Wake, Cursor, history
<1>9. CASE FetchFails
  <2>1. pc' \in Cursor
    BY <1>3, <1>9 DEF FetchFails, NextCheck
  <2>2. QED
    BY <1>0, <1>1, <1>9, <2>1 DEF FetchFails, Cursor, history
<1>10. CASE CheckPendingMessages
  <2>1. triggers' \in Seq(Messages) /\ mem'.seen \subseteq Messages
        /\ mem' = [mem EXCEPT !.seen = mem'.seen]
    BY <1>10, MessagesCollected
  <2>2. triggers' \in Seq(Keys)
    BY <1>4, <2>1
  <2>3. mem' \in MemOK
    BY <1>1, <2>1 DEF MemOK
  <2>4. QED
    BY <1>0, <1>1, <1>3, <1>10, <2>2, <2>3 DEF CheckPendingMessages, Cursor, history
<1>11. CASE CheckUnreadMessages
  <2>1. PICK S \in SUBSET {m \in Messages : msg[m] = "answered"} :
           mem' = [mem EXCEPT !.seen = @ \cup S]
    BY <1>11 DEF CheckUnreadMessages
  <2>2. S \subseteq Messages
    OBVIOUS
  <2>3. mem' \in MemOK
    BY <1>1, <2>1, <2>2 DEF MemOK
  <2>4. QED
    BY <1>0, <1>1, <1>3, <1>11, <2>3 DEF CheckUnreadMessages, Cursor, history
<1>12. CASE CheckTaskChanges
  <2>1. PICK q \in Seq(Tasks), d \in Seq(Tasks) :
           /\ triggers' = triggers \o q
           /\ mem' = [mem EXCEPT !.statuses = task, !.handled = Handled(@, d)]
           /\ forgotten' = forgotten \cup ((Range(mem.handled) \cup Range(d)) \ Range(mem'.handled))
    BY <1>12, TasksCollected
  <2>2. q \in Seq(Keys) /\ d \in Seq(Keys) /\ Range(d) \subseteq Keys /\ Range(mem.handled) \subseteq Keys
    <3>1. q \in Seq(Keys) /\ d \in Seq(Keys)
      BY <1>4
    <3>2. QED
      BY <3>1, MemFields DEF Range
  <2>3. Handled(mem.handled, d) \in Seq(Keys)
    BY <2>2, MemFields, HandledList
  <2>4. mem' \in MemOK
    BY <1>1, <2>1, <2>3 DEF MemOK
  <2>5. triggers' \in Seq(Keys) /\ forgotten' \subseteq Keys
    BY <1>1, <2>1, <2>2
  <2>6. QED
    BY <1>0, <1>1, <1>3, <1>12, <2>4, <2>5 DEF CheckTaskChanges, Cursor
<1>13. CASE CheckApprovedProposals
  <2>1. PICK q \in Seq(Proposals) : triggers' = triggers \o q
    BY <1>13, ProposalsCollected
  <2>2. triggers' \in Seq(Keys)
    BY <1>1, <1>4, <2>1
  <2>3. QED
    BY <1>0, <1>1, <1>3, <1>13, <2>2 DEF CheckApprovedProposals, Cursor, history
<1>14. CASE QueueForBrad
  <2>1. Head(triggers) \in Keys /\ Tail(triggers) \in Seq(Keys)
        /\ Handled(mem.handled, <<Head(triggers)>>) \in Seq(Keys)
    BY <1>14, HeadOfTriggers DEF QueueForBrad
  <2>2. mem' \in MemOK
    BY <1>1, <1>14, <2>1 DEF QueueForBrad, MarkHandled, MemOK
  <2>3. forgotten' \subseteq Keys
    BY <1>1, <1>14, MemFields DEF QueueForBrad, MarkHandled
  <2>4. QED
    BY <1>0, <1>1, <1>14, <2>1, <2>2, <2>3 DEF QueueForBrad, Cursor
<1>15. CASE RateLimited
  BY <1>0, <1>1, <1>15 DEF RateLimited, Cursor, history
<1>16. CASE SpawnHeadlessPM
  <2> DEFINE k == Head(triggers)
  <2>1. k \in Keys /\ Tail(triggers) \in Seq(Keys)
        /\ Handled(mem.handled, <<k>>) \in Seq(Keys)
    BY <1>16, HeadOfTriggers DEF SpawnHeadlessPM
  <2> HIDE DEF k
  <2>2. /\ mem' = [mem EXCEPT !.spawns[0] = @ + 1, !.handled = Handled(mem.handled, <<k>>)]
        /\ started' = [started EXCEPT ![0] = @ + 1]
        /\ runs' = [runs EXCEPT ![k] = Min({2, @ + 1})]
        /\ forgotten' = forgotten \cup (Range(mem.handled) \ Range(Handled(mem.handled, <<k>>)))
    BY <1>16 DEF SpawnHeadlessPM, k
  <2>3. mem.spawns \in [Ages -> Nat] /\ [mem.spawns EXCEPT ![0] = @ + 1] \in [Ages -> Nat]
        /\ started' \in [Ages -> Nat]
    BY <1>1, <2>2, MemFields, TotalAdds
  <2>4. mem' \in MemOK
    BY <1>1, <2>1, <2>2, <2>3 DEF MemOK
  <2>5. Min({2, runs[k] + 1}) \in 0 .. 2
    <3>1. runs[k] \in 0 .. 2
      BY <1>1, <2>1
    <3>2. \E x \in {2, runs[k] + 1} : \A y \in {2, runs[k] + 1} : x =< y
      BY <3>1
    <3>3. QED
      BY <3>1, <3>2 DEF Min
  <2>6. runs' \in [Keys -> 0 .. 2]
    BY <1>1, <2>1, <2>2, <2>5
  <2>7. forgotten' \subseteq Keys
    BY <1>1, <2>2, MemFields
  <2>8. QED
    BY <1>0, <1>1, <1>16, <2>1, <2>3, <2>4, <2>6, <2>7 DEF SpawnHeadlessPM, Cursor
<1>17. CASE SpawnFails
  BY <1>0, <1>1, <1>17, HeadOfTriggers DEF SpawnFails, Cursor, history
<1>18. CASE SaveState
  BY <1>0, <1>1, <1>3, <1>18 DEF SaveState, Cursor, history
<1>19. CASE Die
  <2>1. file' \in MemOK
    <3>1. Fresh \in MemOK
      BY <1>2 DEF Fresh, MemOK
    <3>2. QED
      BY <1>1, <1>19, <3>1 DEF Die
  <2>2. forgotten' \subseteq Keys
    BY <1>1, <1>19, MemFields DEF Die
  <2>3. QED
    BY <1>0, <1>1, <1>3, <1>19, <2>1, <2>2 DEF Die, Cursor
<1>20. CASE Tick
  <2>1. /\ Older(mem.spawns) \in [Ages -> Nat] /\ Older(file.spawns) \in [Ages -> Nat]
        /\ started' \in [Ages -> Nat]
    BY <1>1, <1>20, MemFields, TotalAges DEF Tick
  <2>2. mem' \in MemOK /\ file' \in MemOK
    BY <1>1, <1>20, <2>1 DEF Tick, MemOK
  <2>3. QED
    BY <1>0, <1>1, <1>20, <2>1, <2>2 DEF Tick, Cursor
<1>21. QED
  BY <1>5, <1>6, <1>7, <1>8, <1>9, <1>10, <1>11, <1>12, <1>13, <1>14, <1>15, <1>16, <1>17,
     <1>18, <1>19, <1>20 DEF MonitorNext, Cycle

-----------------------------------------------------------------------------
(* The monitor: the inductive invariant.                                   *)

\* The sessions of this life are among those its state counts, and a session is
\* started only while the state counts fewer than MaxSpawns.
LEMMA CountedStep ==
  ASSUME MonitorTypeOK, Counted, MonitorNext PROVE Counted'
<1>0. /\ mem \in MemOK /\ file \in MemOK
      /\ mem.spawns \in [Ages -> Nat] /\ file.spawns \in [Ages -> Nat] /\ started \in [Ages -> Nat]
      /\ Total(mem.spawns) \in Nat /\ Total(file.spawns) \in Nat
  BY MemFields, SessionsFinite DEF MonitorTypeOK
<1>1. ASSUME mem'.spawns = mem.spawns, file' = file, started' = started PROVE Counted'
  BY <1>1 DEF Counted
<1>2. CASE Server \/ Wake \/ FetchFails \/ RateLimited \/ SpawnFails \/ CheckApprovedProposals
  BY <1>1, <1>2 DEF Server, Wake, FetchFails, RateLimited, SpawnFails, CheckApprovedProposals, history
<1>3. CASE CheckPendingMessages \/ CheckUnreadMessages \/ CheckTaskChanges \/ QueueForBrad
  <2>1. mem'.spawns = mem.spawns
    BY <1>0, <1>3 DEF CheckPendingMessages, CheckUnreadMessages, CheckTaskChanges, QueueForBrad,
       MarkHandled, MemOK
  <2>2. file' = file /\ started' = started
    BY <1>3 DEF CheckPendingMessages, CheckUnreadMessages, CheckTaskChanges, QueueForBrad, history
  <2>3. QED
    BY <1>1, <2>1, <2>2
<1>4. CASE Start \/ StartUnreached
  <2>1. mem'.spawns = file.spawns /\ file'.spawns = file.spawns /\ started' = NoSpawns
    BY <1>0, <1>4 DEF Start, StartUnreached, SnapshotTasks, SnapshotMessages, MemOK
  <2>2. \A a \in Ages : started'[a] <= mem'.spawns[a]
    BY <1>0, <2>1 DEF NoSpawns
  <2>3. QED
    BY <2>1, <2>2 DEF Counted
<1>5. CASE SpawnHeadlessPM
  <2>1. /\ mem'.spawns = [mem.spawns EXCEPT ![0] = @ + 1] /\ file' = file
        /\ started' = [started EXCEPT ![0] = @ + 1]
    BY <1>0, <1>5 DEF SpawnHeadlessPM, MemOK
  <2>2. Total(mem.spawns) < MaxSpawns
    BY <1>5 DEF SpawnHeadlessPM, CanSpawn
  <2>3. Total(mem'.spawns) <= Total(mem.spawns) + 1 /\ mem'.spawns \in [Ages -> Nat]
    BY <1>0, <2>1, TotalAdds
  <2>4. Total(mem'.spawns) <= MaxSpawns
    BY <1>0, <2>2, <2>3, SessionsFinite, MonitorAssumption
  <2>5. \A a \in Ages : started'[a] <= mem'.spawns[a]
    BY <1>0, <2>1 DEF Counted
  <2>6. QED
    BY <2>1, <2>4, <2>5 DEF Counted
<1>6. CASE SaveState
  BY <1>6 DEF SaveState, Counted, history
<1>7. CASE Die
  <2>1. Fresh.spawns = NoSpawns
    BY DEF Fresh
  <2>2. Total(Fresh.spawns) <= MaxSpawns
    BY <2>1, TotalOfNone, MonitorAssumption
  <2>3. QED
    BY <1>7, <2>2 DEF Die, Counted
<1>8. CASE Tick
  <2>1. /\ mem'.spawns = Older(mem.spawns) /\ file'.spawns = Older(file.spawns)
        /\ started' = Older(started)
    BY <1>0, <1>8 DEF Tick, MemOK
  <2>2. /\ Older(mem.spawns) \in [Ages -> Nat] /\ Total(Older(mem.spawns)) <= Total(mem.spawns)
        /\ Older(file.spawns) \in [Ages -> Nat] /\ Total(Older(file.spawns)) <= Total(file.spawns)
    BY <1>0, TotalAges
  <2>3. Total(Older(mem.spawns)) \in Nat /\ Total(Older(file.spawns)) \in Nat
    BY <2>2, SessionsFinite
  <2>4. Total(mem'.spawns) <= MaxSpawns /\ Total(file'.spawns) <= MaxSpawns
    BY <1>0, <2>1, <2>2, <2>3, MonitorAssumption DEF Counted
  <2>5. \A a \in Ages \ {0} : a - 1 \in Ages
    BY MonitorAssumption DEF Ages
  <2>6. \A a \in Ages : started'[a] <= mem'.spawns[a]
    BY <2>1, <2>5 DEF Counted, Older
  <2>7. QED
    BY <2>4, <2>6 DEF Counted
<1>9. QED
  BY <1>2, <1>3, <1>4, <1>5, <1>6, <1>7, <1>8 DEF MonitorNext, Cycle

\* Outstanding triggers stay distinct, unhandled, and of the checks made so far.
LEMMA OutstandingStep ==
  ASSUME MonitorTypeOK, ServerIsFinite, Outstanding, MonitorNext PROVE Outstanding'
<1>0. /\ triggers \in Seq(Keys) /\ Range(<<>>) = {} /\ IsInjective(<<>>)
      /\ Messages \subseteq Keys /\ Tasks \subseteq Keys /\ Proposals \subseteq Keys
      /\ mem \in MemOK /\ mem.handled \in Seq(Keys)
  <2>1. Range(<<>>) = {} /\ IsInjective(<<>>)
    BY DEF Range, IsInjective
  <2>2. QED
    BY <2>1, MemFields DEF MonitorTypeOK, Keys
<1>1. ASSUME triggers' = <<>> PROVE Outstanding'
  BY <1>0, <1>1 DEF Outstanding
<1>2. ASSUME triggers' = triggers, mem'.handled = mem.handled, Collected \subseteq Collected'
      PROVE  Outstanding'
  BY <1>2 DEF Outstanding
<1>3. CASE Server \/ Tick
  <2>1. triggers' = triggers /\ pc' = pc /\ mem'.handled = mem.handled
    BY <1>0, <1>3 DEF Server, Tick, MemOK
  <2>2. QED
    BY <1>2, <2>1 DEF Collected
<1>4. CASE Start \/ StartUnreached
  <2>1. pc = "down" /\ triggers' = triggers
    BY <1>4 DEF Start, StartUnreached
  <2>2. Range(triggers) = {}
    BY <2>1 DEF Outstanding, Collected
  <2>3. QED
    BY <2>1, <2>2 DEF Outstanding
<1>5. CASE Wake \/ RateLimited \/ Die
  BY <1>1, <1>5 DEF Wake, RateLimited, Die
<1>6. CASE SaveState
  BY <1>1, <1>6 DEF SaveState
<1>7. CASE FetchFails
  <2>1. Collected \subseteq Collected'
    BY <1>0, <1>7 DEF FetchFails, NextCheck, Collected
  <2>2. QED
    BY <1>2, <1>7, <2>1 DEF FetchFails
<1>8. CASE CheckPendingMessages
  <2>1. /\ triggers' \in Seq(Messages) /\ IsInjective(triggers')
        /\ Range(triggers') \cap Range(mem.handled) = {}
        /\ mem' = [mem EXCEPT !.seen = mem'.seen]
    BY <1>8, MessagesCollected
  <2>2. mem'.handled = mem.handled
    BY <1>0, <2>1 DEF MemOK
  <2>3. Range(triggers') \subseteq Messages
    BY <2>1 DEF Range
  <2>4. pc' = "unread"
    BY <1>8 DEF CheckPendingMessages
  <2>5. QED
    BY <2>1, <2>2, <2>3, <2>4 DEF Outstanding, Collected
<1>9. CASE CheckUnreadMessages
  <2>1. mem'.handled = mem.handled
    BY <1>0, <1>9 DEF CheckUnreadMessages, MemOK
  <2>2. QED
    BY <1>2, <1>9, <2>1 DEF CheckUnreadMessages, Collected
<1>10. CASE CheckTaskChanges
  <2>1. PICK q \in Seq(Tasks), d \in Seq(Tasks) :
           /\ triggers' = triggers \o q /\ IsInjective(q)
           /\ Range(q) \cap (Range(mem.handled) \cup Range(d)) = {}
           /\ mem' = [mem EXCEPT !.statuses = task, !.handled = Handled(@, d)]
    BY <1>10, TasksCollected
  <2>2. Range(triggers) \subseteq Messages /\ Range(q) \subseteq Tasks /\ Range(d) \subseteq Tasks
    <3>1. pc = "tasks"
      BY <1>10 DEF CheckTaskChanges
    <3>2. QED
      BY <3>1 DEF Outstanding, Collected, Range
  <2>3. q \in Seq(Keys) /\ d \in Seq(Keys)
    BY <1>0
  <2>4. Range(triggers') = Range(triggers) \cup Range(q) /\ IsInjective(triggers')
    BY <1>0, <2>1, <2>2, <2>3, Concatenation, MonitorAssumption DEF Outstanding
  <2>5. Range(mem'.handled) \subseteq Range(mem.handled) \cup Range(d)
    <3>1. mem'.handled = Handled(mem.handled, d)
      BY <1>0, <2>1 DEF MemOK
    <3>2. QED
      BY <1>0, <2>3, <3>1, HandledList
  <2>6. pc' = "proposals"
    BY <1>10 DEF CheckTaskChanges
  <2>7. Range(triggers') \cap Range(mem'.handled) = {}
    BY <2>1, <2>2, <2>4, <2>5, MonitorAssumption DEF Outstanding
  <2>8. QED
    BY <2>2, <2>4, <2>6, <2>7 DEF Outstanding, Collected
<1>11. CASE CheckApprovedProposals
  <2>1. PICK q \in Seq(Proposals) :
           /\ triggers' = triggers \o q /\ IsInjective(q)
           /\ Range(q) \cap Range(mem.handled) = {}
    BY <1>11, ProposalsCollected
  <2>2. Range(triggers) \subseteq Messages \cup Tasks /\ Range(q) \subseteq Proposals
    <3>1. pc = "proposals"
      BY <1>11 DEF CheckApprovedProposals
    <3>2. QED
      BY <3>1 DEF Outstanding, Collected, Range
  <2>3. q \in Seq(Keys)
    BY <1>0
  <2>4. Range(triggers') = Range(triggers) \cup Range(q) /\ IsInjective(triggers')
    BY <1>0, <2>1, <2>2, <2>3, Concatenation, MonitorAssumption DEF Outstanding
  <2>5. pc' = "process" /\ mem' = mem
    BY <1>11 DEF CheckApprovedProposals
  <2>6. QED
    BY <1>0, <2>1, <2>2, <2>4, <2>5 DEF Outstanding, Collected
<1>12. CASE SpawnFails
  <2>1. triggers # <<>> /\ triggers' = Tail(triggers) /\ mem' = mem /\ pc' = pc
    BY <1>12 DEF SpawnFails, Processing
  <2>2. QED
    BY <1>0, <2>1, HeadTail DEF Outstanding, Collected
<1>13. CASE QueueForBrad \/ SpawnHeadlessPM
  <2> DEFINE k == Head(triggers)
  <2>1. triggers # <<>> /\ triggers' = Tail(triggers) /\ pc' = pc
    BY <1>13 DEF QueueForBrad, SpawnHeadlessPM, Processing
  <2>2. mem'.handled = Handled(mem.handled, <<k>>)
    BY <1>0, <1>13 DEF QueueForBrad, SpawnHeadlessPM, MarkHandled, MemOK
  <2>3. k \in Keys /\ IsInjective(triggers') /\ Range(triggers') \subseteq Range(triggers) \ {k}
    BY <1>0, <2>1, HeadTail DEF Outstanding
  <2> HIDE DEF k
  <2>4. <<k>> \in Seq(Keys) /\ Range(<<k>>) = {k}
    BY <2>3 DEF Range
  <2>5. Range(mem'.handled) \subseteq Range(mem.handled) \cup {k}
    BY <1>0, <2>2, <2>4, HandledList
  <2>6. QED
    BY <2>1, <2>3, <2>5 DEF Outstanding, Collected
<1>14. QED
  BY <1>3, <1>4, <1>5, <1>6, <1>7, <1>8, <1>9, <1>10, <1>11, <1>12, <1>13 DEF MonitorNext, Cycle

\* What started a session is handled or forgotten, so that a second session is
\* started only for what was forgotten.
LEMMA RememberingStep ==
  ASSUME MonitorTypeOK, ServerIsFinite, Outstanding, Remembering, HandledOnce, MonitorNext
  PROVE  Remembering' /\ HandledOnce'
<1> DEFINE Book == Range((IF pc = "down" THEN file ELSE mem).handled)
<1>0. /\ mem \in MemOK /\ file \in MemOK /\ mem.handled \in Seq(Keys)
      /\ runs \in [Keys -> 0 .. 2] /\ triggers \in Seq(Keys)
  BY MemFields DEF MonitorTypeOK
<1>1. ASSUME runs' = runs, forgotten \cup Book \subseteq forgotten' \cup Book',
             forgotten \subseteq forgotten'
      PROVE  Remembering' /\ HandledOnce'
  BY <1>1 DEF Remembering, HandledOnce
<1> HIDE DEF Book
<1>2. CASE Server \/ Tick
  <2>1. mem'.handled = mem.handled /\ file'.handled = file.handled /\ UNCHANGED <<pc, runs, forgotten>>
    BY <1>0, <1>2 DEF Server, Tick, MemOK, history
  <2>2. QED
    BY <1>1, <2>1 DEF Book
<1>3. CASE Start \/ StartUnreached
  <2>1. mem'.handled = file.handled /\ pc = "down" /\ pc' = "sleep" /\ UNCHANGED <<runs, forgotten>>
    BY <1>0, <1>3 DEF Start, StartUnreached, SnapshotTasks, SnapshotMessages, MemOK
  <2>2. QED
    BY <1>1, <2>1 DEF Book
<1>4. CASE Wake \/ RateLimited \/ SpawnFails \/ SaveState \/ CheckApprovedProposals
  <2>1. mem' = mem /\ pc # "down" /\ pc' # "down" /\ UNCHANGED <<runs, forgotten>>
    BY <1>4 DEF Wake, RateLimited, SpawnFails, SaveState, CheckApprovedProposals, Processing, history
  <2>2. QED
    BY <1>1, <2>1 DEF Book
<1>5. CASE FetchFails
  <2>1. mem' = mem /\ pc # "down" /\ pc' # "down" /\ UNCHANGED <<runs, forgotten>>
    BY <1>5 DEF FetchFails, NextCheck, history
  <2>2. QED
    BY <1>1, <2>1 DEF Book
<1>6. CASE CheckPendingMessages \/ CheckUnreadMessages
  <2>1. mem'.handled = mem.handled /\ pc # "down" /\ pc' # "down" /\ UNCHANGED <<runs, forgotten>>
    BY <1>0, <1>6 DEF CheckPendingMessages, CheckUnreadMessages, MemOK, history
  <2>2. QED
    BY <1>1, <2>1 DEF Book
<1>7. CASE CheckTaskChanges \/ QueueForBrad
  <2>1. /\ pc # "down" /\ pc' # "down" /\ runs' = runs /\ forgotten \subseteq forgotten'
        /\ Range(mem.handled) \ Range(mem'.handled) \subseteq forgotten'
    BY <1>7 DEF CheckTaskChanges, QueueForBrad, MarkHandled, Processing
  <2>2. QED
    BY <1>1, <2>1 DEF Book
<1>8. CASE Die
  <2>1. /\ pc # "down" /\ pc' = "down" /\ runs' = runs /\ forgotten \subseteq forgotten'
        /\ Range(mem.handled) \ Range(file'.handled) \subseteq forgotten'
    BY <1>8 DEF Die
  <2>2. QED
    BY <1>1, <2>1 DEF Book
<1>9. CASE SpawnHeadlessPM
  <2> DEFINE k == Head(triggers)
  <2>1. k \in Keys /\ k \in Range(triggers) /\ pc # "down" /\ pc' # "down"
    BY <1>0, <1>9, HeadTail DEF SpawnHeadlessPM, Processing
  <2> HIDE DEF k
  <2>2. /\ mem' = [mem EXCEPT !.spawns[0] = @ + 1, !.handled = Handled(mem.handled, <<k>>)]
        /\ runs' = [runs EXCEPT ![k] = Min({2, @ + 1})]
        /\ forgotten' = forgotten \cup (Range(mem.handled) \ Range(Handled(mem.handled, <<k>>)))
    BY <1>9 DEF SpawnHeadlessPM, k
  <2>3. mem'.handled = Handled(mem.handled, <<k>>)
    BY <1>0, <2>2 DEF MemOK
  <2>4. k \in Range(mem'.handled)
    <3>1. <<k>> \in Seq(Keys)
      BY <2>1
    <3>2. QED
      BY <1>0, <2>3, <3>1, HandledList
  <2>5. runs[k] > 0 => k \in forgotten
    BY <2>1 DEF Remembering, Outstanding
  <2>6. runs[k] = 0 => runs'[k] = 1
    <3>1. ASSUME runs[k] = 0 PROVE Min({2, runs[k] + 1}) = 1
      <4>1. \E x \in {2, 1} : \A y \in {2, 1} : x =< y
        OBVIOUS
      <4>2. QED
        BY <3>1, <4>1 DEF Min
    <3>2. QED
      BY <1>0, <2>1, <2>2, <3>1
  <2>7. \A l \in Keys \ {k} : runs'[l] = runs[l]
    BY <1>0, <2>2
  <2>8. forgotten \subseteq forgotten' /\ Range(mem.handled) \ Range(mem'.handled) \subseteq forgotten'
    BY <2>2, <2>3
  <2>9. runs[k] \in 0 .. 2
    BY <1>0, <2>1
  <2>10. Remembering'
    BY <2>1, <2>4, <2>7, <2>8 DEF Remembering
  <2>11. HandledOnce'
    BY <2>5, <2>6, <2>7, <2>8, <2>9 DEF HandledOnce
  <2>12. QED
    BY <2>10, <2>11
<1>10. QED
  BY <1>2, <1>3, <1>4, <1>5, <1>6, <1>7, <1>8, <1>9 DEF MonitorNext, Cycle

LEMMA CountedIsLimited ==
  ASSUME MonitorTypeOK, Counted PROVE RateLimit
<1>1. /\ mem.spawns \in [Ages -> Nat] /\ started \in [Ages -> Nat]
  BY MemFields DEF MonitorTypeOK
<1>2. Total(started) <= Total(mem.spawns) /\ Total(started) \in Nat /\ Total(mem.spawns) \in Nat
  BY <1>1, TotalGrows, SessionsFinite DEF Counted
<1>3. QED
  BY <1>2, MonitorAssumption DEF Counted, RateLimit

LEMMA MonitorInitInv == MonitorInit => MonitorTypeOK /\ MonitorInv
<1> SUFFICES ASSUME MonitorInit PROVE MonitorTypeOK /\ MonitorInv
  OBVIOUS
<1>1. Fresh \in MemOK /\ Fresh.spawns = NoSpawns /\ Fresh.handled = <<>>
  BY TotalOfNone DEF Fresh, MemOK
<1>2. MonitorTypeOK
  <2>1. started \in [Ages -> Nat]
    BY TotalOfNone DEF MonitorInit
  <2>2. QED
    BY <1>1, <2>1, MonitorAssumption DEF MonitorInit, MonitorTypeOK
<1>3. ServerIsFinite
  <2>1. /\ {m \in Messages : msg[m] # "none"} = {} /\ {t \in Tasks : task[t] # "none"} = {}
        /\ {p \in Proposals : prop[p] # "none"} = {}
    BY DEF MonitorInit
  <2>2. QED
    BY <2>1, FS_EmptySet DEF ServerIsFinite
<1>4. Counted
  BY <1>1, TotalOfNone, MonitorAssumption DEF MonitorInit, Counted, NoSpawns
<1>5. Remembering /\ HandledOnce
  BY DEF MonitorInit, Remembering, HandledOnce
<1>6. Outstanding
  <2>1. triggers = <<>>
    BY DEF MonitorInit
  <2>2. Range(<<>>) = {} /\ IsInjective(<<>>)
    BY DEF Range, IsInjective
  <2>3. QED
    BY <2>1, <2>2 DEF Outstanding
<1>7. QED
  BY <1>2, <1>3, <1>4, <1>5, <1>6, CountedIsLimited DEF MonitorInv, SpawnDiscipline

LEMMA MonitorStepInv ==
  MonitorTypeOK /\ MonitorInv /\ [MonitorNext]_monitorVars => MonitorTypeOK' /\ MonitorInv'
<1> SUFFICES ASSUME MonitorTypeOK, MonitorInv, [MonitorNext]_monitorVars
             PROVE  MonitorTypeOK' /\ MonitorInv'
  OBVIOUS
<1> USE DEF MonitorInv, SpawnDiscipline
<1>1. CASE MonitorNext
  <2>1. MonitorTypeOK' /\ ServerIsFinite' /\ Counted'
    BY <1>1, MonitorTypeStep, CountedStep
  <2>2. Outstanding' /\ Remembering' /\ HandledOnce'
    BY <1>1, OutstandingStep, RememberingStep
  <2>3. (MonitorTypeOK /\ Counted => RateLimit)'
    BY CountedIsLimited, PTL
  <2>4. QED
    BY <2>1, <2>2, <2>3
<1>2. CASE UNCHANGED monitorVars
  BY <1>2 DEF monitorVars, server, history, MonitorTypeOK, ServerIsFinite, Counted, Remembering,
     Outstanding, Collected, RateLimit, HandledOnce
<1>3. QED
  BY <1>1, <1>2

\* Type correctness of the monitor and the part of the server it polls.
THEOREM MonitorTypeCorrect == MonitorSpec => []MonitorTypeOK
BY MonitorInitInv, MonitorStepInv, PTL DEF MonitorSpec

\* However often requests, spawns and saves fail, one life of the monitor never
\* starts more than MaxSpawns sessions in an hour, and no trigger starts two
\* sessions unless its mark was dropped or lost with a crash (_can_spawn,
\* _is_handled, _mark_handled, _save_state).
THEOREM SpawnsAreDisciplined == MonitorSpec => []SpawnDiscipline
<1>1. MonitorInv => SpawnDiscipline
  BY DEF MonitorInv
<1>2. QED
  BY <1>1, MonitorInitInv, MonitorStepInv, PTL DEF MonitorSpec

-----------------------------------------------------------------------------
(* The Codex daemon.                                                       *)

\* What is sent is a finite set of messages, so a listing of them is a sequence.
LEMMA ListingType ==
  ASSUME CodexTypeOK, NEW q \in NewestFirst(Unread)
  PROVE  Newest(q) \in Seq(Inbox) /\ ToSet(Newest(q)) \cap read = {}
<1>1. IsFiniteSet(ToSet(sent))
  <2>1. IsFiniteSet(1 .. Len(sent))
    BY FS_Interval DEF CodexTypeOK
  <2>2. sent \in Surjection(1 .. Len(sent), ToSet(sent))
    BY DEF ToSet, CodexTypeOK, Surjection
  <2>3. QED
    BY <2>1, <2>2, FS_Surjection
<1>2. Unread \subseteq Inbox /\ IsFiniteSet(Unread) /\ Unread \cap read = {}
  BY <1>1, FS_Subset DEF Unread, ToSet, CodexTypeOK
<1>3. Cardinality(Unread) \in Nat
  BY <1>2, FS_CardinalityType
<1>4. q \in Seq(Unread)
  BY <1>3 DEF NewestFirst
<1>5. Newest(q) \in Seq(Unread)
  BY <1>4, CodexAssumption DEF Newest
<1>6. \A x \in ToSet(Newest(q)) : x \in Unread
  BY <1>5 DEF ToSet
<1>7. QED
  BY <1>2, <1>5, <1>6

\* The head of a list that is not empty is one of its members, and so is what is
\* in its tail.
LEMMA HeadAndTail ==
  ASSUME NEW S, NEW q \in Seq(S), q # <<>>
  PROVE  /\ Head(q) \in S /\ Tail(q) \in Seq(S)
         /\ Head(q) \in ToSet(q) /\ ToSet(Tail(q)) \subseteq ToSet(q)
<1>1. \A s : ToSet(s) = Range(s)
  BY DEF ToSet, Range
<1>2. QED
  BY <1>1, HeadTail

\* To give a message up takes a mishap, of which there are not too many.
LEMMA GiveUpType ==
  ASSUME CodexTypeOK, TakesOneByOne, phase \in {"reply", "mark"}, GiveUpHead
  PROVE  /\ mishaps' \in 0 .. MaxMishaps /\ harmed' \subseteq Inbox
         /\ batch' \in Seq(Inbox) /\ phase' = "take"
<1>1. Head(batch) \in Inbox /\ Tail(batch) \in Seq(Inbox)
  BY HeadAndTail DEF TakesOneByOne, CodexTypeOK
<1>2. (mishaps \in 0 .. MaxMishaps) /\ (mishaps < MaxMishaps) /\ (mishaps' = mishaps + 1)
  BY DEF GiveUpHead, Mishap, CodexTypeOK
<1>3. mishaps' \in 0 .. MaxMishaps
  BY <1>2, CodexAssumption
<1>4. QED
  BY <1>1, <1>3 DEF GiveUpHead, CodexTypeOK

LEMMA CodexTypeStep ==
  ASSUME CodexTypeOK, TakesOneByOne, CodexNext PROVE CodexTypeOK'
<1> USE DEF CodexTypeOK, Remembered
<1>0. phase \in {"reply", "mark"} => Head(batch) \in Inbox /\ Tail(batch) \in Seq(Inbox)
  BY HeadAndTail DEF TakesOneByOne
<1>1. ASSUME NEW m \in Inbox, Send(m) PROVE CodexTypeOK'
  BY <1>1 DEF Send
<1>2. ASSUME NEW m \in Inbox, SessionReads(m) PROVE CodexTypeOK'
  BY <1>2 DEF SessionReads
<1>3. CASE CodexStart
  BY <1>3 DEF CodexStart
<1>4. CASE FetchUnread
  BY <1>4, ListingType, CodexAssumption DEF FetchUnread, Mishap
<1>5. CASE PassOver
  BY <1>5, HeadAndTail DEF PassOver, Inbox
<1>6. CASE RunReview
  BY <1>6 DEF RunReview
<1>7. CASE Reply
  <2>1. replies' \in [Inbox -> 0 .. 2]
    BY <1>0, <1>7 DEF Reply, Replied
  <2>2. QED
    BY <1>7, <2>1, GiveUpType DEF Reply
<1>8. CASE MarkRead
  <2>1. (read' \subseteq Inbox) /\ (read \subseteq read') /\ (known' \in Remembered)
    BY <1>0, <1>8 DEF MarkRead
  <2>2. QED
    BY <1>0, <1>8, <2>1, GiveUpType DEF MarkRead
<1>9. CASE CodexSaveState
  BY <1>9 DEF CodexSaveState
<1>10. CASE CodexDies
  BY <1>0, <1>10, CodexAssumption DEF CodexDies, Mishap, Nothing
<1>11. QED
  BY <1>1, <1>2, <1>3, <1>4, <1>5, <1>6, <1>7, <1>8, <1>9, <1>10 DEF CodexNext, Daemon, Others

LEMMA TakesStep ==
  ASSUME CodexTypeOK, TakesOneByOne, CodexNext PROVE TakesOneByOne'
<1> USE DEF TakesOneByOne
<1>1. CASE Others
  BY <1>1 DEF Others, Send, SessionReads
<1>2. CASE CodexStart \/ FetchUnread
  BY <1>2 DEF CodexStart, FetchUnread
<1>3. CASE PassOver \/ RunReview
  BY <1>3 DEF PassOver, RunReview
<1>4. CASE Reply
  <2>1. Replied => replies'[Head(batch)] > 0
    BY <1>4, HeadAndTail DEF Reply, Replied, CodexTypeOK
  <2>2. QED
    BY <1>4, <2>1 DEF Reply, GiveUpHead
<1>5. CASE MarkRead
  BY <1>5 DEF MarkRead, GiveUpHead
<1>6. CASE CodexSaveState \/ CodexDies
  BY <1>6 DEF CodexSaveState, CodexDies
<1>7. QED
  BY <1>1, <1>2, <1>3, <1>4, <1>5, <1>6 DEF CodexNext, Daemon

\* The daemon marks read, and remembers, only what it replied to.
LEMMA MarksStep ==
  ASSUME CodexTypeOK, TakesOneByOne, ReadMeansReplied, CodexNext
  PROVE  ReadMeansReplied'
<1>0. \A m \in Inbox : replies[m] > 0 => replies'[m] > 0
  BY HeadAndTail DEF CodexNext, Daemon, Others, Send, SessionReads, CodexStart, FetchUnread, PassOver,
     RunReview, Reply, Replied, MarkRead, CodexSaveState, CodexDies, TakesOneByOne, CodexTypeOK
<1>1. bySession \subseteq bySession'
  BY DEF CodexNext, Daemon, Others, Send, SessionReads, CodexStart, FetchUnread, PassOver,
     RunReview, Reply, MarkRead, CodexSaveState, CodexDies
<1> DEFINE Marked == read \cup known.handled \cup saved.handled
<1>2. Marked \subseteq Inbox
  BY DEF CodexTypeOK, Remembered
<1>3. Marked' \subseteq Marked \cup bySession' \cup (IF phase = "mark" THEN {Head(batch)} ELSE {})
  <2> USE DEF CodexTypeOK, Remembered
  <2>1. CASE Others
    BY <2>1 DEF Others, Send, SessionReads
  <2>2. CASE CodexStart \/ FetchUnread \/ RunReview
    BY <2>2 DEF CodexStart, FetchUnread, RunReview
  <2>3. CASE PassOver
    BY <2>3 DEF PassOver
  <2>4. CASE Reply
    BY <2>4 DEF Reply
  <2>5. CASE MarkRead
    BY <2>5 DEF MarkRead
  <2>6. CASE CodexSaveState \/ CodexDies
    BY <2>6 DEF CodexSaveState, CodexDies, Nothing
  <2>7. QED
    BY <2>1, <2>2, <2>3, <2>4, <2>5, <2>6 DEF CodexNext, Daemon
<1>4. phase = "mark" => Head(batch) \in Inbox /\ replies[Head(batch)] > 0
  BY HeadAndTail DEF TakesOneByOne, CodexTypeOK
<1> HIDE DEF Marked
<1>5. ASSUME NEW m \in Marked' PROVE replies'[m] > 0 \/ m \in bySession'
  <2>1. CASE m \in Marked
    BY <1>0, <1>1, <1>2, <2>1 DEF ReadMeansReplied, Marked
  <2>2. CASE m \notin Marked
    BY <1>0, <1>3, <1>4, <2>2
  <2>3. QED
    BY <2>1, <2>2
<1>6. QED
  BY <1>5 DEF ReadMeansReplied, Marked

\* What was replied to stays settled, and nothing settled is replied to again.
LEMMA SettledStep ==
  ASSUME CodexTypeOK, TakesOneByOne, CodexNext, RepliedOnce,
         \A m \in Inbox : replies[m] > 0 => Settled(m), NEW m \in Inbox
  PROVE  /\ replies'[m] > 0 => Settled(m)'
         /\ replies'[m] > 1 => m \in harmed'
<1>0. /\ replies[m] \in 0 .. 2
      /\ replies[m] > 0 => Settled(m)
      /\ replies[m] > 1 => m \in harmed
  BY DEF CodexTypeOK, RepliedOnce
<1>1. harmed \subseteq harmed' /\ read \subseteq read'
  BY DEF CodexNext, Daemon, Others, Send, SessionReads, CodexStart, FetchUnread, PassOver,
     RunReview, Reply, MarkRead, GiveUpHead, CodexSaveState, CodexDies
<1>2. CASE Reply
  <2>1. phase = "reply" /\ Head(batch) \in ToSet(batch) /\ Head(batch) \notin known.handled
    BY <1>2, HeadAndTail DEF Reply, TakesOneByOne, CodexTypeOK
  <2>2. CASE m = Head(batch)
    <3>1. replies[m] > 0 => m \in harmed
      BY <1>0, <2>1, <2>2 DEF Settled
    <3>2. m \in harmed' \/ (phase' = "mark" /\ batch' = batch)
      BY <1>2, <2>2 DEF Reply, GiveUpHead
    <3>3. replies[m] = 0 => replies'[m] \in {0, 1}
      BY <1>0, <1>2, <2>2 DEF Reply, Replied, CodexTypeOK
    <3>4. QED
      BY <1>0, <1>1, <2>2, <3>1, <3>2, <3>3 DEF Settled
  <2>3. CASE m # Head(batch)
    <3>1. replies'[m] = replies[m]
      BY <1>2, <2>3 DEF Reply, Replied, CodexTypeOK
    <3>2. known' = known /\ ToSet(batch') \subseteq ToSet(batch)
      BY <1>2, HeadAndTail DEF Reply, GiveUpHead, TakesOneByOne, CodexTypeOK
    <3>3. QED
      BY <1>0, <1>1, <2>1, <2>3, <3>1, <3>2 DEF Settled
  <2>4. QED
    BY <2>2, <2>3
<1>3. CASE ~Reply
  <2>1. replies' = replies
    BY <1>3 DEF CodexNext, Daemon, Others, Send, SessionReads, CodexStart, FetchUnread, PassOver,
       RunReview, MarkRead, CodexSaveState, CodexDies
  <2> SUFFICES ASSUME Settled(m), m \notin harmed' PROVE Settled(m)'
    BY <1>0, <1>1, <2>1 DEF Settled
  <2>2. CASE Others
    BY <2>2, <1>1 DEF Others, Send, SessionReads, Settled
  <2>3. CASE CodexStart
    BY <2>3, <1>1 DEF CodexStart, Settled, TakesOneByOne, ToSet
  <2>4. CASE FetchUnread
    <3>1. m \in read
      BY <1>1, <2>4 DEF FetchUnread, Settled
    <3>2. ToSet(batch') \cap read = {}
      BY <2>4, ListingType DEF FetchUnread, TakesOneByOne, ToSet
    <3>3. QED
      BY <1>1, <3>1, <3>2 DEF Settled
  <2>5. CASE PassOver
    <3>1. ToSet(batch') \subseteq ToSet(batch)
      BY <2>5, HeadAndTail DEF PassOver, CodexTypeOK
    <3>2. known.handled = known'.handled
      BY <2>5 DEF PassOver, CodexTypeOK, Remembered
    <3>3. QED
      BY <1>1, <2>5, <3>1, <3>2 DEF PassOver, Settled
  <2>6. CASE RunReview
    BY <1>1, <2>6 DEF RunReview, Settled
  <2>7. CASE MarkRead
    <3>1. ToSet(batch') \subseteq ToSet(batch)
      BY <2>7, HeadAndTail DEF MarkRead, GiveUpHead, CodexTypeOK, TakesOneByOne
    <3>2. known.handled \subseteq known'.handled
      BY <2>7 DEF MarkRead, CodexTypeOK, Remembered
    <3>3. m = Head(batch) => m \in read' /\ m \in known'.handled
      BY <2>7 DEF MarkRead, GiveUpHead, CodexTypeOK, Remembered
    <3>4. QED
      BY <1>1, <2>7, <3>1, <3>2, <3>3 DEF Settled
  <2>8. CASE CodexSaveState
    BY <1>1, <2>8 DEF CodexSaveState, Settled
  <2>9. CASE CodexDies
    BY <1>1, <2>9 DEF CodexDies, Settled, ToSet
  <2>10. QED
    BY <1>3, <2>2, <2>3, <2>4, <2>5, <2>6, <2>7, <2>8, <2>9 DEF CodexNext, Daemon
<1>4. QED
  BY <1>2, <1>3

LEMMA CodexInitInv == CodexInit => CodexTypeOK /\ CodexInv
<1> SUFFICES ASSUME CodexInit PROVE CodexTypeOK /\ CodexInv
  OBVIOUS
<1>1. CodexTypeOK
  BY CodexAssumption DEF CodexInit, CodexTypeOK, Remembered, Nothing
<1>2. \A m \in Inbox : replies[m] = 0
  BY DEF CodexInit
<1>3. QED
  BY <1>1, <1>2 DEF CodexInit, CodexInv, TakesOneByOne, RepliesAndMarks, ReadMeansReplied,
     RepliedOnce, Nothing

LEMMA CodexStepInv == CodexTypeOK /\ CodexInv /\ [CodexNext]_codexVars => CodexTypeOK' /\ CodexInv'
<1> SUFFICES ASSUME CodexTypeOK, CodexInv, [CodexNext]_codexVars PROVE CodexTypeOK' /\ CodexInv'
  OBVIOUS
<1>1. CASE CodexNext
  <2>1. CodexTypeOK' /\ TakesOneByOne' /\ ReadMeansReplied'
    BY <1>1, CodexTypeStep, TakesStep, MarksStep DEF CodexInv, RepliesAndMarks
  <2>2. \A m \in Inbox : (replies'[m] > 0 => Settled(m)') /\ (replies'[m] > 1 => m \in harmed')
    BY <1>1, SettledStep DEF CodexInv, RepliesAndMarks
  <2>3. QED
    BY <2>1, <2>2 DEF CodexInv, RepliesAndMarks, RepliedOnce
<1>2. CASE UNCHANGED codexVars
  BY <1>2 DEF codexVars, CodexTypeOK, CodexInv, TakesOneByOne, Settled, RepliesAndMarks,
     ReadMeansReplied, RepliedOnce
<1>3. QED
  BY <1>1, <1>2

\* Type correctness of the Codex daemon and its inbox.
THEOREM CodexTypeCorrect == CodexSpec => []CodexTypeOK
BY CodexInitInv, CodexStepInv, PTL DEF CodexSpec

\* What the daemon marks read or remembers has had its reply, and a request gets
\* two replies only if a call for it failed or the daemon died while it handled it
\* (poll_once, _handle_review_message).
THEOREM RepliesAreMarked == CodexSpec => []RepliesAndMarks
<1>1. CodexInv => RepliesAndMarks
  BY DEF CodexInv
<1>2. QED
  BY <1>1, CodexInitInv, CodexStepInv, PTL DEF CodexSpec

-----------------------------------------------------------------------------
\* A task that was not submitted has no status.
Unsubmitted == \A j \in Jobs : j \notin Submitted => status[j] = "none"
\* A worker that is busy has a submitted task in hand.
InHand == \A w \in Workers : at[w] # "idle" => job[w] \in Jobs /\ status[job[w]] # "none"
\* A task that was started once is not pending again.
StartedLeft == \A j \in Jobs : executed[j] > 0 => status[j] \notin {"none", "pending"}
\* A second report is made only after the answer to the first was lost.
ExcuseUnsure == \A w \in Workers : at[w] = "excuse" => job[w] \in unsure

KushInv == /\ KushTypeOK /\ Unsubmitted /\ InHand /\ StartedLeft /\ ExcuseUnsure
           /\ RunsAccountedFor

LEMMA NoJobIsNone == NoJob \notin Jobs /\ MaxLost \in Nat
BY KushAssumption

-----------------------------------------------------------------------------
(* The worker: types.                                                      *)

LEMMA KushInitType == KushInit => KushTypeOK
BY KushAssumption DEF KushInit, KushTypeOK, IsInjective

\* Submitting a task that is not in the queue leaves every task there once.
LEMMA SubmitType == ASSUME KushTypeOK, NEW j \in Jobs, Submit(j) PROVE KushTypeOK'
<1>1. queue' \in Seq(Jobs) /\ IsInjective(queue')
  <2>1. \A i \in DOMAIN queue : queue[i] # j
    BY DEF Submit, Submitted, ToSet
  <2>2. QED
    BY <2>1 DEF Submit, KushTypeOK, IsInjective
<1>2. QED
  BY <1>1 DEF Submit, KushTypeOK

LEMMA WorkerType ==
  ASSUME KushTypeOK, InHand, NEW w \in Workers, Works(w) \/ WorkerDies(w)
  PROVE  KushTypeOK'
<1> USE NoJobIsNone DEF KushTypeOK, serverSide
<1>0. at[w] # "idle" => job[w] \in Jobs
  BY DEF InHand
<1>1. CASE Poll(w)
  BY <1>1 DEF Poll, Oldest
<1>2. CASE Accept(w)
  <2>1. at[w] = "accept" /\ job[w] \in Jobs
    BY <1>0, <1>2 DEF Accept
  <2>2. ServerAccepts(job[w]) \in
          [Jobs -> {"none", "pending", "working", "completed", "cancelled", "failed"}]
    BY <2>1 DEF ServerAccepts
  <2>3. status' \in [Jobs -> {"none", "pending", "working", "completed", "cancelled", "failed"}]
    BY <1>2, <2>2 DEF Accept
  <2>4. executed' \in [Jobs -> 0 .. 2]
    BY <1>2, <2>1 DEF Accept
  <2>5. at' \in [Workers -> {"idle", "accept", "run", "report", "excuse", "notify"}]
    BY <1>2 DEF Accept
  <2>6. job' \in [Workers -> Jobs \cup {NoJob}] /\ unanswered' \subseteq Jobs
    BY <1>2, <2>1 DEF Accept
  <2>7. lost' \in 0 .. MaxLost
    BY <1>2 DEF Accept, Mislaid
  <2> QED
    BY <1>2, <2>3, <2>4, <2>5, <2>6, <2>7 DEF Accept
<1>3. CASE Execute(w)
  BY <1>3 DEF Execute
<1>4. CASE Report(w)
  BY <1>0, <1>4 DEF Report, Mislaid, Completes
<1>5. CASE ReportAgain(w)
  BY <1>0, <1>5 DEF ReportAgain, Mislaid, Completes
<1>6. CASE Notify(w)
  BY <1>6 DEF Notify, Mislaid
<1>7. CASE WorkerDies(w)
  BY <1>0, <1>7 DEF WorkerDies, Mislaid
<1>8. QED
  BY <1>1, <1>2, <1>3, <1>4, <1>5, <1>6, <1>7 DEF Works

LEMMA KushTypeStep == KushTypeOK /\ InHand /\ [KushNext]_kushVars => KushTypeOK'
<1> SUFFICES ASSUME KushTypeOK, InHand, [KushNext]_kushVars PROVE KushTypeOK'
  OBVIOUS
<1>1. ASSUME NEW j \in Jobs, Submit(j) PROVE KushTypeOK'
  BY <1>1, SubmitType
<1>2. ASSUME NEW j \in Jobs, CancelTask(j) \/ ForceFail(j) PROVE KushTypeOK'
  BY <1>2 DEF CancelTask, ForceFail, KushTypeOK
<1>3. ASSUME NEW w \in Workers, Works(w) \/ WorkerDies(w) PROVE KushTypeOK'
  BY <1>3, WorkerType
<1>4. CASE UNCHANGED kushVars
  BY <1>4 DEF kushVars, KushTypeOK
<1>5. QED
  BY <1>1, <1>2, <1>3, <1>4 DEF KushNext

-----------------------------------------------------------------------------
(* The worker: the inductive invariant.                                    *)

LEMMA KushInitInv == KushInit => KushInv
BY KushInitType DEF KushInit, KushInv, Unsubmitted, InHand, StartedLeft, ExcuseUnsure,
   RunsAccountedFor, ExecutedOnce, WorkingIsHeld, OutputKept

\* What the others do: a submitted task gets a status, and none becomes pending.
LEMMA OthersKeep ==
  ASSUME KushInv, NEW j \in Jobs, Submit(j) \/ CancelTask(j) \/ ForceFail(j),
         KushTypeOK'
  PROVE  KushInv'
<1> USE DEF KushInv
<1>1. status' = [status EXCEPT ![j] = status'[j]] /\ status'[j] \in {"pending", "cancelled", "failed"}
  BY DEF Submit, CancelTask, ForceFail, KushTypeOK
<1>2. UNCHANGED <<result, told, at, job, went, executed, unanswered, unsure, lost>>
  BY DEF Submit, CancelTask, ForceFail
<1>3. status'[j] = "pending" => Submit(j)
  BY DEF CancelTask, ForceFail, KushTypeOK
<1>4. Unsubmitted'
  <2>1. CASE Submit(j)
    <3>1. Submitted' = Submitted \cup {j}
      <4>1. /\ queue \in Seq(Jobs) /\ queue' = Append(queue, j)
        BY <2>1 DEF Submit, KushTypeOK
      <4>2. /\ DOMAIN queue' = 1 .. Len(queue) + 1 /\ queue'[Len(queue) + 1] = j
            /\ DOMAIN queue = 1 .. Len(queue) /\ Len(queue) \in Nat
            /\ \A i \in 1 .. Len(queue) : queue'[i] = queue[i]
        BY <4>1
      <4>3. QED
        BY <4>2 DEF Submitted, ToSet
    <3>2. QED
      BY <3>1, <1>1 DEF Unsubmitted, KushTypeOK
  <2>2. CASE CancelTask(j) \/ ForceFail(j)
    <3>1. Submitted' = Submitted /\ j \in Submitted
      BY <2>2 DEF CancelTask, ForceFail, Submitted
    <3>2. QED
      BY <3>1, <1>1 DEF Unsubmitted, KushTypeOK
  <2>3. QED
    BY <2>1, <2>2
<1>5. InHand'
  BY <1>1, <1>2 DEF InHand, KushTypeOK
<1>6. StartedLeft'
  <2>1. Submit(j) => executed[j] = 0
    BY DEF Submit, Unsubmitted, StartedLeft, KushTypeOK
  <2>2. QED
    BY <1>1, <1>2, <1>3, <2>1 DEF StartedLeft, KushTypeOK
<1>7. ExcuseUnsure'
  BY <1>2 DEF ExcuseUnsure
<1>8. ExecutedOnce' /\ OutputKept'
  BY <1>2 DEF RunsAccountedFor, ExecutedOnce, OutputKept
<1>9. WorkingIsHeld'
  <2>1. \A k \in Jobs : Held(k)' <=> Held(k)
    BY <1>2 DEF Held
  <2>2. \A k \in Jobs : status'[k] = "working" => status[k] = "working"
    BY <1>1 DEF KushTypeOK
  <2>3. QED
    BY <1>2, <2>1, <2>2 DEF RunsAccountedFor, WorkingIsHeld
<1>10. QED
  BY <1>4, <1>5, <1>6, <1>7, <1>8, <1>9 DEF RunsAccountedFor

-----------------------------------------------------------------------------
(* The worker: the steps of its cycle.                                     *)

\* An idle worker holds nothing, so taking a task in hand disturbs nothing.
LEMMA PollKeeps ==
  ASSUME KushInv, NEW w \in Workers, Poll(w), KushTypeOK' PROVE KushInv'
<1> USE DEF KushInv
<1>1. PICK i \in DOMAIN queue : Oldest(i) /\ job' = [job EXCEPT ![w] = queue[i]]
  BY DEF Poll
<1>2. queue[i] \in Jobs /\ status[queue[i]] = "pending"
  BY <1>1 DEF Oldest, Pending, KushTypeOK
<1>3. /\ at[w] = "idle" /\ at' = [at EXCEPT ![w] = "accept"]
      /\ UNCHANGED <<queue, status, result, told, went, executed, unanswered, unsure, lost>>
  BY DEF Poll, serverSide
<1>4. Unsubmitted' /\ StartedLeft'
  BY <1>3 DEF Unsubmitted, StartedLeft, Submitted
<1>5. InHand' /\ ExcuseUnsure'
  BY <1>1, <1>2, <1>3 DEF InHand, ExcuseUnsure, KushTypeOK
<1>6. ExecutedOnce' /\ OutputKept'
  BY <1>3 DEF RunsAccountedFor, ExecutedOnce, OutputKept
<1>7. WorkingIsHeld'
  <2>1. \A j \in Jobs : Held(j) => Held(j)'
    BY <1>1, <1>3 DEF Held, KushTypeOK
  <2>2. QED
    BY <1>3, <2>1 DEF RunsAccountedFor, WorkingIsHeld
<1>8. QED
  BY <1>4, <1>5, <1>6, <1>7 DEF RunsAccountedFor

\* Only a pending task is accepted, and no pending task was ever started.
LEMMA AcceptKeeps ==
  ASSUME KushInv, NEW w \in Workers, Accept(w), KushTypeOK' PROVE KushInv'
<1> USE DEF KushInv
<1> DEFINE j == job[w]
<1>1. /\ at[w] = "accept" /\ j \in Jobs /\ status[j] # "none"
      /\ UNCHANGED <<queue, result, told, went, unsure>>
  BY DEF Accept, InHand
<1>2. \/ status' = status
      \/ status[j] = "pending" /\ status' = [status EXCEPT ![j] = "working"]
  BY DEF Accept, Acceptable, ServerAccepts
<1>3. \A k \in Jobs : /\ (status'[k] = "none") <=> (status[k] = "none")
                      /\ (status'[k] = "pending") => (status[k] = "pending")
  BY <1>1, <1>2 DEF KushTypeOK
<1>4. Unsubmitted' /\ OutputKept'
  BY <1>1, <1>3 DEF Unsubmitted, Submitted, RunsAccountedFor, OutputKept
<1>5. CASE Acceptable(j) /\ status' = ServerAccepts(j) /\ at' = [at EXCEPT ![w] = "run"]
           /\ executed' = [executed EXCEPT ![j] = IF @ < 2 THEN @ + 1 ELSE 2]
           /\ UNCHANGED <<job, unanswered, lost>>
  <2>1. status[j] = "pending" /\ status' = [status EXCEPT ![j] = "working"]
    BY <1>5 DEF Acceptable, ServerAccepts
  <2>2. executed[j] = 0
    BY <2>1, <1>1 DEF StartedLeft, KushTypeOK
  <2>3. executed' = [executed EXCEPT ![j] = 1]
    BY <1>5, <2>2, <1>1 DEF KushTypeOK
  <2>4. InHand' /\ ExcuseUnsure'
    BY <1>5, <1>1, <1>3 DEF InHand, ExcuseUnsure, KushTypeOK
  <2>5. StartedLeft' /\ ExecutedOnce'
    BY <2>1, <2>3, <1>1 DEF StartedLeft, RunsAccountedFor, ExecutedOnce, KushTypeOK
  <2>6. WorkingIsHeld'
    <3>1. Held(j)'
      BY <1>5 DEF Held, KushTypeOK
    <3>2. \A k \in Jobs : Held(k) => Held(k)'
      BY <1>5, <1>1 DEF Held, KushTypeOK
    <3>3. QED
      BY <2>1, <3>1, <3>2, <1>5, <1>1 DEF RunsAccountedFor, WorkingIsHeld, KushTypeOK
  <2>7. QED
    BY <1>4, <2>4, <2>5, <2>6 DEF RunsAccountedFor
<1>6. CASE /\ status' = status \/ unanswered' = unanswered \cup {j}
           /\ unanswered \subseteq unanswered'
           /\ at' = [at EXCEPT ![w] = "idle"] /\ job' = [job EXCEPT ![w] = NoJob]
           /\ UNCHANGED executed
  <2>1. InHand' /\ ExcuseUnsure'
    BY <1>6, <1>1, <1>3 DEF InHand, ExcuseUnsure, KushTypeOK
  <2>2. StartedLeft' /\ ExecutedOnce'
    BY <1>6, <1>3 DEF StartedLeft, RunsAccountedFor, ExecutedOnce, KushTypeOK
  <2>3. WorkingIsHeld'
    <3>1. \A k \in Jobs : Held(k) => Held(k)'
      BY <1>6, <1>1 DEF Held, KushTypeOK
    <3>2. \A k \in Jobs \ {j} : status'[k] = status[k]
      BY <1>2 DEF KushTypeOK
    <3>3. status'[j] = "working" => status[j] = "working" \/ j \in unanswered'
      BY <1>6
    <3>4. QED
      BY <3>1, <3>2, <3>3, <1>6 DEF RunsAccountedFor, WorkingIsHeld
  <2>4. QED
    BY <1>4, <2>1, <2>2, <2>3 DEF RunsAccountedFor
<1>7. QED
  BY <1>5, <1>6 DEF Accept

\* What the last four steps of a cycle have in common: at most the task in
\* hand changes its status, and then it is completed.
LEMMA LaterKeep ==
  ASSUME KushInv, NEW w \in Workers, KushTypeOK',
         Execute(w) \/ Report(w) \/ ReportAgain(w) \/ Notify(w) \/ WorkerDies(w)
  PROVE  /\ at[w] # "idle" /\ job[w] \in Jobs
         /\ \/ status' = status
            \/ status' = [status EXCEPT ![job[w]] = "completed"]
         /\ queue' = queue /\ executed' = executed
         /\ unsure \subseteq unsure' /\ unanswered \subseteq unanswered'
         /\ Unsubmitted' /\ StartedLeft' /\ ExecutedOnce'
<1> USE DEF KushInv
<1>1. at[w] # "idle" /\ queue' = queue /\ executed' = executed
  BY DEF Execute, Report, ReportAgain, Notify, WorkerDies, serverSide
<1>2. job[w] \in Jobs /\ status[job[w]] # "none"
  BY <1>1 DEF InHand
<1>3. status' = status \/ status' = [status EXCEPT ![job[w]] = "completed"]
  BY DEF Execute, Report, ReportAgain, Notify, WorkerDies, serverSide, Completes
<1>4. unsure \subseteq unsure' /\ unanswered \subseteq unanswered'
  BY DEF Execute, Report, ReportAgain, Notify, WorkerDies
<1>5. Unsubmitted' /\ StartedLeft'
  BY <1>1, <1>2, <1>3 DEF Unsubmitted, StartedLeft, Submitted, KushTypeOK
<1>6. ExecutedOnce'
  BY <1>1 DEF RunsAccountedFor, ExecutedOnce
<1>7. QED
  BY <1>1, <1>2, <1>3, <1>4, <1>5, <1>6

\* The task stays in the worker's hands, or it is completed or given up in
\* the open.
LEMMA HandsKeep ==
  ASSUME KushInv, NEW w \in Workers, KushTypeOK',
         Execute(w) \/ Report(w) \/ ReportAgain(w) \/ Notify(w) \/ WorkerDies(w)
  PROVE  InHand' /\ ExcuseUnsure' /\ WorkingIsHeld'
<1> USE DEF KushInv
<1>0. /\ at[w] # "idle" /\ job[w] \in Jobs
      /\ status' = status \/ status' = [status EXCEPT ![job[w]] = "completed"]
      /\ unsure \subseteq unsure' /\ unanswered \subseteq unanswered'
  BY LaterKeep
<1>1. /\ \A v \in Workers \ {w} : at'[v] = at[v] /\ job'[v] = job[v]
      /\ at'[w] # "idle" => job'[w] = job[w]
  BY DEF Execute, Report, ReportAgain, Notify, WorkerDies, KushTypeOK
<1>2. InHand'
  BY <1>0, <1>1 DEF InHand, KushTypeOK
<1>3. at'[w] = "excuse" => job[w] \in unsure'
  BY DEF Execute, Report, ReportAgain, Notify, WorkerDies, KushTypeOK
<1>4. ExcuseUnsure'
  BY <1>0, <1>1, <1>3 DEF ExcuseUnsure
<1>5. \/ at'[w] \in {"run", "report", "excuse"} /\ job'[w] = job[w]
      \/ at[w] \notin {"run", "report", "excuse"}
      \/ status'[job[w]] = "completed"
      \/ job[w] \in unanswered'
  <2>1. CASE Execute(w)
    BY <2>1 DEF Execute, KushTypeOK
  <2>2. CASE Report(w)
    BY <2>2, <1>0 DEF Report, Completes, KushTypeOK
  <2>3. CASE ReportAgain(w)
    BY <2>3, <1>0 DEF ReportAgain, Completes, KushTypeOK
  <2>4. CASE Notify(w)
    BY <2>4 DEF Notify
  <2>5. CASE WorkerDies(w)
    BY <2>5 DEF WorkerDies
  <2>6. QED
    BY <2>1, <2>2, <2>3, <2>4, <2>5
<1>6. WorkingIsHeld'
  <2> SUFFICES ASSUME NEW j \in Jobs, status'[j] = "working", j \notin unanswered'
               PROVE  Held(j)'
    BY DEF WorkingIsHeld
  <2>1. status[j] = "working" /\ j \notin unanswered
    BY <1>0 DEF KushTypeOK
  <2>2. PICK v \in Workers : job[v] = j /\ at[v] \in {"run", "report", "excuse"}
    BY <2>1 DEF RunsAccountedFor, WorkingIsHeld, Held
  <2>3. CASE v = w
    BY <2>2, <2>3, <1>5 DEF Held
  <2>4. CASE v # w
    BY <2>2, <2>4, <1>1 DEF Held
  <2>5. QED
    BY <2>3, <2>4
<1>7. QED
  BY <1>2, <1>4, <1>6

\* The excuse replaces a result only in the second report.
LEMMA ResultsKeep ==
  ASSUME KushInv, NEW w \in Workers, KushTypeOK',
         Execute(w) \/ Report(w) \/ ReportAgain(w) \/ Notify(w) \/ WorkerDies(w)
  PROVE  OutputKept'
<1> USE DEF KushInv
<1>1. unsure \subseteq unsure' /\ job[w] \in Jobs
  BY LaterKeep
<1>2. \/ result' = result
      \/ result' = [result EXCEPT ![job[w]] = "output"]
      \/ result' = [result EXCEPT ![job[w]] = "excuse"] /\ at[w] = "excuse"
  BY DEF Execute, Report, ReportAgain, Notify, WorkerDies, serverSide, Completes
<1>3. at[w] = "excuse" => job[w] \in unsure
  BY DEF ExcuseUnsure
<1>4. QED
  BY <1>1, <1>2, <1>3 DEF RunsAccountedFor, OutputKept, KushTypeOK

-----------------------------------------------------------------------------
LEMMA KushStepInv == KushInv /\ [KushNext]_kushVars => KushInv'
<1> SUFFICES ASSUME KushInv, [KushNext]_kushVars PROVE KushInv'
  OBVIOUS
<1>0. KushTypeOK'
  BY KushTypeStep DEF KushInv
<1>1. ASSUME NEW j \in Jobs, Submit(j) \/ CancelTask(j) \/ ForceFail(j) PROVE KushInv'
  BY <1>0, <1>1, OthersKeep
<1>2. ASSUME NEW w \in Workers, Poll(w) PROVE KushInv'
  BY <1>0, <1>2, PollKeeps
<1>3. ASSUME NEW w \in Workers, Accept(w) PROVE KushInv'
  BY <1>0, <1>3, AcceptKeeps
<1>4. ASSUME NEW w \in Workers,
             Execute(w) \/ Report(w) \/ ReportAgain(w) \/ Notify(w) \/ WorkerDies(w)
      PROVE  KushInv'
  BY <1>0, <1>4, LaterKeep, HandsKeep, ResultsKeep DEF KushInv, RunsAccountedFor
<1>5. CASE UNCHANGED kushVars
  BY <1>0, <1>5 DEF kushVars, KushInv, Unsubmitted, Submitted, InHand, StartedLeft,
     ExcuseUnsure, RunsAccountedFor, ExecutedOnce, WorkingIsHeld, Held, OutputKept
<1>6. QED
  BY <1>1, <1>2, <1>3, <1>4, <1>5 DEF KushNext, Works

\* Type correctness of the worker and the server's side: in particular no task
\* is in the queue twice, whatever is submitted, lost or cancelled.
THEOREM WorkerTypeCorrect == KushSpec => []KushTypeOK
<1>1. KushInv => KushTypeOK
  BY DEF KushInv
<1>2. QED
  BY <1>1, KushInitInv, KushStepInv, PTL DEF KushSpec

\* However many workers poll and whatever is lost, no task is started twice, a
\* task that is "working" is in somebody's hands or was given up without an
\* answer, and an output is replaced only after a lost answer
\* (poll_and_execute, task_accept).
THEOREM RunsAreAccountedFor == KushSpec => []RunsAccountedFor
<1>1. KushInv => RunsAccountedFor
  BY DEF KushInv
<1>2. QED
  BY <1>1, KushInitInv, KushStepInv, PTL DEF KushSpec

-----------------------------------------------------------------------------
(* The daemons side by side.                                               *)

\* A step of the composition is a step or a stutter of each daemon.
LEMMA DaemonsStep ==
  [MCNext]_daemonVars => [MonitorNext]_monitorVars /\ [CodexNext]_codexVars /\ [KushNext]_kushVars
BY DEF MCNext, daemonVars

DaemonsInv == MonitorTypeOK /\ MonitorInv /\ CodexTypeOK /\ CodexInv /\ KushInv

\* The daemons' invariants side by side.
LEMMA DaemonsTogether == MCSpec => []DaemonsInv
<1>1. MCInit => DaemonsInv
  BY MonitorInitInv, CodexInitInv, KushInitInv DEF MCInit, DaemonsInv
<1>2. DaemonsInv /\ [MCNext]_daemonVars => DaemonsInv'
  BY DaemonsStep, MonitorStepInv, CodexStepInv, KushStepInv DEF DaemonsInv
<1> QED
  BY <1>1, <1>2, PTL DEF MCSpec

\* The variables of all daemons keep their types, whichever of them is at work.
THEOREM DaemonsTypeCorrect == MCSpec => []DaemonsTypeOK
<1>1. DaemonsInv => DaemonsTypeOK
  BY DEF DaemonsInv, DaemonsTypeOK, KushInv
<1> QED
  BY <1>1, DaemonsTogether, PTL

\* Whichever of the daemons is explored, what the run of all three checks of their
\* states (pm_monitor.py, codex_monitor.py, kush_worker.py).
THEOREM DaemonsCorrect == MCSpec => [](SpawnDiscipline /\ RepliesAndMarks /\ RunsAccountedFor)
<1>1. DaemonsInv => SpawnDiscipline /\ RepliesAndMarks /\ RunsAccountedFor
  BY DEF DaemonsInv, MonitorInv, CodexInv, KushInv
<1> QED
  BY <1>1, DaemonsTogether, PTL
=============================================================================
