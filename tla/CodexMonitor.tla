---------------------------- MODULE CodexMonitor ----------------------------
(***************************************************************************)
(* The daemon that reviews code for whoever asks codex over the bus        *)
(* (monitor/codex_monitor.py), and the interactive Codex session that      *)
(* works on the same inbox with its own tools (mcp/codex_bus.py).  Every   *)
(* cycle the daemon lists the unread messages and takes them one by one:   *)
(* it runs a review, replies, and marks the message read.  Only then does  *)
(* it remember the message; whatever fails before is done again in the     *)
(* next cycle, because the message is still unread.                        *)
(***************************************************************************)
EXTENDS Naturals, Sequences, FiniteSets, SequencesExt

CONSTANTS Reviews,        \* messages that ask for a review
          Notes,          \* other messages to codex, which are ignored
          ListLimit,      \* how many messages the bus lists, the newest first
          MaxMishaps      \* bound: failed calls, failed saves and deaths

Inbox == Reviews \cup Notes

ASSUME CodexAssumption ==
  /\ Reviews \cap Notes = {}
  /\ ListLimit \in Nat \ {0} /\ MaxMishaps \in Nat

VARIABLES
  sent,      \* the messages to codex, in the order they were sent
  read,      \* those marked read
  replies,   \* history: how often the daemon replied to a message, up to 2
  bySession, \* history: what the session marked read
  known,     \* handled_message_ids and ignored_message_ids in memory
  saved,     \* the same in the state file
  batch,     \* the messages listed in this cycle and not taken yet
  phase,     \* "down", "sleep", "take", or what is done with batch's head
  harmed,    \* history: messages whose handling failed or died half way
  mishaps

codexVars == <<sent, read, replies, bySession, known, saved, batch, phase,
               harmed, mishaps>>
Nothing == [handled |-> {}, ignored |-> {}]
----------------------------------------------------------------------------
Send(m) == /\ m \notin ToSet(sent)
           /\ sent' = Append(sent, m)
           /\ UNCHANGED <<read, replies, bySession, known, saved, batch, phase,
                          harmed, mishaps>>

(* The session's bus_mark_read; its bus_respond leaves a message unread. *)
SessionReads(m) ==
  /\ m \in ToSet(sent) \ read
  /\ read' = read \cup {m} /\ bySession' = bySession \cup {m}
  /\ UNCHANGED <<sent, replies, known, saved, batch, phase, harmed, mishaps>>
----------------------------------------------------------------------------
CodexStart ==
  /\ phase = "down"
  /\ known' = saved /\ phase' = "sleep"
  /\ UNCHANGED <<sent, read, replies, bySession, saved, batch, harmed, mishaps>>

Mishap == mishaps < MaxMishaps /\ mishaps' = mishaps + 1

(* Variant with a bug: what was read is listed too. *)
UnreadOrNot == ToSet(sent)

(* GET /messages?to=codex&unread=true: the newest ListLimit of them. *)
Unread == ToSet(sent) \ read
SentAfter(m, n) == \E i, j \in DOMAIN sent : i > j /\ sent[i] = m /\ sent[j] = n
NewestFirst(S) == {q \in [1 .. Cardinality(S) -> S] :
                     \A i, j \in DOMAIN q : i < j => SentAfter(q[i], q[j])}
Newest(q) == SubSeq(q, 1, IF Len(q) < ListLimit THEN Len(q) ELSE ListLimit)
IsListed(m) == m \in Unread /\ Cardinality({n \in Unread : SentAfter(n, m)}) < ListLimit

FetchUnread ==
  /\ phase = "sleep"
  /\ \/ (\E q \in NewestFirst(Unread) : batch' = Newest(q)) /\ UNCHANGED mishaps
     \/ Mishap /\ UNCHANGED batch
  /\ phase' = "take"
  /\ UNCHANGED <<sent, read, replies, bySession, known, saved, harmed>>

(* A message that is handled is passed over, one that is no request ignored. *)
PassOver ==
  /\ phase = "take" /\ batch # <<>>
  /\ \/ Head(batch) \in known.handled /\ UNCHANGED known
     \/ /\ Head(batch) \in Notes
        /\ known' = [known EXCEPT !.ignored = @ \cup {Head(batch)}]
  /\ batch' = Tail(batch)
  /\ UNCHANGED <<sent, read, replies, bySession, saved, phase, harmed, mishaps>>

(* Variant with a bug: the message is remembered before it is handled. *)
RunReviewRemembers ==
  /\ phase = "take" /\ batch # <<>>
  /\ Head(batch) \in Reviews \ known.handled
  /\ known' = [known EXCEPT !.handled = @ \cup {Head(batch)}]
  /\ phase' = "reply"
  /\ UNCHANGED <<sent, read, replies, bySession, saved, batch, harmed, mishaps>>

(* The review runs for up to twenty minutes; whatever it raises becomes the *)
(* text of the reply.                                                       *)
RunReview ==
  /\ phase = "take" /\ batch # <<>>
  /\ Head(batch) \in Reviews \ known.handled
  /\ phase' = "reply"
  /\ UNCHANGED <<sent, read, replies, bySession, known, saved, batch, harmed, mishaps>>

(* A call to the bus that raises was carried out or not. *)
GiveUpHead == /\ Mishap
              /\ harmed' = harmed \cup {Head(batch)}
              /\ phase' = "take" /\ batch' = Tail(batch)
Replied == replies' = [replies EXCEPT ![Head(batch)] = IF @ < 2 THEN @ + 1 ELSE 2]

Reply ==
  /\ phase = "reply"
  /\ \/ Replied /\ phase' = "mark" /\ UNCHANGED <<batch, harmed, mishaps>>
     \/ GiveUpHead /\ (Replied \/ UNCHANGED replies)
  /\ UNCHANGED <<sent, read, bySession, known, saved>>

MarkRead ==
  /\ phase = "mark"
  /\ \/ /\ read' = read \cup {Head(batch)}
        /\ known' = [known EXCEPT !.handled = @ \cup {Head(batch)}]
        /\ phase' = "take" /\ batch' = Tail(batch)
        /\ UNCHANGED <<harmed, mishaps>>
     \/ /\ GiveUpHead /\ UNCHANGED known
        /\ read' \in {read, read \cup {Head(batch)}}
  /\ UNCHANGED <<sent, replies, bySession, saved>>

CodexSaveState ==
  /\ phase = "take" /\ batch = <<>>
  /\ saved' = known /\ phase' = "sleep"
  /\ UNCHANGED <<sent, read, replies, bySession, known, batch, harmed, mishaps>>

(* The daemon dies, perhaps while it writes the file, which is unreadable   *)
(* then and taken for empty.                                                *)
CodexDies ==
  /\ phase # "down" /\ Mishap
  /\ saved' \in {saved} \cup (IF phase = "take" /\ batch = <<>> THEN {Nothing} ELSE {})
  /\ harmed' = IF phase \in {"reply", "mark"}
                 THEN harmed \cup {Head(batch)} ELSE harmed
  /\ phase' = "down" /\ batch' = <<>>
  /\ UNCHANGED <<sent, read, replies, bySession, known>>
----------------------------------------------------------------------------
CodexInit ==
  /\ sent = <<>> /\ read = {} /\ bySession = {}
  /\ replies = [m \in Inbox |-> 0]
  /\ known = Nothing /\ saved = Nothing
  /\ batch = <<>> /\ phase = "down"
  /\ harmed = {} /\ mishaps = 0

Daemon == \/ CodexStart \/ FetchUnread \/ PassOver \/ RunReview \/ Reply \/ MarkRead
          \/ CodexSaveState
Others == \E m \in Inbox : Send(m) \/ SessionReads(m)
CodexNext   == Daemon \/ Others \/ CodexDies

(* The loop catches what a cycle raises and sleeps thirty seconds.  The     *)
(* calls it makes go through in the end, as mishaps are bounded.            *)
CodexSpec == CodexInit /\ [][CodexNext]_codexVars /\ WF_codexVars(Daemon)
----------------------------------------------------------------------------
Remembered == [handled : SUBSET Inbox, ignored : SUBSET Inbox]
CodexTypeOK ==
  /\ sent \in Seq(Inbox) /\ read \subseteq Inbox /\ bySession \subseteq read
  /\ replies \in [Inbox -> 0 .. 2]
  /\ known \in Remembered /\ saved \in Remembered
  /\ batch \in Seq(Inbox)
  /\ phase \in {"down", "sleep", "take", "reply", "mark"}
  /\ harmed \subseteq Inbox /\ mishaps \in 0 .. MaxMishaps

(* "marks the source message read after successful handling" (docstring of  *)
(* the module): what the daemon marks read, or remembers as handled, has    *)
(* had its reply, whatever failed and died on the way; and a request gets   *)
(* two replies only if a call for it failed, or the daemon died while it    *)
(* handled it (poll_once, _handle_review_message).                          *)
ReadMeansReplied == \A m \in read \cup known.handled \cup saved.handled :
                      replies[m] > 0 \/ m \in bySession
RepliedOnce      == \A m \in Inbox : replies[m] > 1 => m \in harmed
RepliesAndMarks  == ReadMeansReplied /\ RepliedOnce

(* Inductive, with CodexTypeOK: what the daemon replied to and what did not  *)
(* go wrong is the message it is about to mark, or is read and, while the    *)
(* list it was in is worked off, remembered in memory: so a list that is     *)
(* old by now, or a state file that is, does not bring it back.              *)
TakesOneByOne ==
  /\ phase \in {"down", "sleep"} => batch = <<>>
  /\ phase \in {"reply", "mark"} => batch # <<>> /\ Head(batch) \notin known.handled
  /\ phase = "mark" => replies[Head(batch)] > 0
Settled(m) == \/ m \in harmed
              \/ phase = "mark" /\ m = Head(batch)
              \/ m \in read /\ (m \in known.handled \/ m \notin ToSet(batch))
CodexInv == /\ TakesOneByOne
            /\ \A m \in Inbox : replies[m] > 0 => Settled(m)
            /\ RepliesAndMarks

(* A review that is asked for is replied to in the end, as long as the bus   *)
(* lists the request: until the session marks it read, or ListLimit newer    *)
(* messages are unread.  Notes stay unread for ever, so enough of them keep  *)
(* an older request from being listed at all (poll_once, main).              *)
EveryReviewReplied ==
  \A m \in Reviews : IsListed(m) ~> replies[m] > 0 \/ ~IsListed(m)
=============================================================================
