----------------------------- MODULE ContentDesk -----------------------------
(***************************************************************************)
(* One day's draft file and the three programs that share it: the agent    *)
(* that has it written (agent/daily_media_agent.py), the dashboard server  *)
(* that shows it and stores Brad's verdicts (content/server), and the      *)
(* script that publishes what the file says is approved                    *)
(* (content/post_to_platforms.py).  Nothing locks the file.  The server    *)
(* keeps what it has parsed in its database, by position, and parses again *)
(* when the file's time has changed; its verdicts do not go to the file.   *)
(***************************************************************************)
EXTENDS Naturals, Sequences, FiniteSets, SequencesExt, FiniteSetsExt

CONSTANTS Titles,      \* the angles that can be written about that day
          Wants,       \* the platforms each of them has text for
          Begins,      \* <<t, u>>: the title u begins with the title t
          MaxAttempts, \* MAX_RETRIES of the agent
          MaxWrites,   \* bound: writes of the file
          MaxMishaps   \* bound: loads cut short, deaths of the publisher

Platforms == <<"linkedin", "twitter", "instagram", "blog">>

ASSUME DeskAssumption ==
  /\ Wants \in [Titles -> SUBSET ToSet(Platforms)] /\ Begins \subseteq Titles \X Titles
  /\ MaxAttempts \in Nat \ {0} /\ MaxWrites \in Nat /\ MaxMishaps \in Nat

VARIABLES
  page,     \* the file's angles, in order; none while it does not exist
  stamp,    \* its modification time, 0 while it does not exist
  agent,    \* "idle", "try", or the outcome it has to log
  attempt,  \* which attempt the skill is in
  cached,   \* the time of the file the server has parsed
  rows,     \* the angles in the server's database, by position
  said,     \* history: the last verdict given on each position
  cut,      \* history: the last parse was cut short
  todo,     \* the drafts the publisher has still to publish
  done,     \* the platforms of the first of them it is through with
  held,     \* the page it has read to mark that one posted, or none
  tried,    \* history: <<title, platform>> that were tried
  twice,    \* history: what was published on a platform a second time
  posted,   \* history: what was published on a platform
  torn,     \* history: titles published whose block was not marked posted
  glitches

deskVars  == <<page, stamp, agent, attempt, cached, rows, said, cut, todo,
               done, held, tried, twice, posted, torn, glitches>>
agentSide == <<agent, attempt>>
dashboard == <<cached, rows, said, cut>>
publisher == <<todo, done, held, tried, twice, posted>>

Glitch == glitches < MaxMishaps /\ glitches' = glitches + 1
Write(p) == stamp < MaxWrites /\ page' = p /\ stamp' = stamp + 1
Marked(p, mark) == {p[i].title : i \in {j \in DOMAIN p : p[j].mark = mark}}
WasPosted(t) == \E q \in Range(Platforms) : <<t, q>> \in posted
----------------------------------------------------------------------------
(* The agent.  "Duplicate prevention": an existing file ends the run. *)
AgentStarts ==
  /\ agent = "idle"
  /\ IF stamp > 0 THEN agent' = "skipped" /\ UNCHANGED attempt
     ELSE agent' = "try" /\ attempt' = 1
  /\ UNCHANGED <<page, stamp, dashboard, publisher, torn, glitches>>

(* The skill writes the file, as often as it likes, before it ends. *)
Draft(t) == [title |-> t, mark |-> "draft"]
SkillWrites ==
  /\ agent = "try"
  /\ \E n \in 0 .. Cardinality(Titles) :
       \E q \in {s \in [1 .. n -> Titles] : IsInjective(s)} :
         Write([i \in 1 .. n |-> Draft(q[i])])
  /\ torn' = torn \cup {t \in Marked(page, "posted") : WasPosted(t)}
  /\ UNCHANGED <<agentSide, dashboard, publisher, glitches>>

(* It exits, with an error or not, or is killed after a time. *)
SkillEnds(ok) ==
  /\ agent = "try"
  /\ IF ok \/ attempt = MaxAttempts
       THEN /\ agent' = CASE ok /\ stamp > 0 /\ page # <<>> -> "success"
                          [] ok /\ stamp > 0 /\ page = <<>> -> "no_content"
                          [] ok /\ stamp = 0                -> "no_file"
                          [] ~ok                            -> "failed"
            /\ UNCHANGED attempt
       ELSE attempt' = attempt + 1 /\ UNCHANGED agent
  /\ UNCHANGED <<page, stamp, dashboard, publisher, torn, glitches>>

(* The outcome goes to the log, which the dashboard only shows. *)
AppendLog ==
  /\ agent \notin {"idle", "try"}
  /\ agent' = "idle" /\ attempt' = 0
  /\ UNCHANGED <<page, stamp, dashboard, publisher, torn, glitches>>
----------------------------------------------------------------------------
(* The dashboard.  The file's time is stored first, then row by row, each   *)
(* in a transaction of its own; a row that exists keeps its status.  A time *)
(* that differs by 0.01 s or less counts as the same: then the file is not  *)
(* parsed, which is a step the dashboard does not take.                     *)
UpsertedAfresh(old, i) == [title |-> page[i].title, status |-> "draft"]  \* variant with a bug
Upserted(old, i) == [title |-> page[i].title,
                     status |-> IF i \in DOMAIN old THEN old[i].status ELSE "draft"]
Parsed(old, n) ==
  [i \in 1 .. (IF n > Len(old) THEN n ELSE Len(old)) |->
     IF i <= n THEN Upserted(old, i) ELSE old[i]]

LoadBrief ==
  /\ stamp > 0 /\ cached # stamp
  /\ cached' = stamp
  /\ \/ rows' = Parsed(rows, Len(page)) /\ cut' = FALSE /\ UNCHANGED glitches
     \/ /\ Glitch /\ page # <<>>
        /\ \E n \in 0 .. Len(page) - 1 : rows' = Parsed(rows, n)
        /\ cut' = TRUE
  /\ said' = said \o [i \in 1 .. Len(rows') - Len(rows) |-> "draft"]
  /\ UNCHANGED <<page, stamp, agentSide, publisher, torn>>

(* Approval and rejection do not look at the status; a post reported by     *)
(* hand leaves a rejected angle rejected.                                   *)
Verdict(i, v) ==
  /\ i \in DOMAIN rows
  /\ rows' = [rows EXCEPT ![i].status = v] /\ said' = [said EXCEPT ![i] = v]
  /\ UNCHANGED <<page, stamp, agentSide, cached, cut, publisher, torn, glitches>>

MarkPosted(i) ==
  /\ i \in DOMAIN rows /\ rows[i].status \in {"draft", "approved"}
  /\ rows' = [rows EXCEPT ![i].status = "posted"]
  /\ said' = [said EXCEPT ![i] = "posted"]
  /\ UNCHANGED <<page, stamp, agentSide, cached, cut, publisher, torn, glitches>>

(* Brad approves in the file itself, or takes it back. *)
EditMark(i) ==
  /\ i \in DOMAIN page /\ page[i].mark \in {"draft", "approved"}
  /\ Write([page EXCEPT ![i].mark = IF @ = "draft" THEN "approved" ELSE "draft"])
  /\ UNCHANGED <<agentSide, dashboard, publisher, torn, glitches>>
----------------------------------------------------------------------------
(* The blocks with such a mark, in the file's order. *)
Listed(S) ==
  {q \in [1 .. Cardinality(S) -> S] : \A i, j \in DOMAIN q : i < j => q[i] < q[j]}
Takes(marks) ==
  \E q \in Listed({i \in DOMAIN page : page[i].mark \in marks}) :
    q # <<>> /\ todo' = [i \in DOMAIN q |-> page[q[i]].title]

(* Variant with a bug: it takes what it has published for approved. *)
ParseWholeFile ==
  /\ todo = <<>> /\ Takes({"approved", "posted"})
  /\ UNCHANGED <<page, stamp, agentSide, dashboard, done, held, tried, twice, posted,
                 torn, glitches>>

(* The publisher reads the file once; what it finds approved it publishes.  *)
ParseDraftFile ==
  /\ todo = <<>> /\ Takes({"approved"})
  /\ UNCHANGED <<page, stamp, agentSide, dashboard, done, held, tried, twice, posted,
                 torn, glitches>>

(* The platforms come in their order.  The browser is told where to click,  *)
(* and hardly looked at: a post that is reported made, or not made, may     *)
(* have arrived or not.  The blog is a stub.                                *)
Arrives == BOOLEAN
Remaining == {k \in DOMAIN Platforms : Platforms[k] \in Wants[Head(todo)] \ done}
Post(p, arrives) ==
  /\ todo # <<>> /\ Remaining # {} /\ p = Platforms[Min(Remaining)]
  /\ LET piece == <<Head(todo), p>>
     IN  /\ tried' = tried \cup {piece}
         /\ posted' = IF arrives THEN posted \cup {piece} ELSE posted
         /\ twice' = IF arrives /\ piece \in posted THEN twice \cup {piece} ELSE twice
  /\ done' = done \cup {p}
  /\ UNCHANGED <<page, stamp, agentSide, dashboard, todo, held, torn, glitches>>
PostLinkedIn  == \E arrives \in Arrives : Post("linkedin", arrives)
PostXThread   == \E arrives \in Arrives : Post("twitter", arrives)
PostInstagram == \E arrives \in Arrives : Post("instagram", arrives)
PostBlog      == Post("blog", FALSE)

(* Whatever the results, the file is read again and written back, with      *)
(* every approved block whose title begins with this one's marked posted;   *)
(* what was written in between is lost.                                     *)
Matches(t, u) == t = u \/ <<t, u>> \in Begins
Patched(p, t) == [i \in DOMAIN p |->
  IF Matches(t, p[i].title) /\ p[i].mark = "approved" THEN [p[i] EXCEPT !.mark = "posted"]
  ELSE p[i]]
ReadDraftFile ==
  /\ todo # <<>> /\ Remaining = {} /\ held = {}
  /\ held' = {page}
  /\ UNCHANGED <<page, stamp, agentSide, dashboard, todo, done, tried, twice, posted,
                 torn, glitches>>
UpdateDraftFile ==
  /\ \E p \in held : Write(Patched(p, Head(todo)))
  /\ torn' = IF Head(todo) \in Marked(page', "posted") THEN torn
             ELSE torn \cup {Head(todo)}
  /\ todo' = Tail(todo) /\ done' = {} /\ held' = {}
  /\ UNCHANGED <<agentSide, dashboard, tried, twice, posted, glitches>>

PublisherDies ==
  /\ todo # <<>> /\ Glitch
  /\ torn' = IF WasPosted(Head(todo)) THEN torn \cup {Head(todo)} ELSE torn
  /\ todo' = <<>> /\ done' = {} /\ held' = {}
  /\ UNCHANGED <<page, stamp, agentSide, dashboard, tried, twice, posted>>
----------------------------------------------------------------------------
DeskInit ==
  /\ page = <<>> /\ stamp = 0
  /\ agent = "idle" /\ attempt = 0
  /\ cached = 0 /\ rows = <<>> /\ said = <<>> /\ cut = FALSE
  /\ todo = <<>> /\ done = {} /\ held = {} /\ tried = {} /\ twice = {} /\ posted = {} /\ torn = {}
  /\ glitches = 0

Agent     == \/ AgentStarts \/ SkillWrites \/ AppendLog
             \/ \E ok \in BOOLEAN : SkillEnds(ok)
Dashboard == \/ LoadBrief
             \/ \E i \in DOMAIN rows :
                  MarkPosted(i) \/ \E v \in {"approved", "rejected"} : Verdict(i, v)
             \/ \E i \in DOMAIN page : EditMark(i)
Publisher == \/ ParseDraftFile \/ PostLinkedIn \/ PostXThread \/ PostInstagram
             \/ PostBlog \/ ReadDraftFile \/ UpdateDraftFile \/ PublisherDies
DeskNext == Agent \/ Dashboard \/ Publisher
DeskSpec == DeskInit /\ [][DeskNext]_deskVars
----------------------------------------------------------------------------
Statuses == {"draft", "approved", "rejected", "posted"}
Pieces   == Titles \X ToSet(Platforms)
Pages    == Seq([title : Titles, mark : {"draft", "approved", "posted"}])
DeskTypeOK ==
  /\ page \in Pages /\ held \subseteq Pages
  /\ stamp \in 0 .. MaxWrites /\ cached \in 0 .. stamp
  /\ agent \in {"idle", "try", "skipped", "success", "no_content", "no_file", "failed"}
  /\ attempt \in 0 .. MaxAttempts
  /\ rows \in Seq([title : Titles, status : Statuses])
  /\ said \in Seq(Statuses) /\ cut \in BOOLEAN
  /\ todo \in Seq(Titles) /\ done \subseteq ToSet(Platforms)
  /\ tried \subseteq Pieces /\ posted \subseteq tried /\ twice \subseteq posted
  /\ torn \subseteq Titles /\ glitches \in 0 .. MaxMishaps

TriedAll(p) == \A t \in Marked(p, "posted") : \/ \A q \in Wants[t] : <<t, q>> \in tried
                                               \/ \E u \in Titles \ {t} : <<u, t>> \in Begins

(* Nothing is published twice on a platform, unless the script died or the  *)
(* block was withdrawn or rewritten before it was marked; and what is       *)
(* marked posted was tried wherever it was to go, unless its title begins   *)
(* with another's (main, update_draft_file).                                *)
PublishedOnce ==
  /\ \A piece \in twice : piece[1] \in torn
  /\ TriedAll(page)

(* What the dashboard shows is the file it has parsed, unless the parse was *)
(* cut short, for the file's time is stored before its angles are; and no   *)
(* parse changes a verdict ("does NOT touch status/approval fields").       *)
DashboardShowsFile ==
  /\ cached = stamp /\ ~cut => /\ Len(rows) >= Len(page)
                               /\ \A i \in DOMAIN page : rows[i].title = page[i].title
  /\ \A i \in DOMAIN rows : rows[i].status = said[i]

(* Inductive, with DeskTypeOK: titles and drafts are different ones; what    *)
(* was published is torn, or marked posted and not to be published, or the   *)
(* draft in hand, which is through with those platforms; and that one was    *)
(* tried wherever it is through.  The page that is written back has the same *)
(* marks "posted" as the file, for nobody else sets them.                    *)
AllApart(p) == \A i, j \in DOMAIN p : p[i].title = p[j].title => i = j
InHand(t) == todo # <<>> /\ t = Head(todo) /\ \A p \in ToSet(Platforms) : <<t, p>> \in posted => p \in done
Accounted(t) == \/ t \in torn
                \/ t \in Marked(page, "posted") /\ t \notin ToSet(todo)
                \/ InHand(t)
HeldInv ==
  /\ held # {} => todo # <<>> /\ Remaining = {}
  /\ \A p \in held : /\ AllApart(p) /\ Marked(page, "posted") \subseteq Marked(p, "posted")
                     /\ TriedAll(p)
OnceInv ==
  /\ AllApart(page) /\ IsInjective(todo)
  /\ todo = <<>> => done = {}
  /\ \A p \in done : <<Head(todo), p>> \in tried
  /\ \A t \in Titles : WasPosted(t) => Accounted(t)
  /\ HeldInv /\ PublishedOnce

(* Inductive, with DeskTypeOK: verdicts and rows belong together.            *)
ShownInv == Len(rows) = Len(said) /\ DashboardShowsFile
=============================================================================
