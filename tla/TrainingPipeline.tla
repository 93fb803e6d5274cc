-------------------------- MODULE TrainingPipeline --------------------------
(***************************************************************************)
(* The two programs that make a training module's video from its slides    *)
(* and its narration: content/training/pipeline.py and produce.py.  Both   *)
(* write into the same directory, which keeps what earlier runs of either  *)
(* left; the author edits the sources between runs.  A picture or a voice  *)
(* stands for itself by the edition of the source it was made from.        *)
(***************************************************************************)
EXTENDS Naturals, Sequences, FiniteSets, SequencesExt, FiniteSetsExt

CONSTANTS MaxSlides,   \* bound: slides of the module
          MaxEditions, \* bound: editions of its sources
          MaxFailures  \* bound: renderings, voices, clips that fail, stops

ASSUME TrainingAssumption ==
  MaxSlides \in Nat \ {0} /\ MaxEditions \in Nat \ {0} /\ MaxFailures \in Nat

Numbers == 1 .. MaxSlides

VARIABLES
  edition,  \* which edition of the sources there is
  slides,   \* how many slides it has, numbered from 1
  texts,    \* for each number, its block of narration: "none", "empty", "text"
  pictures, \* slide.00n.png of pipeline.py: the edition it shows, 0 for none
  drawings, \* slide-0n.png of produce.py
  voices,   \* slide-0n.mp3, which both write
  video,    \* the video's segments; none while there is no video
  maker,    \* the program that runs, "none" between runs
  doing,     \* what it is at
  place,   \* the slide, block or voice it is at
  heard,    \* the blocks produce.py has a voice for
  segments, \* the segments made so far
  verdict,  \* what the last run said
  spoiled,  \* history: something failed in this run, or was left by another
  failures

trainingVars == <<edition, slides, texts, pictures, drawings, voices, video, maker,
                  doing, place, heard, segments, verdict, spoiled, failures>>
source == <<edition, slides, texts>>
media  == <<pictures, drawings, voices>>

Fail == failures < MaxFailures /\ failures' = failures + 1
Made(f) == {n \in Numbers : f[n] # 0}
Segment(kind, n, e, m, v) == [kind |-> kind, slide |-> n, shows |-> e,
                              block |-> m, says |-> v]
----------------------------------------------------------------------------
(* The author edits the sources while nothing runs. *)
Edit ==
  /\ maker = "none" /\ edition < MaxEditions
  /\ edition' = edition + 1
  /\ slides' \in Numbers /\ texts' \in [Numbers -> {"none", "empty", "text"}]
  /\ verdict' = "none"
  /\ UNCHANGED <<media, video, maker, doing, place, heard, segments, spoiled, failures>>

(* What lies about spoils a run of pipeline.py: it takes all there is. *)
Leftovers == \/ Made(drawings) # {} \/ \E n \in Made(pictures) : n > slides
             \/ \E n \in Made(voices) : texts[n] # "text" \/ n > slides
             \/ \E n \in Numbers : texts[n] # "none" /\ n > slides
Begin(p) ==
  /\ maker = "none" /\ maker' = p
  /\ doing' = "draw" /\ place' = 1 /\ heard' = {} /\ segments' = <<>>
  /\ verdict' = "none" /\ spoiled' = (p = "pipeline" /\ Leftovers)
  /\ UNCHANGED <<source, media, video, failures>>

(* produce.py ends at the first failure, pipeline.py carries on: a slide    *)
(* that failed keeps the picture an earlier run gave it, or has none.       *)
GiveUp == maker' = "none" /\ verdict' = "aborted" /\ UNCHANGED <<doing, place>>
Advance == place' = place + 1 /\ UNCHANGED <<maker, doing, verdict>>
At(p, what) == maker = p /\ doing = what

(* What a slide's picture shows, in either program's layout. *)
Picture == edition
Drawing == edition

DrawPicture ==
  /\ At("pipeline", "draw") /\ place <= slides
  /\ \/ /\ pictures' = [pictures EXCEPT ![place] = Picture]
        /\ UNCHANGED <<spoiled, failures>>
     \/ Fail /\ spoiled' = TRUE /\ UNCHANGED pictures
  /\ Advance
  /\ UNCHANGED <<source, drawings, voices, video, heard, segments>>

DrawSlide ==
  /\ At("produce", "draw") /\ place <= slides
  /\ \/ /\ drawings' = [drawings EXCEPT ![place] = Drawing]
        /\ Advance /\ UNCHANGED failures
     \/ Fail /\ GiveUp /\ UNCHANGED drawings
  /\ UNCHANGED <<source, pictures, voices, video, heard, segments, spoiled>>

(* The blocks come in their order.  produce.py skips an empty one;          *)
(* pipeline.py sends it, and whether the service says anything is open.     *)
Narrations == {n \in Numbers : texts[n] # "none" /\ n >= place}
Voices(n) == [voices EXCEPT ![n] = edition]

SpeakBlock ==
  /\ At("pipeline", "speak") /\ Narrations # {}
  /\ LET n == Min(Narrations)
     IN  /\ \/ texts[n] = "text" /\ voices' = Voices(n) /\ UNCHANGED <<spoiled, failures>>
            \/ /\ texts[n] = "empty" /\ voices' \in {voices, Voices(n)}
               /\ spoiled' = TRUE /\ UNCHANGED failures
            \/ texts[n] = "text" /\ Fail /\ spoiled' = TRUE /\ UNCHANGED voices
         /\ place' = n + 1
  /\ UNCHANGED <<source, pictures, drawings, video, maker, doing, heard, segments, verdict>>

SpeakSlide ==
  /\ At("produce", "speak") /\ Narrations # {}
  /\ LET n == Min(Narrations)
         goesOn == place' = n + 1 /\ UNCHANGED <<maker, doing, verdict>>
     IN  \/ /\ texts[n] = "text" /\ voices' = Voices(n) /\ heard' = heard \cup {n}
            /\ goesOn /\ UNCHANGED failures
         \/ texts[n] = "empty" /\ goesOn /\ UNCHANGED <<voices, heard, failures>>
         \/ texts[n] = "text" /\ Fail /\ GiveUp /\ UNCHANGED <<voices, heard>>
  /\ UNCHANGED <<source, pictures, drawings, video, segments, spoiled>>

(* pipeline.py: a segment for each voice there is, with the picture at its  *)
(* number's place among all the pictures there are, in the order of their   *)
(* names ("slide-" comes before "slide."); beyond the last, the last one.   *)
AllPictures ==
  {[kind |-> "drawing", slide |-> n, shows |-> drawings[n]] : n \in Made(drawings)}
    \cup {[kind |-> "picture", slide |-> n, shows |-> pictures[n]] : n \in Made(pictures)}
UpTo(n, f) == Cardinality({m \in Made(f) : m <= n})
Rank(p) == IF p.kind = "drawing" THEN UpTo(p.slide, drawings)
           ELSE UpTo(MaxSlides, drawings) + UpTo(p.slide, pictures)
LastRank == UpTo(MaxSlides, drawings) + UpTo(MaxSlides, pictures)
IsPictureForFromZero(p, n) ==  \* variant with a bug
  Rank(p) = IF n < LastRank THEN n + 1 ELSE LastRank
IsPictureFor(p, n) == Rank(p) = IF n <= LastRank THEN n ELSE LastRank
Voiced == {n \in Made(voices) : n >= place}

JoinSegment ==
  /\ At("pipeline", "join") /\ Voiced # {}
  /\ LET n == Min(Voiced)
     IN  /\ \E p \in AllPictures : IsPictureFor(p, n) /\
              (\/ /\ segments' = Append(segments,
                        Segment(p.kind, p.slide, p.shows, n, voices[n]))
                  /\ UNCHANGED <<spoiled, failures>>
               \/ Fail /\ spoiled' = TRUE /\ UNCHANGED segments)
         /\ place' = n + 1
  /\ UNCHANGED <<source, media, video, maker, doing, heard, verdict>>

(* produce.py: a clip for each slide that has a voice of this run. *)
Clips == {n \in heard : n >= place /\ n <= slides}
JoinClip ==
  /\ At("produce", "join") /\ Clips # {}
  /\ LET n == Min(Clips)
     IN  \/ /\ segments' = Append(segments,
                 Segment("drawing", n, drawings[n], n, voices[n]))
            /\ place' = n + 1 /\ UNCHANGED <<maker, doing, verdict, failures>>
         \/ Fail /\ GiveUp /\ UNCHANGED segments
  /\ UNCHANGED <<source, media, video, heard, spoiled>>

(* The segments are put together.  pipeline.py does not look at the result, *)
(* and without segments does not try; produce.py's ffmpeg refuses an empty  *)
(* list.  A run that fails leaves the video that was there.                 *)
ConcatSegments ==
  /\ At("pipeline", "join") /\ (Voiced = {} \/ AllPictures = {})
  /\ \/ segments # <<>> /\ video' = segments /\ UNCHANGED <<spoiled, failures>>
     \/ /\ IF segments = <<>> THEN UNCHANGED failures ELSE Fail
        /\ spoiled' = TRUE /\ UNCHANGED video
  /\ doing' = "check"
  /\ UNCHANGED <<source, media, maker, place, heard, segments, verdict>>

ConcatClips ==
  /\ At("produce", "join") /\ Clips = {}
  /\ \/ /\ segments # <<>> /\ video' = segments /\ doing' = "check"
        /\ UNCHANGED <<maker, place, verdict, failures>>
     \/ /\ IF segments = <<>> THEN UNCHANGED failures ELSE Fail
        /\ GiveUp /\ UNCHANGED video
  /\ UNCHANGED <<source, media, heard, segments, spoiled>>

(* One step done, the next. *)
NextStep ==
  /\ maker # "none"
  /\ \/ doing = "draw" /\ place > slides /\ doing' = "speak"
     \/ doing = "speak" /\ Narrations = {} /\ doing' = "join"
  /\ place' = 1
  /\ UNCHANGED <<source, media, video, maker, heard, segments, verdict, spoiled, failures>>

(* validate wants one picture, one voice and a video, of whatever edition. *)
Validate ==
  /\ At("pipeline", "check")
  /\ verdict' = IF AllPictures # {} /\ Made(voices) # {} /\ video # <<>>
                   THEN "ok" ELSE "partial"
  /\ maker' = "none"
  /\ UNCHANGED <<source, media, video, doing, place, heard, segments, spoiled, failures>>

(* produce.py that gets so far has all its media but the two documents. *)
MakeDocuments ==
  /\ At("produce", "check")
  /\ \/ verdict' = "complete" /\ UNCHANGED failures
     \/ verdict' = "aborted" /\ Fail
  /\ maker' = "none"
  /\ UNCHANGED <<source, media, video, doing, place, heard, segments, spoiled>>

(* Somebody stops it. *)
Stop ==
  /\ maker # "none" /\ Fail /\ GiveUp
  /\ UNCHANGED <<source, media, video, heard, segments, spoiled>>
----------------------------------------------------------------------------
TrainingInit ==
  /\ edition = 1 /\ slides \in Numbers
  /\ texts \in [Numbers -> {"none", "empty", "text"}]
  /\ pictures = [n \in Numbers |-> 0] /\ drawings = [n \in Numbers |-> 0]
  /\ voices = [n \in Numbers |-> 0] /\ video = <<>>
  /\ maker = "none" /\ doing = "draw" /\ place = 1 /\ heard = {} /\ segments = <<>>
  /\ verdict = "none" /\ spoiled = FALSE /\ failures = 0

Author  == Edit \/ \E p \in {"pipeline", "produce"} : Begin(p)
Program == \/ DrawPicture \/ SpeakBlock \/ JoinSegment \/ ConcatSegments \/ Validate
           \/ DrawSlide \/ SpeakSlide \/ JoinClip \/ ConcatClips \/ MakeDocuments
           \/ NextStep \/ Stop
TrainingNext == Author \/ Program
TrainingSpec == TrainingInit /\ [][TrainingNext]_trainingVars
----------------------------------------------------------------------------
Editions == 0 .. MaxEditions
Segments == Seq([kind : {"picture", "drawing"}, slide : Numbers, shows : Editions,
                 block : Numbers, says : Editions])
TrainingTypeOK ==
  /\ edition \in 1 .. MaxEditions /\ slides \in Numbers
  /\ texts \in [Numbers -> {"none", "empty", "text"}]
  /\ {pictures, drawings, voices} \subseteq [Numbers -> Editions]
  /\ video \in Segments /\ segments \in Segments
  /\ maker \in {"none", "pipeline", "produce"}
  /\ doing \in {"draw", "speak", "join", "check"} /\ place \in 1 .. MaxSlides + 1
  /\ heard \subseteq Numbers /\ spoiled \in BOOLEAN /\ failures \in 0 .. MaxFailures
  /\ verdict \in {"none", "aborted", "ok", "partial", "complete"}

(* The video a run calls finished says each slide's narration over that     *)
(* slide, both of the present edition, in the slides' order, and leaves out *)
(* none that has a text: always when produce.py calls it complete, and when *)
(* pipeline.py says "ALL OUTPUTS OK" unless something of that run failed or *)
(* the directory held what no slide or block of this edition makes.         *)
Narrated == {n \in 1 .. slides : texts[n] = "text"}
Tells(q, S) ==  \* what the segments q say is the slides S
  /\ {q[i].slide : i \in DOMAIN q} = S
  /\ \A i, j \in DOMAIN q : i < j => q[i].slide < q[j].slide
  /\ \A i \in DOMAIN q : /\ q[i].block = q[i].slide
                         /\ q[i].shows = edition /\ q[i].says = edition
IsTheModule(q) == Tells(q, Narrated)
FinishedIsTheModule ==
  verdict = "complete" \/ (verdict = "ok" /\ ~spoiled) => IsTheModule(video)
=============================================================================
