----------------------------- MODULE SpecSlicer -----------------------------
(***************************************************************************)
(* How a large spec becomes vehicles (spec_slicer.py), and in which order  *)
(* the dispatcher may run them (Dispatcher.dispatch).  The sections found  *)
(* get the criteria that fit them; sections without criteria are merged    *)
(* into a neighbour; each section left becomes a vehicle that depends on   *)
(* the one before it, unless the two are told to touch different files.    *)
(* Which sections, files and criteria a spec has is chosen initially.      *)
(***************************************************************************)
EXTENDS Naturals, Sequences, FiniteSets, SequencesExt, FiniteSetsExt

CONSTANTS MaxSections,  \* bound: sections of a spec
          Criteria,     \* its success criteria
          Paths         \* the files specs mention

ASSUME SlicerAssumption == MaxSections \in Nat \ {0}

VARIABLES
  large,     \* complexity above 15 or text above 5000 characters
  home,      \* the first section a criterion belongs to, 0 for none
  touches,   \* the files each section mentions
  found,     \* how many sections each of the three ways of looking finds
  stage,     \* where slice_spec is, then "run"
  sections,  \* the sections so far
  unmapped,  \* the criteria that belong to no section
  cursor,    \* the section the merging looks at
  vehicles,  \* the vehicles
  running, ended

slicerVars == <<large, home, touches, found, stage, sections, unmapped, cursor,
                vehicles, running, ended>>
spec       == <<large, home, touches, found>>

Section(i) == [parts |-> <<i>>, files |-> touches[i],
               criteria |-> {c \in Criteria : home[c] = i}]
Ways == <<"primary", "secondary", "numbered">>
----------------------------------------------------------------------------
(* A small spec, or one without two sections, is passed through as a single *)
(* task (should_dispatch, slice_spec).                                      *)
PassThrough(n) == ~large \/ n < 2
FindSections ==
  /\ stage = "find"
  /\ LET good == {i \in DOMAIN Ways : found[Ways[i]] >= 2}
         n    == IF good = {} THEN 0 ELSE found[Ways[Min(good)]]
     IN  IF PassThrough(n)
           THEN stage' = "single" /\ UNCHANGED <<sections, unmapped>>
           ELSE /\ sections' = [i \in 1 .. n |-> Section(i)]
                /\ unmapped' = {c \in Criteria : home[c] \notin 1 .. n}
                /\ stage' = "distribute"
  /\ UNCHANGED <<spec, cursor, vehicles, running, ended>>

(* The first section without criteria gets all that belong to none. *)
Bare == {i \in DOMAIN sections : sections[i].criteria = {}}
Distribute ==
  /\ stage = "distribute"
  /\ IF Bare = {} THEN UNCHANGED <<sections, unmapped>>
     ELSE /\ sections' = [sections EXCEPT ![Min(Bare)].criteria = unmapped]
          /\ unmapped' = {}
  /\ stage' = "merge" /\ cursor' = 1
  /\ UNCHANGED <<spec, vehicles, running, ended>>

(* Variant with a bug: the criteria of the absorbed section are lost. *)
AbsorbText(a, b) == [parts |-> a.parts \o b.parts, files |-> a.files \cup b.files,
                     criteria |-> a.criteria]

(* A section without criteria absorbs the next one, and is looked at again; *)
(* the last one is absorbed by the one before it; a lone one stays.         *)
Absorb(a, b) == [parts |-> a.parts \o b.parts, files |-> a.files \cup b.files,
                 criteria |-> a.criteria \cup b.criteria]
MergeAt(q, i) == SubSeq(q, 1, i - 1) \o <<Absorb(q[i], q[i + 1])>>
                   \o SubSeq(q, i + 2, Len(q))

Merge ==
  /\ stage = "merge" /\ cursor <= Len(sections)
  /\ \/ /\ cursor \notin Bare
        /\ cursor' = cursor + 1 /\ UNCHANGED sections
     \/ /\ cursor \in Bare /\ cursor < Len(sections)
        /\ sections' = MergeAt(sections, cursor) /\ UNCHANGED cursor
     \/ /\ cursor \in Bare /\ cursor = Len(sections) /\ cursor > 1
        /\ sections' = MergeAt(sections, cursor - 1) /\ cursor' = cursor - 1
     \/ /\ cursor \in Bare /\ cursor = Len(sections) /\ cursor = 1
        /\ cursor' = 2 /\ UNCHANGED sections
  /\ UNCHANGED <<spec, stage, unmapped, vehicles, running, ended>>

(* Every vehicle depends on the one before it.  Every two whose files are   *)
(* known and disjoint are marked, and a dependency between them is removed. *)
Apart(i, j) == /\ sections[i].files # {} /\ sections[j].files # {}
               /\ sections[i].files \cap sections[j].files = {}
Parallelizable(i) == \E j \in DOMAIN sections \ {i} : Apart(i, j)
DependsOnUnlessMarked(i) ==  \* variant with a bug
  {j \in {i - 1} \cap DOMAIN sections : ~Parallelizable(i)}
DependsOn(i) == {j \in {i - 1} \cap DOMAIN sections : ~Apart(i, j)}
BuildVehicles ==
  /\ stage = "merge" /\ cursor > Len(sections)
  /\ vehicles' = [i \in DOMAIN sections |->
                    [depends_on |-> DependsOn(i), parallelizable |-> Parallelizable(i)]]
  /\ stage' = "run"
  /\ UNCHANGED <<spec, sections, unmapped, cursor, running, ended>>

(* The dispatcher starts what depends on nothing, and with each completion  *)
(* what now depends on nothing that is not completed.                       *)
StartVehicle(i) ==
  /\ stage = "run" /\ i \in DOMAIN vehicles \ (running \cup ended)
  /\ vehicles[i].depends_on \subseteq ended
  /\ running' = running \cup {i}
  /\ UNCHANGED <<spec, stage, sections, unmapped, cursor, vehicles, ended>>

VehicleCompletes(i) ==
  /\ i \in running
  /\ running' = running \ {i} /\ ended' = ended \cup {i}
  /\ UNCHANGED <<spec, stage, sections, unmapped, cursor, vehicles>>
----------------------------------------------------------------------------
SlicerInit ==
  /\ large \in BOOLEAN
  /\ home \in [Criteria -> 0 .. MaxSections]
  /\ touches \in [1 .. MaxSections -> SUBSET Paths]
  /\ \E n \in 0 .. MaxSections, w \in ToSet(Ways) :
       found = [x \in ToSet(Ways) |-> IF x = w THEN n ELSE 1]
  /\ stage = "find" /\ sections = <<>> /\ unmapped = {} /\ cursor = 0
  /\ vehicles = <<>> /\ running = {} /\ ended = {}

Slice == FindSections \/ Distribute \/ Merge \/ BuildVehicles
Run   == \E i \in DOMAIN vehicles : StartVehicle(i) \/ VehicleCompletes(i)
SlicerNext  == Slice \/ Run
SlicerSpec  == SlicerInit /\ [][SlicerNext]_slicerVars
----------------------------------------------------------------------------
SlicerTypeOK ==
  /\ stage \in {"find", "single", "distribute", "merge", "run"}
  /\ sections \in Seq([parts : Seq(1 .. MaxSections), files : SUBSET Paths,
                       criteria : SUBSET Criteria])
  /\ unmapped \subseteq Criteria /\ cursor \in 0 .. MaxSections + 1
  /\ vehicles \in Seq([depends_on : SUBSET (1 .. MaxSections), parallelizable : BOOLEAN])
  /\ running \subseteq DOMAIN vehicles /\ ended \subseteq DOMAIN vehicles

(* The vehicles make up the spec: every section is in one of them, in the   *)
(* spec's order; a criterion is in the vehicle that has its section; those  *)
(* that fit no section are all together, or dropped because every section   *)
(* had its own; and no vehicle is without criteria if the spec has any      *)
(* ("Zero-criteria validation (IC-4)", slice_spec).                         *)
SectionCount == found[CHOOSE w \in ToSet(Ways) : found[w] >= 2]
Successive(p) == p # <<>> /\ \A k \in DOMAIN p : p[k] = p[1] + k - 1
InOneOrder(q) ==
  /\ q # <<>> /\ \A v \in DOMAIN q : Successive(q[v].parts)
  /\ q[1].parts[1] = 1 /\ Last(q[Len(q)].parts) = SectionCount
  /\ \A v \in DOMAIN q \ {1} : q[v].parts[1] = Last(q[v - 1].parts) + 1
WithTheirSections(q) ==
  \A v \in DOMAIN q : \A c \in Criteria : home[c] \in 1 .. SectionCount =>
    (c \in q[v].criteria <=> home[c] \in ToSet(q[v].parts))
SpecIsWhole ==
  stage = "run" =>
    /\ InOneOrder(sections) /\ WithTheirSections(sections)
    /\ unmapped # {} => \A i \in 1 .. SectionCount : \E c \in Criteria : home[c] = i
    /\ (\E v \in DOMAIN sections : sections[v].criteria # {}) =>
         \A v \in DOMAIN sections : sections[v].criteria # {}

(* Two vehicles that follow each other never run at once when they share a  *)
(* file or one of them names none (step 6 of slice_spec, and dispatch).     *)
NeighboursApart ==
  \A i \in running : i + 1 \in running => Apart(i, i + 1)

=============================================================================
