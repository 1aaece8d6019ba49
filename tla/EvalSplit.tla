------------------------------ MODULE EvalSplit ------------------------------
(* split_eval.py: the evaluation photos are divided once, by travel, into a  *)
(* side to improve with (dev) and a side to judge a release with (final).    *)
EXTENDS Integers, FiniteSets, Sequences, SequencesExt

CONSTANTS
  LabelA, LabelB, \* photo -> grade a person gave, of evaluation sets A and B
  LabelAug,       \* photo -> grade a person gave for the mission written for it
  Travel,         \* photo -> travel
  CategoryB       \* photo of the manifest of B -> category

(* The photos of set B.  A person labels them for the mission of the service *)
(* (not all need a label) and, where one was written, for the written one.   *)
PhotosB == DOMAIN CategoryB

ASSUME SplitAssumption ==
  /\ IsFiniteSet(DOMAIN LabelA) /\ IsFiniteSet(PhotosB)
  /\ DOMAIN LabelB \subseteq PhotosB /\ DOMAIN LabelAug \subseteq DOMAIN LabelB
  /\ DOMAIN LabelA \cup PhotosB \subseteq DOMAIN Travel

VARIABLE split    \* eval_split.json: side -> photos; <<>> while there is none

Sides == {"dev", "final"}

(* One entry for each photo of a set, with the stratum whose ratio counts. *)
load_photos ==
  {[photo |-> p, stratum |-> <<"A">>] : p \in DOMAIN LabelA}
    \cup {[photo |-> p, stratum |-> <<"B", CategoryB[p]>>] : p \in PhotosB}

CountIn(travels, s) ==
  Cardinality({e \in load_photos : e.stratum = s /\ Travel[e.photo] \in travels})

(* How far dev is from 3/5 of what was placed, in the strata travel t       *)
(* touches; in fifths of a photo, squared.                                   *)
gap(dev, seen, t) ==
  MapThenSumSet(LAMBDA s : LET off == 5 * CountIn(dev, s) - 3 * CountIn(seen, s) IN off * off,
                {e.stratum : e \in {x \in load_photos : Travel[x.photo] = t}})

(* Travels are placed one by one, in a shuffled order, on the nearer side; *)
(* the result is the set of travels of dev.                                  *)
split_travels(order) ==
  FoldLeft(LAMBDA sofar, t :
             LET seen == sofar.seen \cup {t}
                 near == gap(sofar.dev \cup {t}, seen, t) <= gap(sofar.dev, seen, t)
             IN  [dev |-> IF near THEN sofar.dev \cup {t} ELSE sofar.dev, seen |-> seen],
           [dev |-> {}, seen |-> {}], order).dev

AllTravels == {Travel[e.photo] : e \in load_photos}

SidesOf(dev) ==
  [side \in Sides |->
     {p \in DOMAIN LabelA \cup PhotosB : (side = "dev") <=> (Travel[p] \in dev)}]

\* Mutant: a file that is there is written over.
SplitAgain ==
  \E dev \in {split_travels(o) : o \in SetToSeqs(AllTravels)} : split' = SidesOf(dev)

(* Only while the file is missing. *)
SplitOnce ==
  /\ split = <<>>
  /\ \E dev \in {split_travels(o) : o \in SetToSeqs(AllTravels)} : split' = SidesOf(dev)

(* What the command line must say before the final side may be touched;     *)
(* shared by the measurements and the count.                                 *)
split_error(c) ==
  \/ (c.split # "none") # c.file
  \/ c.split = "final" /\ ~c.open
  \/ c.split = "none" /\ ~c.open
=============================================================================
