---------------------------- MODULE EvalMissions ----------------------------
(* Missions for the photos of set B.  generate_eval_missions.py calls the    *)
(* service for batches of photos of one region; write_photo_missions.py      *)
(* writes missions from the photos a person called a failure.  Both append   *)
(* to a file, may die at any moment and go on where the file ends.  The      *)
(* order of the calls is left open; the shuffles are seeded.                 *)
EXTENDS EvalSplit

CONSTANTS
  RegionOf, Regions,  \* photo of B -> region; the regions in order
  Shuffled,       \* seed -> the photos of B in shuffled order
  GenCommands,    \* [out, prompt, size, seed, cap]; prompt "" is no comparison
  PerCategory, PerRegion, \* options of write_photo_missions
  MaxScripts      \* bound: starts of scripts

Outs == {c.out : c \in GenCommands}

VARIABLES
  missions, \* out -> lines: [photo, ok, plan]
  meta,     \* out -> plan in its .meta.json, <<>> while there is none
  aug,      \* photo -> lines of the augmentation: "error", "unusable", "usable"
  run,      \* the script that runs: [prog, tag, todo], or NoRun
  started   \* scripts started so far

missionVars == <<missions, meta, aug>>
NoRun == [prog |-> "none", tag |-> <<>>, todo |-> {}]

(* At most cap jobs, when a cap is given. *)
Capped(jobs, cap) ==
  {t \in SUBSET jobs : IF cap = 0 \/ Cardinality(jobs) <= cap THEN t = jobs ELSE Cardinality(t) = cap}

Begin(prog, tag, jobs, cap) ==
  /\ run = NoRun /\ started < MaxScripts /\ started' = started + 1
  /\ \E t \in Capped(jobs, cap) : run' = [prog |-> prog, tag |-> tag, todo |-> t]

Chop(s, n) ==
  [i \in 1..((Len(s) + n - 1) \div n) |->
     SubSeq(s, (i - 1) * n + 1, IF i * n < Len(s) THEN i * n ELSE Len(s))]

(* Batches of one region each, in the order of the regions. *)
make_batches(photos, size, seed) ==
  FlattenSeq([r \in 1..Len(Regions) |->
    Chop(SelectSeq(Shuffled[seed], LAMBDA p : p \in photos /\ RegionOf[p] = Regions[r]), size)])

(* What the recursion above gives is known to the provers from here only:    *)
(* every photo is in one batch at most, once.                                *)
ASSUME BatchAssumption ==
  \A c \in GenCommands : \A photos \in SUBSET PhotosB :
    LET batches == ToSet(make_batches(photos, c.size, c.seed))
    IN  /\ \A b \in batches : b \in Seq(photos) /\ \A i, j \in DOMAIN b : b[i] = b[j] => i = j
        /\ \A a, b \in batches : a # b => ToSet(a) \cap ToSet(b) = {}

RowsFor(c) == IF c.prompt = "" THEN PhotosB ELSE split["dev"] \cap PhotosB

(* The fingerprint of a comparison: prompt, batches, options. *)
plan_sha(c) ==
  IF c.prompt = "" THEN <<>>
  ELSE <<c.prompt, make_batches(RowsFor(c), c.size, c.seed), c.size, c.seed>>

DoneIn(out) == {missions[out][i].photo : i \in {j \in DOMAIN missions[out] : missions[out][j].ok}}

\* Mutant: a line without a plan, of a plain start, is let pass.
MayAppendToPlain(out, plan) ==
  plan = <<>> \/ \A i \in DOMAIN missions[out] : missions[out][i].plan \in {<<>>, plan}

(* A comparison goes on only with lines of the same plan. *)
MayAppend(out, plan) == plan = <<>> \/ \A i \in DOMAIN missions[out] : missions[out][i].plan = plan

write_meta(out, plan) ==
  IF plan = <<>> THEN meta' = meta
  ELSE meta[out] \in {<<>>, plan} /\ meta' = [meta EXCEPT ![out] = plan]

(* A batch is called unless all its photos have a mission. *)
StartGen ==
  \E c \in GenCommands :
    /\ c.prompt # "" => split # <<>>
    /\ MayAppend(c.out, plan_sha(c)) /\ write_meta(c.out, plan_sha(c))
    /\ LET batches == ToSet(make_batches(RowsFor(c), c.size, c.seed))
       IN  Begin("gen", <<c.out, plan_sha(c)>>, {b \in batches : ~(ToSet(b) \subseteq DoneIn(c.out))}, c.cap)
    /\ UNCHANGED <<split, missions, aug>>

(* The lines of a batch are written together, all missions or all errors. *)
CallBatch ==
  /\ run.prog = "gen"
  /\ \E b \in run.todo, ok \in BOOLEAN :
       /\ missions' = [missions EXCEPT ![run.tag[1]] =
            @ \o [i \in DOMAIN b |-> [photo |-> b[i], ok |-> ok, plan |-> run.tag[2]]]]
       /\ run' = [run EXCEPT !.todo = @ \ {b}]
  /\ UNCHANGED <<split, meta, aug, started>>

(* s[:n] of the source: a negative n counts from the end. *)
Upto(s, n) ==
  LET last == IF n >= 0 THEN n ELSE Len(s) + n
  IN  SubSeq(s, 1, IF last < Len(s) THEN last ELSE Len(s))

(* Failures of a category: some of every region first, then the others. *)
select_photos(seed) ==
  UNION {
    LET fails == SelectSeq(Shuffled[seed], LAMBDA p :
                   p \in DOMAIN LabelB /\ CategoryB[p] = cat /\ LabelB[p] = "fail")
        byRegion == FlattenSeq([r \in 1..Len(Regions) |->
                      Upto(SelectSeq(fails, LAMBDA p : RegionOf[p] = Regions[r]), PerRegion)])
        others == SelectSeq(fails, LAMBDA p : p \notin ToSet(byRegion))
    IN  ToSet(byRegion) \cup ToSet(Upto(others, PerCategory - Len(byRegion)))
    : cat \in Range(CategoryB)}

Written(p) == \E i \in DOMAIN aug[p] : aug[p][i] # "error"

StartAug ==
  /\ \E seed \in DOMAIN Shuffled, cap \in {0, 1} :
       Begin("aug", <<>>, {p \in select_photos(seed) : ~Written(p)}, cap)
  /\ UNCHANGED <<split, missionVars>>

WriteMission ==
  /\ run.prog = "aug"
  /\ \E p \in run.todo, reply \in {"error", "unusable", "usable"} :
       /\ aug' = [aug EXCEPT ![p] = Append(@, reply)]
       /\ run' = [run EXCEPT !.todo = @ \ {p}]
  /\ UNCHANGED <<split, missions, meta, started>>
=============================================================================
