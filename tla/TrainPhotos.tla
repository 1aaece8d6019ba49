---------------------------- MODULE TrainPhotos ----------------------------
(* Choice of the photos of the training set: build_train_pilot.py draws the  *)
(* pilot, build_train_550.py reuses what a person kept of it and fills the   *)
(* rest in four stages (pilot, look-alike places, reserve, general + spare)  *)
(* that share one count of travels and visits.  The shuffles are seeded; a   *)
(* draw from a shuffled pool is a choice of any photo that may be drawn.     *)
EXTENDS Integers, FiniteSets, Sequences

CONSTANTS
  Photos,         \* every photo of the data set
  Travel, Visit,  \* photo -> travel, photo -> visit of that travel
  Hash,           \* photo -> content of its file
  Category, Region,       \* photo -> value, of the general candidates
  General,        \* photos collect_candidates returns
  LookItems,      \* photos of look-alike places a person called usable
  Place,          \* look-alike photo -> place
  BlockedPlace,   \* photos of a place kept for diagnosis (BLOCKED_KEYS)
  EvalTravels, DiagTravels,
  BlockedVisitors,        \* travels with a visit to a blocked place
  EvalHashes, DiagHashes,
  Categories, Regions,    \* sequences
  LookQuota,      \* sequence of [group, place, n, visitCap]
  RoleOrder, RoleSeq, SpareSeq,   \* roles of one category's photos, in order
  MaxPerTravel,   \* MAX_PER_TRAVEL
  MaxRuns         \* bound: starts of build_train_550

ASSUME PhotosAssumption ==
  /\ MaxPerTravel \in Nat \ {0}
  /\ General \subseteq Photos /\ LookItems \subseteq Photos
  /\ BlockedPlace \cap LookItems = {}
  /\ Categories \in Seq(STRING) \ {<<>>} /\ Regions \in Seq(STRING) \ {<<>>}
  /\ LookQuota \in Seq([group : {"old", "new"}, place : STRING, n : Nat \ {0}, visitCap : Nat \ {0}]) \ {<<>>}
  /\ \A i \in DOMAIN LookQuota : LookQuota[i].visitCap > 1 => LookQuota[i].group = "old"

VARIABLES
  pilot,    \* manifest of the pilot: the photos drawn, fixed once drawn
  grade,    \* pilot photo -> what a person said of its mission
  script,   \* "pilot", "label", "idle" or "run550"
  stage,    \* "reuse", "take", "reserve", "check", "open", "fill", "off"
  k, step, turn,    \* take, step of the take, pool whose turn it is
  rows,     \* Usage.rows of the running script
  got,      \* photos of the current take
  picked,   \* [photo, group, role, second], in the order of choice
  reserved, \* travels kept for later training
  reuse,    \* pilot photos the run reuses
  files,    \* file of the out-dir -> [run, rows]; a name not in the domain is absent
  runs      \* starts of build_train_550 so far

selVars == <<stage, k, step, turn, rows, got, picked, reserved, reuse>>
photoVars == <<pilot, grade, script, selVars, files, runs>>

Excluded == BlockedVisitors \cup EvalTravels \cup DiagTravels

(* The takes of a script: pools that take turns, and the roles of its photos. *)
CategoryTakes(group, roles) ==
  [c \in 1..Len(Categories) |->
     [group |-> group, roles |-> roles, visitCap |-> 1,
      pools |-> [r \in 1..Len(Regions) |->
                   {p \in General \ BlockedPlace :
                      Category[p] = Categories[c] /\ Region[p] = Regions[r]}]]]

PilotTakes ==
  [c \in 1..Len(Categories) |->
     [group |-> "pilot", roles |-> RoleOrder, visitCap |-> 1,
      pools |-> [r \in 1..Len(Regions) |->
                   {p \in General : Category[p] = Categories[c] /\ Region[p] = Regions[r]}]]]

LookTakes ==
  [i \in 1..Len(LookQuota) |->
     [group |-> LookQuota[i].group, visitCap |-> LookQuota[i].visitCap,
      roles |-> [j \in 1..LookQuota[i].n |-> "own_wrong"],
      pools |-> <<{p \in LookItems : Place[p] = LookQuota[i].place}>>]]

Takes ==
  IF script = "pilot" THEN PilotTakes
  ELSE LookTakes \o CategoryTakes("general", RoleSeq)
                 \o CategoryTakes("general_spare", SpareSeq)

(* First one photo per travel, then two, three; a second photo of a visit last. *)
Steps(take) ==
  IF take.group = "pilot" THEN <<[cap |-> 1, visits |-> 1]>>
  ELSE [i \in 1..MaxPerTravel |-> [cap |-> i, visits |-> 1]]
       \o [v \in 1..(take.visitCap - 1) |-> [cap |-> MaxPerTravel, visits |-> v + 1]]

OfTravel(p) == {q \in rows : Travel[q] = Travel[p]}
OfVisit(p) == {q \in OfTravel(p) : Visit[q] = Visit[p]}

(* Photos of the pilot are never drawn again, reused or not. *)
Used == rows \cup IF script = "run550" /\ stage # "reuse" THEN pilot ELSE {}

Fits(p, s) ==
  /\ p \notin Used
  /\ Cardinality(OfTravel(p)) < s.cap
  /\ Cardinality(OfVisit(p)) < s.visits

(* The content of the file is in the evaluation or diagnosis set, or chosen. *)
SameFile(p) ==
  \/ Hash[p] \in EvalHashes
  \/ script = "run550" /\ (Hash[p] \in DiagHashes \/ \E q \in rows : Hash[q] = Hash[p])

Barred(take) ==
  CASE take.group = "pilot" -> EvalTravels
    [] take.group \in {"general", "general_spare"} -> Excluded \cup reserved
    [] OTHER -> Excluded

Drawable(take, pool, s) ==
  {p \in take.pools[pool] : Travel[p] \notin Barred(take) /\ Fits(p, s) /\ ~SameFile(p)}

OnFirstTake == k' = 1 /\ step' = 1 /\ turn' = 1 /\ got' = 0
Fresh == OnFirstTake /\ rows' = {} /\ picked' = <<>> /\ reserved' = {} /\ reuse' = {}

PhotoInit ==
  /\ pilot = {} /\ grade = <<>> /\ script = "pilot" /\ stage = "take"
  /\ k = 1 /\ step = 1 /\ turn = 1 /\ got = 0 /\ rows = {} /\ picked = <<>>
  /\ reserved = {} /\ reuse = {} /\ files = <<>> /\ runs = 0

Taking == stage = "take" /\ script \in {"pilot", "run550"}
Now == Takes[k]
Rule == Steps(Now)[step]
NextTurn == (turn % Len(Now.pools)) + 1

(* The take is over: full, or short when every step is used up. *)
EndTake ==
  /\ k' = k + 1 /\ step' = 1 /\ turn' = 1 /\ got' = 0
  /\ stage' = IF k = Len(Takes) THEN "check"
              ELSE IF script = "run550" /\ k = Len(LookTakes) THEN "reserve" ELSE "take"

(* One photo from the pool whose turn it is. *)
Draw ==
  /\ Taking
  /\ \E p \in Drawable(Now, turn, Rule) :
       /\ rows' = rows \cup {p}
       /\ picked' = Append(picked, [photo |-> p, group |-> Now.group,
                                    role |-> Now.roles[got + 1], second |-> OfVisit(p) # {}])
  /\ IF got + 1 = Len(Now.roles)
     THEN EndTake
     ELSE got' = got + 1 /\ turn' = NextTurn /\ UNCHANGED <<k, step, stage>>
  /\ UNCHANGED <<pilot, grade, script, reserved, reuse, files, runs>>

(* No pool has a photo left under the rule of the step. *)
StepOver == \A i \in 1..Len(Now.pools) : Drawable(Now, i, Rule) = {}

(* The pool is used up under this step's rule: the next pool, or the next step. *)
PassTurn ==
  /\ Taking /\ Drawable(Now, turn, Rule) = {}
  /\ IF ~StepOver
     THEN turn' = NextTurn /\ UNCHANGED <<k, step, got, stage>>
     ELSE IF step < Len(Steps(Now))
     THEN step' = step + 1 /\ turn' = 1 /\ UNCHANGED <<k, got, stage>>
     ELSE EndTake
  /\ UNCHANGED <<pilot, grade, script, rows, picked, reserved, reuse, files, runs>>

(* build_train_pilot.py ends by writing its manifest; a person labels it. *)
PilotDrawn ==
  /\ script = "pilot" /\ stage = "check"
  /\ pilot' = rows /\ script' = "label" /\ stage' = "off" /\ Fresh
  /\ UNCHANGED <<grade, files, runs>>

LabelPilot ==
  /\ script = "label"
  /\ grade' \in [pilot -> {"success", "unclear"}]
  /\ script' = "idle"
  /\ UNCHANGED <<pilot, selVars, files, runs>>

Start550 ==
  /\ script = "idle" /\ runs < MaxRuns
  /\ script' = "run550" /\ stage' = "reuse" /\ runs' = runs + 1 /\ Fresh
  /\ UNCHANGED <<pilot, grade, files>>

PilotKeep ==
  {p \in pilot : grade[p] # "unclear" /\ Travel[p] \notin Excluded /\ p \notin BlockedPlace}

(* 1. The photos of the pilot that fit, in the order of their names. *)
Reuse ==
  /\ script = "run550" /\ stage = "reuse"
  /\ LET fit == {p \in PilotKeep : Fits(p, [cap |-> MaxPerTravel, visits |-> 1]) /\ ~SameFile(p)}
     IN  IF fit # {}
         THEN /\ \E p \in fit : rows' = rows \cup {p}
              /\ UNCHANGED <<stage, reuse>>
         ELSE stage' = "take" /\ reuse' = rows /\ UNCHANGED rows
  /\ UNCHANGED <<pilot, grade, script, k, step, turn, got, picked, reserved, files, runs>>

(* 3. A fifth of the travels no earlier stage used. *)
Reservable ==
  ({Travel[p] : p \in General \ BlockedPlace} \ Excluded)
    \ ({Travel[p] : p \in rows} \cup {Travel[p] : p \in LookItems})

Reserve ==
  /\ script = "run550" /\ stage = "reserve"
  /\ \E s \in SUBSET Reservable :
       /\ Cardinality(s) = (2 * Cardinality(Reservable) + 5) \div 10
       /\ reserved' = s
  /\ stage' = "take"
  /\ UNCHANGED <<pilot, grade, script, k, step, turn, rows, got, picked, reuse, files, runs>>

(* The check before the files are written. *)
Bad ==
  \/ \E p \in reuse \cup {picked[i].photo : i \in DOMAIN picked} :
       Travel[p] \in Excluded \/ p \in BlockedPlace
  \/ \E i \in DOMAIN picked : Travel[picked[i].photo] \in reserved

FinalCheck ==
  /\ script = "run550" /\ stage = "check"
  /\ IF Bad THEN script' = "idle" /\ stage' = "off" /\ Fresh
     ELSE stage' = "open" /\ k' = 1
          /\ UNCHANGED <<script, step, turn, rows, got, picked, reserved, reuse>>
  /\ UNCHANGED <<pilot, grade, files, runs>>

(* The rows of s at the positions the key is given for, by their key. *)
InOrder(s, key) ==
  [n \in 1..Cardinality(DOMAIN key) |->
     s[CHOOSE i \in DOMAIN key : Cardinality({j \in DOMAIN key : key[j] <= key[i]}) = n]]

(* The rows of s at some positions, in their order. *)
Kept(s, positions) == InOrder(s, [i \in positions |-> i])

Outputs == <<"pilot_reuse", "manifest", "general_spare", "lookalike", "reserve">>

OfGroups(groups) == Kept(picked, {i \in DOMAIN picked : picked[i].group \in groups})

Content(name) ==
  CASE name = "pilot_reuse" -> reuse
    [] name = "reserve" -> reserved
    [] name = "manifest" -> OfGroups({"general"})
    [] name = "general_spare" -> OfGroups({"general_spare"})
    [] OTHER -> OfGroups({"old", "new"})

Empty(name) == IF name \in {"pilot_reuse", "reserve"} THEN {} ELSE <<>>

(* Exclusive creation refuses a name that is there. *)
Taken(name) == name \in DOMAIN files

(* Each file is opened for exclusive creation, then filled. *)
OpenFile ==
  /\ script = "run550" /\ stage = "open"
  /\ IF Taken(Outputs[k])
     THEN script' = "idle" /\ stage' = "off" /\ Fresh /\ UNCHANGED files
     ELSE /\ files' = [n \in DOMAIN files \cup {Outputs[k]} |->
                         IF n = Outputs[k] THEN [run |-> runs, rows |-> Empty(Outputs[k])] ELSE files[n]]
          /\ stage' = "fill" /\ UNCHANGED <<script, k, step, turn, rows, got, picked, reserved, reuse>>
  /\ UNCHANGED <<pilot, grade, runs>>

FillFile ==
  /\ script = "run550" /\ stage = "fill"
  /\ files' = [files EXCEPT ![Outputs[k]] = [run |-> runs, rows |-> Content(Outputs[k])]]
  /\ IF k = Len(Outputs) THEN script' = "idle" /\ stage' = "off" /\ Fresh
     ELSE stage' = "open" /\ k' = k + 1
          /\ UNCHANGED <<script, step, turn, rows, got, picked, reserved, reuse>>
  /\ UNCHANGED <<pilot, grade, runs>>

Crash550 ==
  /\ script = "run550"
  /\ script' = "idle" /\ stage' = "off" /\ Fresh
  /\ UNCHANGED <<pilot, grade, files, runs>>

PhotoNext ==
  \/ Draw \/ PassTurn \/ PilotDrawn \/ LabelPilot \/ Start550 \/ Reuse
  \/ Reserve \/ FinalCheck \/ OpenFile \/ FillFile \/ Crash550
-----------------------------------------------------------------------------
Chosen == reuse \cup {picked[i].photo : i \in DOMAIN picked}

(* Whatever source a photo comes from, the counts are shared: no travel      *)
(* gives more than MAX_PER_TRAVEL photos, a visit gives a second photo only  *)
(* to the old look-alike pairs, marked as such, and no two photos are the    *)
(* same file.                                                                *)
SpreadOverSources ==
  script = "run550" /\ stage # "reuse" =>
    /\ \A t \in {Travel[p] : p \in Chosen} :
         Cardinality({p \in Chosen : Travel[p] = t}) <= MaxPerTravel
    /\ \A p, q \in Chosen : p # q =>
         /\ Hash[p] # Hash[q]
         /\ Travel[p] = Travel[q] /\ Visit[p] = Visit[q] =>
              \E i \in DOMAIN picked : picked[i].photo \in {p, q}
                                     /\ picked[i].group = "old" /\ picked[i].second

(* The check before writing never finds anything: no stage lets a photo of   *)
(* an excluded or reserved travel, of a blocked place or of the evaluation   *)
(* and diagnosis sets through, the pilot drawn before them included.         *)
NothingBarred ==
  script = "run550" =>
    ~Bad /\ \A p \in Chosen : Hash[p] \notin EvalHashes \cup DiagHashes

(* A travel gives a second photo only when no photo of a fresh travel is     *)
(* left for the take, whatever pool it is in.                                *)
FreshTravelsFirst ==
  Taking /\ script = "run550" /\ step > 1 =>
    \A i \in 1..Len(Now.pools) : Drawable(Now, i, Steps(Now)[step - 1]) = {}

(* Files of two starts never lie side by side in one folder, a crash or not. *)
OneRunPerFolder ==
  \A m, n \in DOMAIN files : files[m].run = files[n].run

(* The choice of photos as a whole.                                          *)
ChoiceFair == SpreadOverSources /\ NothingBarred /\ FreshTravelsFirst
=============================================================================
