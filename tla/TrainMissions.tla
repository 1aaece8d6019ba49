--------------------------- MODULE TrainMissions ---------------------------
(* write_train_missions.py: a mission for every photo of the manifest, one   *)
(* model call after the other, each answer appended to missions.jsonl and    *)
(* flushed.  The script may die at any moment and is started again; it then  *)
(* reads the file and goes on.  A failed call also leaves a line, which every *)
(* reader drops (main here, load_missions of build_train_dataset.py): log    *)
(* holds the other lines.                                                    *)
EXTENDS TrainPhotos

CONSTANTS
  BatchSize,  \* places of one generate call
  Commands,   \* command lines: [spare, swapping, cap, per_category]; cap 0 is no limit
  MaxStarts   \* bound: starts of the script

ASSUME MissionsAssumption ==
  /\ BatchSize \in Nat \ {0} /\ MaxStarts \in Nat
  /\ \A c \in Commands : c.per_category \in Nat

VARIABLES
  log,      \* missions.jsonl: [photo, kind, cond, usable, parent]
  phase,    \* "off", "pw", "swap", "gen"
  source,   \* rows read at the start: manifest, then the spare list if asked for
  swapping, \* "no" (--skip-swap), "success" (--labels given) or "written"
  tried,    \* done_ids: <<photo, kind>>
  asked,    \* the call in flight: a sequence of records to be saved, or <<>>
  pos,      \* next row of the phase
  targets,  \* swap targets, listed when the phase starts
  genLeft,  \* photos of gen_rows not yet in a batch
  calls, cap, starts,
  quota,    \* missions a category gets, with a forced condition and without: those
            \* of this start and, as a history, the most any start asked for
  label     \* mission id -> verdict of a person: [grade, nearDup, byRule]

writerVars == <<log, phase, source, swapping, tried, asked, pos, targets,
                genLeft, calls, cap, quota, starts>>
missionVars == <<photoVars, writerVars, label>>

Id(r) == <<r.photo, r.kind>>

(* The missions of --labels a person marked a success. *)
Success == {m \in DOMAIN label : label[m].grade = "success"}

CategoryNo(p) == CHOOSE c \in DOMAIN Categories : Categories[c] = Category[p]

(* The photos to write for, category after category. *)
PwRows ==
  LET wanted == {i \in DOMAIN source : /\ source[i].role = "photo_written"
                                      /\ \E c \in DOMAIN Categories : Categories[c] = Category[source[i].photo]}
  IN  InOrder(source, [i \in wanted |-> CategoryNo(source[i].photo) * Len(source) + i])

Written(cat, cond) ==
  {i \in DOMAIN log : /\ log[i].kind \in {"pw", "pw_plain"} /\ log[i].usable
                          /\ Category[log[i].photo] = cat /\ log[i].cond = cond}

(* What a category still needs. *)
pw_mode(cat) ==
  IF Cardinality(Written(cat, TRUE)) < quota.cond THEN "with_condition"
  ELSE IF Cardinality(Written(cat, FALSE)) < quota.plain THEN "plain"
  ELSE "full"

(* A photo whose forced call found no condition is asked once more, plainly. *)
ForcedInVain(p) == \E i \in DOMAIN log : Id(log[i]) = <<p, "pw">> /\ log[i].cond /\ ~log[i].usable

\* Mutant: no second call for a photo forced in vain.
PwNextOnce(p) ==
  IF pw_mode(Category[p]) = "full" \/ <<p, "pw">> \in tried THEN "none" ELSE pw_mode(Category[p])

pw_next(p) ==
  LET mode == pw_mode(Category[p])
  IN  IF mode = "full" THEN "none"
      ELSE IF <<p, "pw">> \notin tried THEN mode
      ELSE IF /\ ForcedInVain(p) /\ <<p, "pw_plain">> \notin tried
              /\ Cardinality(Written(Category[p], FALSE)) < quota.plain
           THEN "plain_rescue" ELSE "none"

Swapped == {log[i].parent : i \in {j \in DOMAIN log : log[j].kind = "swap"}}

(* Usable written missions not swapped yet: those marked a success when     *)
(* labels are given, those written with a condition when not.                *)
swap_targets(labelled) ==
  Kept(log, {i \in DOMAIN log :
    /\ log[i].kind \in {"pw", "pw_plain"} /\ log[i].usable /\ Id(log[i]) \notin Swapped
    /\ IF labelled THEN Id(log[i]) \in Success ELSE log[i].cond})

BudgetLeft == cap = 0 \/ calls < cap

Record(p, kind, cond, parent) ==
  [photo |-> p, kind |-> kind, cond |-> cond, parent |-> parent, usable |-> TRUE]

MissionInit ==
  /\ log = <<>> /\ phase = "off" /\ source = <<>> /\ swapping = "no" /\ tried = {}
  /\ asked = <<>> /\ pos = 1 /\ targets = <<>> /\ genLeft = {} /\ calls = 0 /\ cap = 0
  /\ starts = 0 /\ label = <<>> /\ quota = [cond |-> 0, plain |-> 0, mostCond |-> 0, mostPlain |-> 0]

Forget ==
  /\ phase' = "off" /\ source' = <<>> /\ swapping' = "no" /\ tried' = {} /\ asked' = <<>>
  /\ pos' = 1 /\ targets' = <<>> /\ genLeft' = {} /\ calls' = 0 /\ cap' = 0
  /\ quota' = [quota EXCEPT !.cond = 0, !.plain = 0]

\* Mutant: what earlier starts wrote is not looked up.
DoneIdsNone == {}

done_ids == {Id(log[i]) : i \in DOMAIN log}

Larger(a, b) == IF a < b THEN b ELSE a

(* Half of the missions of a category are written with a forced condition.   *)
QuotaOf(per_category) ==
  LET cond == per_category \div 2
      plain == per_category - cond
  IN  [cond |-> cond, plain |-> plain,
       mostCond |-> Larger(quota.mostCond, cond), mostPlain |-> Larger(quota.mostPlain, plain)]

(* Reading the manifests and the file so far. *)
StartWriter ==
  /\ script = "idle" /\ phase = "off" /\ starts < MaxStarts
  /\ "manifest" \in DOMAIN files
  /\ \E c \in Commands :
       /\ c.spare => "general_spare" \in DOMAIN files
       /\ source' = files["manifest"].rows \o IF c.spare THEN files["general_spare"].rows ELSE <<>>
       /\ swapping' = c.swapping /\ cap' = c.cap /\ quota' = QuotaOf(c.per_category)
  /\ tried' = done_ids
  /\ genLeft' = {source'[i].photo : i \in {j \in DOMAIN source' :
                    source'[j].role = "service_generate"
                    /\ <<source'[j].photo, "gen">> \notin tried'}}
  /\ phase' = "pw" /\ pos' = 1 /\ calls' = 0 /\ starts' = starts + 1
  /\ UNCHANGED <<photoVars, log, asked, targets, label>>

Asking == asked # <<>>

(* 1. Writing from the photo.  The id is marked before the call. *)
AskPw ==
  /\ phase = "pw" /\ ~Asking /\ pos <= Len(PwRows) /\ BudgetLeft
  /\ LET p == PwRows[pos].photo
         mode == pw_next(p)
         kind == IF mode = "plain_rescue" THEN "pw_plain" ELSE "pw"
     IN  /\ mode # "none"
         /\ tried' = tried \cup {<<p, kind>>}
         /\ asked' = <<Record(p, kind, mode = "with_condition", <<>>)>>
  /\ UNCHANGED <<photoVars, label, log, phase, source, swapping, pos, targets, genLeft, calls, cap, quota, starts>>

NextRow ==
  /\ phase = "pw" /\ ~Asking /\ pos <= Len(PwRows)
  /\ ~BudgetLeft \/ pw_next(PwRows[pos].photo) = "none"
  /\ pos' = pos + 1
  /\ UNCHANGED <<photoVars, label, log, phase, source, swapping, tried, asked, targets, genLeft, calls, cap, quota, starts>>

(* What a call adds to the records: a mission, usable or not, or nothing    *)
(* when it raises (any exception, a reply off the schema included).          *)
write_one(r) == {<<>>} \cup {<<[r EXCEPT !.usable = u]>> : u \in BOOLEAN}

(* The same for a swap; one with two hard conditions counts as unusable. *)
swap_one(r) ==
  {<<>>} \cup {<<[r EXCEPT !.usable = u /\ ~conflict]>> : u \in BOOLEAN, conflict \in BOOLEAN}

(* The answer is saved at once. *)
AnswerPw ==
  /\ phase = "pw" /\ Asking
  /\ log' \in {log \o reply : reply \in write_one(asked[1])}
  /\ asked' = <<>> /\ calls' = calls + 1
  /\ UNCHANGED <<photoVars, label, phase, source, swapping, tried, pos, targets, genLeft, cap, quota, starts>>

(* 2. Changing the condition: the targets are listed once. *)
BeginSwap ==
  /\ phase = "pw" /\ ~Asking /\ pos > Len(PwRows)
  /\ phase' = "swap" /\ pos' = 1
  /\ targets' = IF swapping = "no" THEN <<>> ELSE swap_targets(swapping = "success")
  /\ UNCHANGED <<photoVars, label, log, source, swapping, tried, asked, genLeft, calls, cap, quota, starts>>

(* A photo that is in no list read at this start ends the script (KeyError): *)
(* only CrashWriter is left then.                                            *)
AskSwap ==
  /\ phase = "swap" /\ ~Asking /\ pos <= Len(targets) /\ BudgetLeft
  /\ \E i \in DOMAIN source : source[i].photo = targets[pos].photo
  /\ asked' = <<Record(targets[pos].photo, "swap", TRUE, Id(targets[pos]))>>
  /\ UNCHANGED <<photoVars, label, log, phase, source, swapping, tried, pos, targets, genLeft, calls, cap, quota, starts>>

AnswerSwap ==
  /\ phase = "swap" /\ Asking
  /\ log' \in {log \o reply : reply \in swap_one(asked[1])}
  /\ asked' = <<>> /\ calls' = calls + 1 /\ pos' = pos + 1
  /\ UNCHANGED <<photoVars, label, phase, source, swapping, tried, targets, genLeft, cap, quota, starts>>

BeginGen ==
  /\ phase = "swap" /\ ~Asking /\ (pos > Len(targets) \/ ~BudgetLeft)
  /\ phase' = "gen"
  /\ UNCHANGED <<photoVars, label, log, source, swapping, tried, asked, pos, targets, genLeft, calls, cap, quota, starts>>

(* 3. Missions of the service: batches of one region, regions in order. *)
GenRegion ==
  CHOOSE i \in 1..Len(Regions) :
    /\ \E p \in genLeft : Region[p] = Regions[i]
    /\ \A j \in 1..(i - 1) : \A p \in genLeft : Region[p] # Regions[j]

make_batches ==
  LET here == {p \in genLeft : Region[p] = Regions[GenRegion]}
  IN  {b \in SUBSET here : Cardinality(b) = IF Cardinality(here) < BatchSize
                                            THEN Cardinality(here) ELSE BatchSize}

(* The answer of one call holds for every photo of its batch. *)
CallGen ==
  /\ phase = "gen" /\ ~Asking /\ genLeft # {} /\ BudgetLeft
  /\ \E b \in make_batches :
       /\ genLeft' = genLeft \ b
       /\ \/ \E order \in {o \in [1..Cardinality(b) -> b] : \A p \in b : \E i \in DOMAIN o : o[i] = p} :
               asked' = [i \in DOMAIN order |-> Record(order[i], "gen", FALSE, <<>>)]
          \/ asked' = <<>>  \* HTTPException: an error line for each photo
  /\ calls' = calls + 1
  /\ UNCHANGED <<photoVars, label, log, phase, source, swapping, tried, pos, targets, cap, quota, starts>>

SaveGen ==
  /\ phase = "gen" /\ Asking
  /\ log' = Append(log, Head(asked)) /\ asked' = Tail(asked)
  /\ UNCHANGED <<photoVars, label, phase, source, swapping, tried, pos, targets, genLeft, calls, cap, quota, starts>>

EndWriter ==
  /\ phase = "gen" /\ ~Asking /\ (genLeft = {} \/ ~BudgetLeft)
  /\ Forget
  /\ UNCHANGED <<photoVars, label, log, starts>>

CrashWriter ==
  /\ phase # "off"
  /\ Forget
  /\ UNCHANGED <<photoVars, label, log, starts>>

WriterNext ==
  \/ StartWriter \/ AskPw \/ NextRow \/ AnswerPw \/ BeginSwap \/ AskSwap \/ AnswerSwap
  \/ BeginGen \/ CallGen \/ SaveGen \/ EndWriter \/ CrashWriter
-----------------------------------------------------------------------------
(* However often the script dies or calls fail, a mission id has one record  *)
(* at most, also when a photo was asked twice (#pw and #pw_plain) and either *)
(* could be swapped under the one id #swap.                                  *)
OneRecordPerMission ==
  \A i, j \in DOMAIN log : Id(log[i]) = Id(log[j]) => i = j

(* However the starts and what they ask for follow each other, a category    *)
(* never has more missions of a kind than some start asked for, and a second, *)
(* plain, mission is only there for a photo whose forced call is on file as  *)
(* unusable.                                                                 *)
QuotaKept ==
  /\ \A c \in {Category[x] : x \in General} :
       Cardinality(Written(c, TRUE)) <= quota.mostCond /\ Cardinality(Written(c, FALSE)) <= quota.mostPlain
  /\ \A i \in DOMAIN log : log[i].kind = "pw_plain" => ForcedInVain(log[i].photo)

(* A condition is changed only of a usable mission on file, written with a   *)
(* condition or marked a success by a person, and once for each mission.     *)
SwapOfKnownMission ==
  \A i \in DOMAIN log : log[i].kind = "swap" =>
    /\ \E j \in 1..(i - 1) :
         /\ Id(log[j]) = log[i].parent /\ log[j].usable
         /\ log[j].cond \/ Id(log[j]) \in Success
    /\ \A j \in DOMAIN log : log[j].kind = "swap" /\ log[j].parent = log[i].parent => j = i

(* A start without a call limit leaves no gap, whatever an earlier start     *)
(* left behind: once writing is over, a category that is not full has asked  *)
(* for every photo, and again, plainly, for those forced in vain while plain *)
(* missions were missing.                                                    *)
FullOrUsedUp ==
  phase \in {"swap", "gen"} /\ cap = 0 =>
    \A i \in DOMAIN PwRows :
      LET p == PwRows[i].photo
      IN  \/ pw_mode(Category[p]) = "full"
          \/ /\ <<p, "pw">> \in tried
             /\ ForcedInVain(p) /\ Cardinality(Written(Category[p], FALSE)) < quota.plain
                  => <<p, "pw_plain">> \in tried

(* Over all starts every category gets what was asked for and no more, or    *)
(* has no photo left that was not asked for.                                 *)
QuotaFilled == QuotaKept /\ FullOrUsedUp
=============================================================================
