------------------------ MODULE PlaceCollectorProofs ------------------------
(***************************************************************************)
(* Proofs about PlaceCollector, for any combinations, answers and number   *)
(* of failures and crashes.                                                *)
(***************************************************************************)
EXTENDS PlaceCollector, FiniteSetTheorems, TLAPS

\* The shape of the variables the arguments below need.
Shape ==
    /\ stage \in {"down", "next"} \cup Inserting
    /\ combo \in Nat \ {0}
    /\ loaded \subseteq Keys /\ progress \subseteq Keys
    /\ answer \in [Keys -> Seq(Places)]
    /\ pos \in Nat \ {0} /\ typePos \in Nat \ {0}
    /\ typeRows \in [Places -> Nat]

\* A running process knows the progress file: what it does not know from its
\* start it noted itself, for combinations it has passed.
ProgressKnown == stage # "down" => \A k \in progress : k \in loaded \/ k < combo

\* While a combination is in work it is not noted, and the places before the
\* current one are stored.
WorkDone ==
    stage \in Inserting =>
        /\ combo \in Keys \ loaded
        /\ pos <= Len(answer[combo]) + 1
        /\ stage # "place" => pos <= Len(answer[combo])
        /\ \A m \in 1..(pos - 1) : Stored(answer[combo][m], combo)

\* How far the current place has come.
CurrentDone ==
    stage \in Inserting \ {"place"} =>
        /\ Current \in rows
        /\ stage = "types" => typeRows[Current] = typePos - 1
                              /\ typePos <= TypeCount[Current] + 1
        /\ stage = "region" => <<Current, Combos[combo].category>> \in categories

\* Types are only inserted for places that have a row.
TypesNeedRow == \A p \in Places : p \notin rows => typeRows[p] = 0

IInv ==
    /\ Shape
    /\ ProgressKnown
    /\ WorkDone
    /\ CurrentDone
    /\ TypesNeedRow
    /\ CompletedIsStored
    /\ NoDuplicateTypes
-----------------------------------------------------------------------------
\* The place in work is one of Places, its combination one of the Keys.
LEMMA CurrentPlace ==
    ASSUME IInv, stage \in Inserting, pos <= Len(answer[combo])
    PROVE  /\ combo \in Keys
           /\ answer[combo] \in Seq(Places)
           /\ Current \in Places
<1>1. combo \in Keys
    BY DEF IInv, WorkDone
<1>2. answer[combo] \in Seq(Places)
    BY <1>1 DEF IInv, Shape
<1>3. pos \in 1..Len(answer[combo])
    BY <1>2 DEF IInv, Shape
<1> QED
    BY <1>1, <1>2, <1>3 DEF Current

\* Tables only grow, so what was stored stays stored.
LEMMA StoredStays ==
    ASSUME rows \subseteq rows', categories \subseteq categories', regions \subseteq regions'
    PROVE  \A p, k : Stored(p, k) => Stored(p, k)'
BY DEF Stored

\* Nothing noted is lost by an action that adds nothing to the progress file
\* and answers no noted combination.
LEMMA CompletedStays ==
    ASSUME IInv, progress' = progress,
           rows \subseteq rows', categories \subseteq categories', regions \subseteq regions',
           \A k \in progress : answer'[k] = answer[k]
    PROVE  CompletedIsStored'
BY StoredStays DEF IInv, CompletedIsStored

\* The combination in work is not in the progress file.
LEMMA NotYetNoted ==
    ASSUME IInv, stage # "down", combo \in Keys \ loaded
    PROVE  combo \notin progress
BY DEF IInv, ProgressKnown, Shape, Keys
-----------------------------------------------------------------------------
\* Steps that touch neither tables nor the progress file, and leave the
\* process down or before its next combination.
LEMMA IdleKeeps ==
    ASSUME IInv, UNCHANGED <<progress, tables, answer>>,
           Shape', ProgressKnown', stage' \in {"down", "next"}
    PROVE  IInv'
<1>1. CompletedIsStored'
    BY CompletedStays DEF tables
<1>2. WorkDone' /\ CurrentDone'
    BY DEF WorkDone, CurrentDone, Inserting
<1>3. TypesNeedRow' /\ NoDuplicateTypes'
    BY DEF IInv, TypesNeedRow, NoDuplicateTypes, tables
<1> QED
    BY <1>1, <1>2, <1>3 DEF IInv

\* A new run, the combinations it skips and the ways a run ends.
LEMMA ControlKeeps ==
    ASSUME IInv, Start \/ Skip \/ Finish \/ SearchFails \/ ParseFails \/ Crash
    PROVE  IInv'
<1>1. UNCHANGED <<progress, tables, answer>> /\ stage' \in {"down", "next"}
    BY DEF Start, Skip, Finish, SearchFails, ParseFails, Crash, Stop, NextCombo, process
<1>2. CASE Start
    <2>1. Shape'
        BY <1>2 DEF IInv, Shape, Start, tables, Inserting
    <2>2. ProgressKnown'
        BY <1>2 DEF Start, ProgressKnown
    <2> QED
        BY <1>1, <2>1, <2>2, IdleKeeps
<1>3. CASE (Skip \/ SearchFails \/ ParseFails) /\ NextCombo
    <2>1. Shape' /\ combo' = combo + 1 /\ loaded' = loaded /\ progress' = progress
        BY <1>1, <1>3 DEF IInv, Shape, Skip, SearchFails, ParseFails, NextCombo, tables
    <2>2. stage # "down"
        BY <1>3 DEF Skip, SearchFails, ParseFails
    <2>3. ProgressKnown'
        BY <2>1, <2>2 DEF IInv, ProgressKnown, Shape, Keys
    <2> QED
        BY <1>1, <2>1, <2>3, IdleKeeps
<1>4. CASE (Finish \/ SearchFails \/ ParseFails \/ Crash) /\ stage' = "down"
    <2>1. combo' = combo /\ loaded' = loaded /\ pos' = pos /\ typePos' = typePos
        BY <1>4 DEF Finish, SearchFails, ParseFails, Crash, Stop, NextCombo, process
    <2>2. Shape'
        BY <1>1, <2>1 DEF IInv, Shape, tables
    <2>3. ProgressKnown'
        BY <1>4 DEF ProgressKnown
    <2> QED
        BY <1>1, <2>2, <2>3, IdleKeeps
<1> QED
    BY <1>2, <1>3, <1>4 DEF Skip, Finish, SearchFails, ParseFails, Crash, Stop

\* Nearby Search answers for a combination that is not noted.
LEMMA SearchKeeps ==
    ASSUME IInv, Search
    PROVE  IInv'
<1>1. PICK a \in Answers[combo] : answer' = [answer EXCEPT ![combo] = a]
    BY DEF Search
<1>2. combo \in Keys \ loaded /\ stage = "next" /\ stage' = "place" /\ pos' = 1
      /\ UNCHANGED <<combo, loaded, typePos, progress, tables>>
    BY DEF Search
<1>3. combo \notin progress
    BY <1>2, NotYetNoted
<1>4. a \in Seq(Places)
    BY <1>1, <1>2, CollectorOK DEF Keys
<1>5. Shape'
    BY <1>1, <1>2, <1>4 DEF IInv, Shape, Inserting, tables
<1>6. CompletedIsStored'
    BY <1>1, <1>2, <1>3, CompletedStays DEF IInv, Shape, tables
<1>7. ProgressKnown' /\ CurrentDone' /\ TypesNeedRow' /\ NoDuplicateTypes'
    BY <1>2 DEF IInv, ProgressKnown, CurrentDone, TypesNeedRow, NoDuplicateTypes, tables
<1>8. WorkDone'
    <2>1. answer'[combo] = a
        BY <1>1, <1>2 DEF IInv, Shape
    <2>2. Len(a) \in Nat
        BY <1>4
    <2> QED
        BY <1>2, <2>1, <2>2 DEF WorkDone
<1> QED
    BY <1>5, <1>6, <1>7, <1>8 DEF IInv

\* A place gets its row, or is found to have one.
LEMMA InsertPlaceKeeps ==
    ASSUME IInv, InsertPlace
    PROVE  IInv'
<1>1. /\ stage = "place" /\ pos <= Len(answer[combo]) /\ typePos' = 1
      /\ UNCHANGED <<combo, loaded, answer, pos, progress, typeRows, reviewed,
                     categories, regions>>
    BY DEF InsertPlace
<1>2. combo \in Keys /\ Current \in Places
    BY <1>1, CurrentPlace DEF Inserting
<1>3. \/ Current \in rows /\ stage' = "category" /\ rows' = rows
      \/ Current \notin rows /\ stage' = "types" /\ rows' = rows \cup {Current}
    BY DEF InsertPlace
<1>4. Current' = Current /\ rows \subseteq rows'
    BY <1>1, <1>3 DEF Current
<1>5. Shape' /\ ProgressKnown' /\ TypesNeedRow' /\ NoDuplicateTypes'
    BY <1>1, <1>3 DEF IInv, Shape, ProgressKnown, TypesNeedRow, NoDuplicateTypes, Inserting
<1>6. CompletedIsStored'
    BY <1>1, <1>4, CompletedStays
<1>7. WorkDone'
    BY <1>1, <1>3, <1>4, StoredStays DEF IInv, WorkDone, Inserting
<1>8. CurrentDone'
    <2>1. Current \in rows'
        BY <1>3
    <2>2. stage' = "types" => typeRows[Current] = 0
        BY <1>2, <1>3 DEF IInv, TypesNeedRow
    <2>3. TypeCount[Current] \in Nat
        BY <1>2, CollectorOK
    <2> QED
        BY <1>1, <1>3, <1>4, <2>1, <2>2, <2>3 DEF CurrentDone
<1> QED
    BY <1>5, <1>6, <1>7, <1>8 DEF IInv

\* The types of a new place are inserted one by one.
LEMMA InsertTypeKeeps ==
    ASSUME IInv, InsertType
    PROVE  IInv'
<1>1. /\ stage = "types"
      /\ UNCHANGED <<combo, loaded, answer, pos, progress, rows, reviewed,
                     categories, regions>>
    BY DEF InsertType
<1>2. /\ combo \in Keys /\ Current \in Places /\ pos <= Len(answer[combo])
      /\ Current \in rows /\ typeRows[Current] = typePos - 1
      /\ typePos <= TypeCount[Current] + 1
    BY <1>1, CurrentPlace DEF IInv, WorkDone, CurrentDone, Inserting
<1>3. Current' = Current /\ TypeCount[Current] \in Nat
    BY <1>1, <1>2, CollectorOK DEF Current
<1>4. \/ /\ typePos <= TypeCount[Current] /\ stage' = "types" /\ typePos' = typePos + 1
         /\ typeRows' = [typeRows EXCEPT ![Current] = @ + 1]
      \/ stage' = "reviews" /\ typeRows' = typeRows /\ typePos' = typePos
    BY <1>1 DEF InsertType
<1>5. Shape'
    BY <1>1, <1>2, <1>4 DEF IInv, Shape, Inserting
<1>6. ProgressKnown' /\ WorkDone' /\ CompletedIsStored'
    <2>1. ProgressKnown' /\ CompletedIsStored'
        BY <1>1, <1>4, CompletedStays DEF IInv, ProgressKnown
    <2>2. WorkDone'
        BY <1>1, <1>4, StoredStays DEF IInv, WorkDone, Inserting
    <2> QED
        BY <2>1, <2>2
<1>7. TypesNeedRow' /\ NoDuplicateTypes'
    <2>1. ASSUME NEW p \in Places
          PROVE  /\ p \notin rows' => typeRows'[p] = 0
                 /\ typeRows'[p] <= TypeCount[p]
        <3>1. CASE p = Current
            BY <1>1, <1>2, <1>3, <1>4, <3>1 DEF IInv, Shape, NoDuplicateTypes
        <3>2. CASE p # Current
            BY <1>1, <1>2, <1>4, <3>2 DEF IInv, Shape, NoDuplicateTypes, TypesNeedRow
        <3> QED
            BY <3>1, <3>2
    <2> QED
        BY <2>1 DEF TypesNeedRow, NoDuplicateTypes
<1>8. CurrentDone'
    <2>1. Current \in rows'
        BY <1>1, <1>2
    <2>2. stage' = "types" =>
              typeRows'[Current] = typePos' - 1 /\ typePos' <= TypeCount[Current] + 1
        BY <1>2, <1>3, <1>4 DEF IInv, Shape
    <2>3. stage' # "region"
        BY <1>4
    <2> QED
        BY <1>3, <2>1, <2>2, <2>3 DEF CurrentDone
<1> QED
    BY <1>5, <1>6, <1>7, <1>8 DEF IInv

\* Reviews and category only add rows.
LEMMA InsertMoreKeeps ==
    ASSUME IInv, InsertReviews \/ InsertCategory
    PROVE  IInv'
<1>1. /\ UNCHANGED <<combo, loaded, answer, pos, typePos, progress, rows, typeRows, regions>>
      /\ categories \subseteq categories'
      /\ \/ stage = "reviews" /\ stage' = "category"
         \/ /\ stage = "category" /\ stage' = "region"
            /\ <<Current, Combos[combo].category>> \in categories'
    BY DEF InsertReviews, InsertCategory, process
<1>2. Current' = Current /\ Current \in rows
    BY <1>1 DEF Current, IInv, CurrentDone, Inserting
<1>3. Shape' /\ ProgressKnown' /\ TypesNeedRow' /\ NoDuplicateTypes'
    BY <1>1 DEF IInv, Shape, ProgressKnown, TypesNeedRow, NoDuplicateTypes, Inserting
<1>4. CompletedIsStored'
    BY <1>1, CompletedStays
<1>5. WorkDone'
    BY <1>1, StoredStays DEF IInv, WorkDone, Inserting
<1>6. CurrentDone'
    BY <1>1, <1>2 DEF CurrentDone
<1> QED
    BY <1>3, <1>4, <1>5, <1>6 DEF IInv

\* With its region a place is stored, and the next one is current.
LEMMA InsertRegionKeeps ==
    ASSUME IInv, InsertRegion
    PROVE  IInv'
<1>1. /\ stage = "region" /\ stage' = "place" /\ pos' = pos + 1
      /\ regions' = regions \cup {<<Current, Combos[combo].region>>}
      /\ UNCHANGED <<combo, loaded, answer, typePos, progress, rows, typeRows, categories>>
    BY DEF InsertRegion
<1>2. /\ combo \in Keys \ loaded /\ pos <= Len(answer[combo])
      /\ answer[combo] \in Seq(Places)
      /\ Current \in rows /\ <<Current, Combos[combo].category>> \in categories
    BY <1>1, CurrentPlace DEF IInv, WorkDone, CurrentDone, Inserting
<1>3. Shape' /\ ProgressKnown' /\ TypesNeedRow' /\ NoDuplicateTypes' /\ CurrentDone'
    BY <1>1 DEF IInv, Shape, ProgressKnown, TypesNeedRow, NoDuplicateTypes, CurrentDone,
                Inserting
<1>4. CompletedIsStored'
    BY <1>1, CompletedStays
<1>5. ASSUME NEW m \in 1..(pos' - 1) PROVE Stored(answer[combo][m], combo)'
    <2>1. CASE m = pos
        BY <1>1, <1>2, <2>1 DEF Stored, Current
    <2>2. CASE m # pos
        <3>1. m \in 1..(pos - 1)
            BY <1>1, <2>2 DEF IInv, Shape
        <3>2. Stored(answer[combo][m], combo)
            BY <1>1, <3>1 DEF IInv, WorkDone, Inserting
        <3> QED
            BY <1>1, <3>2 DEF Stored
    <2> QED
        BY <2>1, <2>2
<1>6. WorkDone'
    <2>1. pos' <= Len(answer[combo]) + 1
        BY <1>1, <1>2 DEF IInv, Shape
    <2> QED
        BY <1>1, <1>2, <1>5, <2>1 DEF WorkDone, Stored
<1> QED
    BY <1>3, <1>4, <1>6 DEF IInv

\* A combination is noted when all places of its answer are stored.
LEMMA MarkCompletedKeeps ==
    ASSUME IInv, MarkCompleted
    PROVE  IInv'
<1>1. /\ stage = "place" /\ pos > Len(answer[combo])
      /\ progress' = progress \cup {combo}
      /\ stage' = "next" /\ combo' = combo + 1
      /\ UNCHANGED <<loaded, answer, pos, typePos, rows, typeRows, categories, regions>>
    BY DEF MarkCompleted, NextCombo, tables
<1>2. combo \in Keys /\ \A m \in 1..(pos - 1) : Stored(answer[combo][m], combo)
    BY <1>1 DEF IInv, WorkDone, Inserting
<1>3. ASSUME NEW k \in progress', NEW m \in 1..Len(answer[k])
      PROVE  Stored(answer[k][m], k)
    <2>1. CASE k \in progress
        BY <2>1 DEF IInv, CompletedIsStored
    <2>2. CASE k = combo
        <3>1. answer[combo] \in Seq(Places)
            BY <1>2 DEF IInv, Shape
        <3>2. m \in 1..(pos - 1)
            BY <1>1, <2>2, <3>1 DEF IInv, Shape
        <3> QED
            BY <1>2, <2>2, <3>2
    <2> QED
        BY <1>1, <2>1, <2>2
<1>4. CompletedIsStored'
    BY <1>1, <1>3 DEF CompletedIsStored, Stored
<1>5. ProgressKnown'
    BY <1>1, <1>2 DEF IInv, ProgressKnown, Shape, Keys
<1>6. Shape' /\ WorkDone' /\ CurrentDone' /\ TypesNeedRow' /\ NoDuplicateTypes'
    BY <1>1, <1>2 DEF IInv, Shape, WorkDone, CurrentDone, TypesNeedRow, NoDuplicateTypes,
                      Inserting
<1> QED
    BY <1>4, <1>5, <1>6 DEF IInv
-----------------------------------------------------------------------------
\* The invariant is inductive.
LEMMA Inductive == IInv /\ [Next]_vars => IInv'
<1> SUFFICES ASSUME IInv, [Next]_vars PROVE IInv'
    OBVIOUS
<1>1. CASE UNCHANGED vars
    BY <1>1 DEF IInv, Shape, ProgressKnown, WorkDone, CurrentDone, TypesNeedRow,
                CompletedIsStored, NoDuplicateTypes, Stored, Current, vars, process, tables
<1> QED
    BY <1>1, ControlKeeps, SearchKeeps, InsertPlaceKeeps, InsertTypeKeeps,
       InsertMoreKeeps, InsertRegionKeeps, MarkCompletedKeeps
       DEF Next, Progress, Insert

\* It holds before the first run.
LEMMA Initial == Init => IInv
BY CollectorOK DEF Init, IInv, Shape, ProgressKnown, WorkDone, CurrentDone, TypesNeedRow,
   CompletedIsStored, NoDuplicateTypes, Inserting, Keys

\* So it holds in every reachable state.
LEMMA Invariance == Spec => []IInv
BY Initial, Inductive, PTL DEF Spec

\* The progress file never promises a place that is not stored.
THEOREM ProgressTruthful == Spec => []CompletedIsStored
<1>1. IInv => CompletedIsStored
    BY DEF IInv
<1> QED
    BY <1>1, Invariance, PTL

\* No rerun inserts the types of a place a second time.
THEOREM TypesOnce == Spec => []NoDuplicateTypes
<1>1. IInv => NoDuplicateTypes
    BY DEF IInv
<1> QED
    BY <1>1, Invariance, PTL
-----------------------------------------------------------------------------
(***************************************************************************)
(* Why a run is given up.  The counters are shorthands for what the        *)
(* results of the run say: one for the calls that failed last, one for all *)
(* malformed answers.                                                      *)
(***************************************************************************)
ParseAt == {m \in 1..Len(results) : results[m] = "parse"}

\* Exactly the last callFailures results are failed calls.
Streak ==
    LET n == Len(results)
    IN  /\ callFailures <= n
        /\ \A m \in (n - callFailures + 1)..n : results[m] = "call"
        /\ n > callFailures => results[n - callFailures] # "call"

\* While the process works on an answer the calls are not failing, although
\* the last result may still be the failed call before it.
CallInv ==
    /\ stage \in Inserting => callFailures = 0
    /\ stage = "next" \/ ended = "calls" => Streak

EndInv ==
    /\ stage # "down" => ended = "none" /\ callFailures < MaxFailures /\ parseFailures < MaxFailures
    /\ ended = "calls" => callFailures = MaxFailures
    /\ ended = "parse" => parseFailures = MaxFailures

GiveUpInv ==
    /\ stage \in {"down", "next"} \cup Inserting
    /\ results \in Seq({"ok", "call", "parse"})
    /\ callFailures \in Nat /\ parseFailures \in Nat
    /\ parseFailures = Cardinality(ParseAt)
    /\ CallInv /\ EndInv

\* A result more is a malformed answer more, or it is none.
LEMMA ParseCounted ==
    ASSUME GiveUpInv, NEW how \in {"ok", "call", "parse"}, results' = Append(results, how)
    PROVE  /\ results' \in Seq({"ok", "call", "parse"})
           /\ Len(results') = Len(results) + 1 /\ results'[Len(results) + 1] = how
           /\ \A m \in 1..Len(results) : results'[m] = results[m]
           /\ Cardinality(ParseAt') = parseFailures + (IF how = "parse" THEN 1 ELSE 0)
<1> DEFINE n == Len(results)
<1>1. /\ results \in Seq({"ok", "call", "parse"}) /\ n \in Nat
      /\ results' \in Seq({"ok", "call", "parse"}) /\ Len(results') = n + 1
      /\ results'[n + 1] = how /\ \A m \in 1..n : results'[m] = results[m]
    BY DEF GiveUpInv
<1>2. IsFiniteSet(1..n) /\ ParseAt \in SUBSET (1..n)
    BY <1>1, FS_Interval DEF ParseAt
<1>3. IsFiniteSet(ParseAt) /\ n + 1 \notin ParseAt
    <2>1. IsFiniteSet(ParseAt)
        BY <1>2, FS_Subset
    <2>2. n + 1 \notin 1..n
        BY <1>1
    <2> QED
        BY <1>2, <2>1, <2>2
<1>4. ParseAt' = IF how = "parse" THEN ParseAt \cup {n + 1} ELSE ParseAt
    BY <1>1 DEF ParseAt
<1>5. Cardinality(ParseAt \cup {n + 1}) = Cardinality(ParseAt) + 1
    BY <1>3, FS_AddElement
<1> QED
    BY <1>1, <1>4, <1>5 DEF GiveUpInv

\* A run that starts has no results.
LEMMA StartGivesUp == ASSUME GiveUpInv, Start PROVE GiveUpInv'
<1>1. /\ stage' = "next" /\ ended' = "none"
      /\ parseFailures' = 0 /\ callFailures' = 0 /\ results' = <<>>
    BY DEF Start
<1>2. ParseAt' = {}
    BY <1>1 DEF ParseAt
<1> QED
    BY <1>1, <1>2, FS_EmptySet, CollectorOK
    DEF GiveUpInv, CallInv, EndInv, Streak, Inserting

\* One that goes on without a result, or ends for another reason, keeps what
\* it has; an answer ends the failing of the calls.
LEMMA QuietGivesUp ==
    ASSUME GiveUpInv, UNCHANGED <<parseFailures, results>>,
           \/ UNCHANGED <<stage, ended, callFailures>>
           \/ stage = "next" /\ stage' = "next" /\ UNCHANGED <<ended, callFailures>>
           \/ /\ stage # "down" /\ stage' \in Inserting /\ ended' = ended
              /\ callFailures' = 0
           \/ stage' = "down" /\ ended' \in {"done", "crash"} /\ UNCHANGED callFailures
    PROVE  GiveUpInv'
<1>1. ParseAt' = ParseAt
    BY DEF ParseAt
<1>2. MaxFailures \in Nat \ {0}
    BY CollectorOK
<1> QED
    BY <1>1, <1>2 DEF GiveUpInv, CallInv, EndInv, Streak, Inserting

\* A combination that is stored, or given up for a malformed answer: the last
\* result is no failed call.
LEMMA EndGivesUp ==
    ASSUME GiveUpInv, stage \in Inserting, callFailures' = callFailures,
           NEW how \in {"ok", "parse"}, results' = Append(results, how),
           parseFailures' = parseFailures + (IF how = "parse" THEN 1 ELSE 0),
           \/ stage' = "next" /\ ended' = ended /\ parseFailures' < MaxFailures
           \/ stage' = "down" /\ ended' = "parse" /\ parseFailures' >= MaxFailures
    PROVE  GiveUpInv'
<1>1. /\ results' \in Seq({"ok", "call", "parse"}) /\ Len(results) \in Nat
      /\ Len(results') = Len(results) + 1 /\ results'[Len(results) + 1] = how
      /\ Cardinality(ParseAt') = parseFailures'
    BY ParseCounted DEF GiveUpInv
<1>2. /\ callFailures = 0 /\ ended = "none" /\ parseFailures < MaxFailures
      /\ parseFailures \in Nat /\ MaxFailures \in Nat \ {0}
    BY CollectorOK DEF GiveUpInv, CallInv, EndInv, Inserting
<1>3. parseFailures' \in Nat /\ (parseFailures' >= MaxFailures => parseFailures' = MaxFailures)
    BY <1>2
<1>4. CallInv'
    BY <1>1, <1>2 DEF CallInv, Streak, Inserting
<1>5. EndInv'
    BY <1>2, <1>3 DEF EndInv
<1> QED
    BY <1>1, <1>2, <1>3, <1>4, <1>5 DEF GiveUpInv

\* A call that fails: one more at the end.
LEMMA CallGivesUp == ASSUME GiveUpInv, SearchFails PROVE GiveUpInv'
<1> DEFINE n == Len(results)
<1>1. /\ stage = "next" /\ callFailures' = callFailures + 1 /\ parseFailures' = parseFailures
      /\ results' = Append(results, "call")
      /\ IF callFailures + 1 >= MaxFailures THEN stage' = "down" /\ ended' = "calls"
         ELSE stage' = "next" /\ ended' = ended
    BY DEF SearchFails, Stop, NextCombo
<1>2. /\ results' \in Seq({"ok", "call", "parse"}) /\ n \in Nat
      /\ Len(results') = n + 1 /\ results'[n + 1] = "call"
      /\ \A m \in 1..n : results'[m] = results[m]
      /\ Cardinality(ParseAt') = parseFailures
    BY <1>1, ParseCounted DEF GiveUpInv
<1>3. /\ Streak /\ ended = "none" /\ callFailures \in Nat /\ parseFailures \in Nat
      /\ MaxFailures \in Nat \ {0} /\ callFailures < MaxFailures /\ parseFailures < MaxFailures
    BY <1>1, CollectorOK DEF GiveUpInv, CallInv, EndInv
<1>4. Streak'
    <2>1. ASSUME NEW m \in (n + 1 - (callFailures + 1) + 1)..(n + 1) PROVE results'[m] = "call"
        <3>1. CASE m = n + 1
            BY <1>2, <3>1
        <3>2. CASE m # n + 1
            <4>1. m \in (n - callFailures + 1)..n /\ m \in 1..n
                BY <1>2, <1>3, <3>2 DEF Streak
            <4> QED
                BY <1>2, <1>3, <4>1 DEF Streak
        <3> QED
            BY <3>1, <3>2
    <2>2. n + 1 > callFailures + 1 => results'[n + 1 - (callFailures + 1)] # "call"
        <3>1. n > callFailures => n - callFailures \in 1..n /\ results[n - callFailures] # "call"
            BY <1>2, <1>3 DEF Streak
        <3>2. n + 1 - (callFailures + 1) = n - callFailures
            BY <1>2, <1>3
        <3> QED
            BY <1>2, <1>3, <3>1, <3>2
    <2>3. callFailures + 1 <= n + 1
        BY <1>2, <1>3 DEF Streak
    <2>4. Len(results') = n + 1 /\ callFailures' = callFailures + 1
        BY <1>1, <1>2
    <2>5. /\ callFailures' <= Len(results')
          /\ \A m \in (Len(results') - callFailures' + 1)..Len(results') : results'[m] = "call"
          /\ Len(results') > callFailures' => results'[Len(results') - callFailures'] # "call"
        BY <2>1, <2>2, <2>3, <2>4
    <2> QED
        BY <2>5 DEF Streak
<1>5. EndInv'
    BY <1>1, <1>3 DEF EndInv
<1>6. CallInv'
    BY <1>1, <1>4 DEF CallInv, Inserting
<1> QED
    BY <1>1, <1>2, <1>3, <1>5, <1>6 DEF GiveUpInv

\* Every step keeps the counters true.
LEMMA GiveUpKept == GiveUpInv /\ [Next]_vars => GiveUpInv'
<1> SUFFICES ASSUME GiveUpInv, [Next]_vars PROVE GiveUpInv'
    OBVIOUS
<1>1. CASE Skip \/ Finish \/ Crash \/ UNCHANGED vars
    BY <1>1, QuietGivesUp DEF Skip, Finish, Crash, Stop, NextCombo, counters, vars
<1>2. CASE Search
    BY <1>2, QuietGivesUp DEF Search, Inserting
<1>3. CASE Insert
    <2>1. /\ stage \in Inserting /\ stage' \in Inserting
          /\ UNCHANGED <<ended, parseFailures, callFailures, results>>
        BY <1>3 DEF Insert, InsertPlace, InsertType, InsertReviews, InsertCategory,
                    InsertRegion, counters, Inserting
    <2>2. callFailures = 0
        BY <2>1 DEF GiveUpInv, CallInv
    <2> QED
        BY <2>1, <2>2, QuietGivesUp DEF Inserting
<1>4. CASE MarkCompleted
    <2>1. /\ stage \in Inserting /\ stage # "down" /\ results' = Append(results, "ok")
          /\ stage' = "next" /\ UNCHANGED <<ended, parseFailures, callFailures>>
        BY <1>4 DEF MarkCompleted, NextCombo, Inserting
    <2>2. parseFailures \in Nat /\ parseFailures < MaxFailures
        BY <2>1 DEF GiveUpInv, EndInv
    <2>3. parseFailures' = parseFailures + (IF "ok" = "parse" THEN 1 ELSE 0)
        BY <2>1, <2>2
    <2> QED
        BY <2>1, <2>2, <2>3, EndGivesUp
<1>5. CASE ParseFails
    <2>1. /\ stage \in Inserting /\ results' = Append(results, "parse")
          /\ callFailures' = callFailures /\ parseFailures' = parseFailures + 1
          /\ IF parseFailures + 1 >= MaxFailures THEN stage' = "down" /\ ended' = "parse"
             ELSE stage' = "next" /\ ended' = ended
        BY <1>5 DEF ParseFails, Stop, NextCombo, Inserting
    <2>2. parseFailures \in Nat /\ MaxFailures \in Nat
        BY CollectorOK DEF GiveUpInv
    <2> QED
        BY <2>1, <2>2, EndGivesUp
<1> QED
    BY <1>1, <1>2, <1>3, <1>4, <1>5, StartGivesUp, CallGivesUp DEF Next, Progress

\* The same invariant for both theorems about the end of a run.
LEMMA GiveUpHolds == Spec => []GiveUpInv
<1>1. Init => GiveUpInv
    <2> SUFFICES ASSUME Init PROVE GiveUpInv
        OBVIOUS
    <2>1. results = <<>> /\ ParseAt = {}
        BY DEF Init, ParseAt
    <2> QED
        BY <2>1, FS_EmptySet, CollectorOK
        DEF Init, GiveUpInv, CallInv, EndInv, Streak, Inserting
<1> QED
    BY <1>1, GiveUpKept, PTL DEF Spec

\* Whatever fails and in whatever order, a run given up over failed calls
\* ended in as many of them in a row as the limit.
THEOREM CallStopsRight == Spec => []CallsStopInARow
<1>1. GiveUpInv => CallsStopInARow
    BY DEF GiveUpInv, CallInv, EndInv, Streak, CallsStopInARow
<1> QED
    BY <1>1, GiveUpHolds, PTL

\* What the code does instead of counting malformed answers in a row: a run
\* that stops over them has met as many as the limit since it started,
\* whatever succeeded or failed between them.
ParseStopsInAll == ended = "parse" => Cardinality(ParseAt) = MaxFailures

\* The counter of malformed answers counts those of the whole run.
THEOREM ParseStopsCumulate == Spec => []ParseStopsInAll
<1>1. GiveUpInv => ParseStopsInAll
    BY DEF GiveUpInv, EndInv, ParseStopsInAll
<1> QED
    BY <1>1, GiveUpHolds, PTL
-----------------------------------------------------------------------------
(***************************************************************************)
(* What the interruptions spoil.                                           *)
(***************************************************************************)
\* The places that were left incomplete: the one in work may still be made whole.
Spoiled ==
    {p \in Places : Incomplete(p) /\ ~(stage \in {"types", "reviews"} /\ p = Current)}

\* A place comes to its reviews with all of its types.
DamageInv ==
    /\ interruptions \in Nat
    /\ stage = "reviews" => typeRows[Current] >= TypeCount[Current]
    /\ Cardinality(Spoiled) <= interruptions

\* Fewer spoiled places are no more of them.
LEMMA FewerSpoiled ==
    ASSUME DamageInv, interruptions' = interruptions, Spoiled' \subseteq Spoiled,
           stage' = "reviews" => (typeRows[Current] >= TypeCount[Current])'
    PROVE  DamageInv'
<1>1. IsFiniteSet(Spoiled) /\ Spoiled' \in SUBSET Spoiled
    BY FS_Subset, CollectorOK DEF Spoiled
<1>2. Cardinality(Spoiled') <= Cardinality(Spoiled)
    BY <1>1, FS_Subset
<1>3. Cardinality(Spoiled) \in Nat /\ Cardinality(Spoiled') \in Nat
    BY <1>1, FS_Subset, FS_CardinalityType
<1> QED
    BY <1>2, <1>3 DEF DamageInv

\* An interruption leaves at most the place in work behind.
LEMMA OneMoreSpoiled ==
    ASSUME DamageInv, interruptions' = interruptions + 1, Spoiled' \subseteq Spoiled \cup {Current},
           stage' # "reviews"
    PROVE  DamageInv'
<1>1. IsFiniteSet(Spoiled)
    BY FS_Subset, CollectorOK DEF Spoiled
<1>2. /\ IsFiniteSet(Spoiled \cup {Current})
      /\ Cardinality(Spoiled \cup {Current}) =
            IF Current \in Spoiled THEN Cardinality(Spoiled) ELSE Cardinality(Spoiled) + 1
    BY <1>1, FS_AddElement
<1>3. Spoiled' \in SUBSET (Spoiled \cup {Current})
    OBVIOUS
<1>4. /\ Cardinality(Spoiled') <= Cardinality(Spoiled \cup {Current})
      /\ Cardinality(Spoiled) \in Nat /\ Cardinality(Spoiled') \in Nat
    BY <1>1, <1>2, <1>3, FS_Subset, FS_CardinalityType
<1> QED
    BY <1>2, <1>4 DEF DamageInv

\* Every step spoils what it says.
LEMMA DamageKept == IInv /\ DamageInv /\ [Next]_vars => DamageInv'
<1> SUFFICES ASSUME IInv, DamageInv, [Next]_vars PROVE DamageInv'
    OBVIOUS
<1>1. CASE Start \/ Skip \/ Search \/ SearchFails \/ Finish \/ MarkCompleted
    <2>1. /\ UNCHANGED <<rows, typeRows, reviewed, interruptions>>
          /\ stage \notin {"types", "reviews"} /\ stage' \notin {"types", "reviews"}
        BY <1>1 DEF Start, Skip, Search, SearchFails, Finish, MarkCompleted, Stop, NextCombo,
                    tables, bounds
    <2>2. Spoiled' = Spoiled
        BY <2>1 DEF Spoiled, Incomplete
    <2> QED
        BY <2>1, <2>2, FewerSpoiled
<1>2. CASE ParseFails \/ Crash
    <2>1. /\ UNCHANGED <<rows, typeRows, reviewed>> /\ interruptions' = interruptions + 1
          /\ stage' \notin {"types", "reviews"}
        BY <1>2 DEF ParseFails, Crash, Stop, NextCombo, tables
    <2>2. Spoiled' \subseteq Spoiled \cup {Current}
        BY <2>1 DEF Spoiled, Incomplete
    <2> QED
        BY <2>1, <2>2, OneMoreSpoiled
<1>3. CASE InsertPlace
    <2>1. /\ stage = "place" /\ UNCHANGED <<typeRows, reviewed, interruptions>> /\ Current' = Current
          /\ \/ stage' = "category" /\ rows' = rows
             \/ stage' = "types" /\ rows' = rows \cup {Current}
        BY <1>3 DEF InsertPlace, Current, bounds
    <2>2. Spoiled' \subseteq Spoiled
        BY <2>1 DEF Spoiled, Incomplete
    <2> QED
        BY <2>1, <2>2, FewerSpoiled
<1>4. CASE InsertType
    <2>1. /\ stage = "types" /\ UNCHANGED <<rows, reviewed, interruptions>> /\ Current' = Current
          /\ \/ stage' = "types" /\ typeRows' = [typeRows EXCEPT ![Current] = @ + 1]
             \/ stage' = "reviews" /\ typeRows' = typeRows /\ typePos > TypeCount[Current]
        BY <1>4 DEF InsertType, Current, bounds
    <2>2. typeRows \in [Places -> Nat]
        BY DEF IInv, Shape
    <2>3. Spoiled' \subseteq Spoiled
        BY <2>1, <2>2 DEF Spoiled, Incomplete
    <2>4. /\ typeRows[Current] = typePos - 1 /\ typePos \in Nat
          /\ Current \in Places /\ TypeCount[Current] \in Nat
        <3>1. stage \in Inserting /\ pos <= Len(answer[combo])
            BY <2>1 DEF IInv, WorkDone, Inserting
        <3> QED
            BY <2>1, <3>1, CurrentPlace, CollectorOK DEF IInv, Shape, CurrentDone, Inserting
    <2>5. stage' = "reviews" => (typeRows[Current] >= TypeCount[Current])'
        BY <2>1, <2>4
    <2> QED
        BY <2>1, <2>3, <2>5, FewerSpoiled
<1>5. CASE InsertReviews
    <2>1. /\ stage = "reviews" /\ stage' = "category" /\ reviewed' = reviewed \cup {Current}
          /\ UNCHANGED <<rows, typeRows, interruptions>>
        BY <1>5 DEF InsertReviews, bounds
    <2>2. /\ typeRows[Current] >= TypeCount[Current] /\ typeRows[Current] \in Nat
          /\ TypeCount[Current] \in Nat
        <3>1. stage \in Inserting /\ pos <= Len(answer[combo])
            BY <2>1 DEF IInv, WorkDone, Inserting
        <3> QED
            BY <2>1, <3>1, CurrentPlace, CollectorOK DEF DamageInv, IInv, Shape
    <2>3. Spoiled' \subseteq Spoiled
        BY <2>1, <2>2 DEF Spoiled, Incomplete
    <2> QED
        BY <2>1, <2>3, FewerSpoiled
<1>6. CASE InsertCategory \/ InsertRegion
    <2>1. /\ stage \notin {"types", "reviews"} /\ stage' \notin {"types", "reviews"}
          /\ UNCHANGED <<rows, typeRows, reviewed, interruptions>>
        BY <1>6 DEF InsertCategory, InsertRegion, bounds
    <2>2. Spoiled' = Spoiled
        BY <2>1 DEF Spoiled, Incomplete
    <2> QED
        BY <2>1, <2>2, FewerSpoiled
<1>7. CASE UNCHANGED vars
    <2>1. Spoiled' = Spoiled /\ Current' = Current
        BY <1>7 DEF Spoiled, Incomplete, Current, vars, process, tables
    <2> QED
        BY <1>7, <2>1 DEF DamageInv, vars, tables, bounds
<1> QED
    BY <1>1, <1>2, <1>3, <1>4, <1>5, <1>6, <1>7 DEF Next, Progress, Insert

\* The rows of a place come once and, but for one place an interruption, whole.
THEOREM PlacesStayWhole == Spec => []PlacesWhole
<1>1. Init => DamageInv
    <2> SUFFICES ASSUME Init PROVE DamageInv
        OBVIOUS
    <2>1. Spoiled = {}
        BY DEF Init, Spoiled, Incomplete
    <2> QED
        BY <2>1, FS_EmptySet DEF Init, DamageInv
<1>2. Spec => []DamageInv
    BY <1>1, DamageKept, Invariance, PTL DEF Spec
<1>3. IInv /\ DamageInv => PlacesWhole
    BY DEF IInv, DamageInv, PlacesWhole, DamageBounded, Spoiled
<1> QED
    BY <1>2, <1>3, Invariance, PTL
=============================================================================
