--------------------------- MODULE PlaceCollector ---------------------------
(***************************************************************************)
(* The place collector (src/app/trips/services/collect_places.py).         *)
(*                                                                         *)
(* One process goes through all combinations of a grid point and a         *)
(* category, asks Nearby Search for each and stores the places it finds.   *)
(* Every insert is a transaction of its own, and a combination whose       *)
(* places are all stored is noted in a progress file, so that a rerun      *)
(* skips it.  The process may crash between any two commits; it is run     *)
(* again by hand.                                                          *)
(***************************************************************************)
EXTENDS Integers, Sequences, FiniteSets, SequencesExt

CONSTANTS
    Places,            \* google_place_ids
    Combos,            \* sequence of [category, region], in loop order
    Answers,           \* Answers[k]: sequences of places that k may be answered
    TypeCount,         \* TypeCount[p]: length of the types array of p
    MaxFailures,       \* MAX_CONSECUTIVE_FAILURES
    MaxInterruptions,  \* bound: crashes and malformed answers in all runs
    MaxOutages         \* bound: calls that fail after all retries, in all runs

ASSUME CollectorOK ==
    /\ IsFiniteSet(Places)
    /\ Combos \in Seq([category : STRING, region : STRING])
    /\ Answers \in [1..Len(Combos) -> SUBSET Seq(Places)]
    /\ TypeCount \in [Places -> Nat]
    /\ MaxFailures \in Nat \ {0}
    /\ MaxInterruptions \in Nat
    /\ MaxOutages \in Nat

VARIABLES
    stage,          \* what the process does next, "down" when it is not running
    ended,          \* why the last run ended
    combo,          \* the combination it is at
    loaded,         \* combinations the progress file held when it started
    answer,         \* answer[k]: the last answer to combination k
    pos,            \* position in the answer of the current combination
    typePos,        \* position in the types array of the current place
    parseFailures,  \* consecutive_parse_failures
    callFailures,   \* consecutive_call_failures
    results,        \* history: how the combinations of this run went
    progress,       \* the progress file
    rows,           \* places with a row in ai_places
    typeRows,       \* typeRows[p]: rows of p in ai_place_types
    reviewed,       \* places whose reviews were inserted
    categories,     \* ai_place_categories
    regions,        \* ai_place_regions
    interruptions, outages  \* history: troubles so far

process == <<combo, loaded, answer, pos, typePos>>
counters == <<parseFailures, callFailures, results>>
tables == <<rows, typeRows, reviewed, categories, regions>>
bounds == <<interruptions, outages>>
vars == <<stage, ended, process, counters, progress, tables, bounds>>
-----------------------------------------------------------------------------
Keys == 1..Len(Combos)
Inserting == {"place", "types", "reviews", "category", "region"}

\* The place the process works on.
Current == answer[combo][pos]

\* A place stored under combination k.
Stored(p, k) ==
    /\ p \in rows
    /\ <<p, Combos[k].category>> \in categories
    /\ <<p, Combos[k].region>> \in regions

\* A place whose row came without all of its types or its reviews.
Incomplete(p) == p \in rows /\ (typeRows[p] < TypeCount[p] \/ p \notin reviewed)

\* The run is over, for the given reason.
Stop(reason) ==
    /\ stage' = "down"
    /\ ended' = reason

NextCombo ==
    /\ stage' = "next"
    /\ combo' = combo + 1
    /\ UNCHANGED ended
-----------------------------------------------------------------------------
Start ==
    /\ stage = "down"
    /\ stage' = "next"
    /\ ended' = "none"
    /\ combo' = 1
    /\ loaded' = progress
    /\ parseFailures' = 0 /\ callFailures' = 0 /\ results' = <<>>
    /\ UNCHANGED <<answer, pos, typePos, progress, tables, bounds>>

Skip ==
    /\ stage = "next" /\ combo \in loaded
    /\ NextCombo
    /\ UNCHANGED <<loaded, answer, pos, typePos, counters, progress, tables, bounds>>

Finish ==
    /\ stage = "next" /\ combo > Len(Combos)
    /\ Stop("done")
    /\ UNCHANGED <<process, counters, progress, tables, bounds>>

\* Mutant: an answer does not set the counter of failed calls back.
SearchKeepsCount ==
    /\ stage = "next" /\ combo \in Keys \ loaded
    /\ \E a \in Answers[combo] : answer' = [answer EXCEPT ![combo] = a]
    /\ pos' = 1
    /\ stage' = "place"
    /\ UNCHANGED <<ended, combo, loaded, typePos, counters, progress, tables, bounds>>

\* Nearby Search answered, at the first try or at a retry.
Search ==
    /\ stage = "next" /\ combo \in Keys \ loaded
    /\ \E a \in Answers[combo] : answer' = [answer EXCEPT ![combo] = a]
    /\ pos' = 1
    /\ stage' = "place"
    /\ callFailures' = 0
    /\ UNCHANGED <<ended, combo, loaded, typePos, parseFailures, results, progress,
                   tables, bounds>>

\* All retries failed: the combination is left for a later run, and too many
\* in a row end this one.
SearchFails ==
    /\ stage = "next" /\ combo \in Keys \ loaded
    /\ outages < MaxOutages
    /\ outages' = outages + 1
    /\ callFailures' = callFailures + 1
    /\ results' = Append(results, "call")
    /\ IF callFailures + 1 >= MaxFailures
       THEN Stop("calls") /\ UNCHANGED combo
       ELSE NextCombo
    /\ UNCHANGED <<loaded, answer, pos, typePos, parseFailures, progress, tables, interruptions>>

\* A place without a row gets one; its types and reviews follow only then.
InsertPlace ==
    /\ stage = "place" /\ pos <= Len(answer[combo])
    /\ IF Current \in rows
       THEN stage' = "category" /\ UNCHANGED rows
       ELSE stage' = "types" /\ rows' = rows \cup {Current}
    /\ typePos' = 1
    /\ UNCHANGED <<ended, combo, loaded, answer, pos, counters, progress,
                   typeRows, reviewed, categories, regions, bounds>>

\* Mutant: the last type of the array is left out.
InsertTypeButLast ==
    /\ stage = "types"
    /\ \/ /\ typePos < TypeCount[Current]
          /\ typeRows' = [typeRows EXCEPT ![Current] = @ + 1]
          /\ typePos' = typePos + 1
          /\ UNCHANGED stage
       \/ /\ typePos >= TypeCount[Current]
          /\ stage' = "reviews"
          /\ UNCHANGED <<typeRows, typePos>>
    /\ UNCHANGED <<ended, combo, loaded, answer, pos, counters, progress, rows,
                   reviewed, categories, regions, bounds>>

\* One row, and one transaction, for each type; then the loop ends.
InsertType ==
    /\ stage = "types"
    /\ \/ /\ typePos <= TypeCount[Current]
          /\ typeRows' = [typeRows EXCEPT ![Current] = @ + 1]
          /\ typePos' = typePos + 1
          /\ UNCHANGED stage
       \/ /\ typePos > TypeCount[Current]
          /\ stage' = "reviews"
          /\ UNCHANGED <<typeRows, typePos>>
    /\ UNCHANGED <<ended, combo, loaded, answer, pos, counters, progress, rows,
                   reviewed, categories, regions, bounds>>

\* All reviews of a place are one transaction.
InsertReviews ==
    /\ stage = "reviews"
    /\ reviewed' = reviewed \cup {Current}
    /\ stage' = "category"
    /\ UNCHANGED <<ended, process, counters, progress, rows, typeRows,
                   categories, regions, bounds>>

InsertCategory ==
    /\ stage = "category"
    /\ categories' = categories \cup {<<Current, Combos[combo].category>>}
    /\ stage' = "region"
    /\ UNCHANGED <<ended, process, counters, progress, rows, typeRows, reviewed,
                   regions, bounds>>

InsertRegion ==
    /\ stage = "region"
    /\ regions' = regions \cup {<<Current, Combos[combo].region>>}
    /\ pos' = pos + 1
    /\ stage' = "place"
    /\ UNCHANGED <<ended, combo, loaded, answer, typePos, counters, progress, rows,
                   typeRows, reviewed, categories, bounds>>

\* Mutant: the combination is noted as soon as one of its places is stored.
MarkCompletedEarly ==
    /\ stage = "place" /\ (pos > Len(answer[combo]) \/ pos = 2)
    /\ progress' = progress \cup {combo}
    /\ results' = Append(results, "ok")
    /\ NextCombo
    /\ UNCHANGED <<loaded, answer, pos, typePos, parseFailures, callFailures, tables,
                   bounds>>

\* Mutant: a combination without places is not noted as completed.
MarkCompletedIfAny ==
    /\ stage = "place" /\ pos > Len(answer[combo])
    /\ progress' = IF pos > 1 THEN progress \cup {combo} ELSE progress
    /\ results' = Append(results, "ok")
    /\ NextCombo
    /\ UNCHANGED <<loaded, answer, pos, typePos, parseFailures, callFailures, tables,
                   bounds>>

\* All places of the answer are stored.  parseFailures is not set back.
MarkCompleted ==
    /\ stage = "place" /\ pos > Len(answer[combo])
    /\ progress' = progress \cup {combo}
    /\ results' = Append(results, "ok")
    /\ NextCombo
    /\ UNCHANGED <<loaded, answer, pos, typePos, parseFailures, callFailures, tables,
                   bounds>>

\* The answer, the id of a place, its types array or its reviews are missing
\* or not of the expected type.  The combination is given up.
ParseFails ==
    /\ \/ stage = "place" /\ (pos <= Len(answer[combo]) \/ pos = 1)
       \/ stage = "types" /\ typePos = 1
       \/ stage = "reviews"
    /\ interruptions < MaxInterruptions
    /\ interruptions' = interruptions + 1
    /\ parseFailures' = parseFailures + 1
    /\ results' = Append(results, "parse")
    /\ IF parseFailures + 1 >= MaxFailures
       THEN Stop("parse") /\ UNCHANGED combo
       ELSE NextCombo
    /\ UNCHANGED <<loaded, answer, pos, typePos, callFailures, progress, tables, outages>>

\* The process is killed, or an exception that nothing catches ends it.
Crash ==
    /\ stage # "down"
    /\ interruptions < MaxInterruptions
    /\ interruptions' = interruptions + 1
    /\ Stop("crash")
    /\ UNCHANGED <<process, counters, progress, tables, outages>>
-----------------------------------------------------------------------------
Init ==
    /\ stage = "down" /\ ended = "none"
    /\ combo = 1
    /\ loaded = {}
    /\ answer = [k \in Keys |-> <<>>]
    /\ pos = 1 /\ typePos = 1
    /\ parseFailures = 0 /\ callFailures = 0 /\ results = <<>>
    /\ progress = {}
    /\ rows = {} /\ typeRows = [p \in Places |-> 0] /\ reviewed = {}
    /\ categories = {} /\ regions = {}
    /\ interruptions = 0 /\ outages = 0

Insert ==
    InsertPlace \/ InsertType \/ InsertReviews \/ InsertCategory \/ InsertRegion

Progress == Skip \/ Search \/ Insert \/ MarkCompleted \/ Finish

Next == Start \/ Progress \/ SearchFails \/ ParseFails \/ Crash

Spec == Init /\ [][Next]_vars

\* The process goes on while it runs, and somebody runs it again.
FairSpec == Spec /\ WF_vars(Progress) /\ WF_vars(Start)
-----------------------------------------------------------------------------
\* What the progress file says is true: all places of the answer to a noted
\* combination are stored under its category and region, whatever was
\* interrupted before or since.
CompletedIsStored ==
    \A k \in progress : \A m \in 1..Len(answer[k]) : Stored(answer[k][m], k)

\* Reruns and repeated finds never insert the types of a place twice (the
\* table has no unique key that would stop them).
NoDuplicateTypes == \A p \in Places : typeRows[p] <= TypeCount[p]

\* Each interruption spoils one place at most: apart from the place in work,
\* there are no more incomplete places than interruptions.
DamageBounded ==
    Cardinality({p \in Places : Incomplete(p) /\
                    ~(stage \in {"types", "reviews"} /\ p = Current)})
        <= interruptions

\* The rows of a place come once and, but for the interruptions, whole.
PlacesWhole == NoDuplicateTypes /\ DamageBounded

\* A run is given up over failed calls only when the limit is reached by calls
\* that failed one after the other; a success, or a malformed answer, before
\* them does not count.
CallsStopInARow ==
    LET n == Len(results)
    IN  ended = "calls" =>
              /\ n >= MaxFailures
              /\ \A m \in (n - MaxFailures + 1)..n : results[m] = "call"
              /\ n > MaxFailures => results[n - MaxFailures] # "call"

\* The same of malformed answers, as collect_places.py:451 has it: "five times
\* in a row or more is taken for a real problem".  Failed calls, which bring no
\* answer, may lie between them, a success may not.  parseFailures is not set
\* back by a success, so the code does not keep this.
ParseStopsInARow ==
    LET answered == SelectSeq(results, LAMBDA how : how # "call")
        n == Len(answered)
    IN  ended = "parse" =>
              /\ n >= MaxFailures
              /\ \A m \in (n - MaxFailures + 1)..n : answered[m] = "parse"

\* Rerun often enough, the collector completes every combination.
AllCompleted == <>(progress = Keys)

=============================================================================
