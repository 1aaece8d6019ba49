---------------------------- MODULE TripSelection ----------------------------
(***************************************************************************)
(* Filling the slots of one trip (src/app/trips/services/slot_plan.py,     *)
(* trip_rule.py, place_selection.py, model/trip_selection.py,              *)
(* model/generation.py, trip_orchestrator.py, taste_share.py).             *)
(*                                                                         *)
(* A trip is a plan of slots for each day.  The rule path and the model    *)
(* path fill it slot by slot with places of the database and never use a   *)
(* place twice.  A trip of the model path that does not fill enough slots  *)
(* is thrown away and the rule path fills the same plan.                   *)
(*                                                                         *)
(* What the seeds of the rule path and the beam search of the model path   *)
(* choose is left open.  A place stands for its row; it has a rank in the  *)
(* order of the database query.                                            *)
(***************************************************************************)
EXTENDS Integers, Sequences, FiniteSets

CONSTANTS
    Places,         \* places of the region that pass the quality filter
    CategoriesOf,   \* CategoriesOf[p]: their rows in ai_place_categories
    Night,          \* places with a type in NIGHT_ACTIVITY_TYPES
    Outdoor,        \* places with a type in OUTDOOR_TYPE_VALUES
    Avoided,        \* places with a type that a deal breaker excludes
    Coded,          \* places the model has codes of
    Rank,           \* Rank[p]: position of p in the order by rating
    Ranking,        \* daytime_category_ranking of the group
    TripLengths,    \* the values of num_days looked at
    HasEvening,     \* does the group's night score exceed the threshold?
    WeatherDays,    \* the values of outdoor_excluded_days looked at
    PickWidth,      \* pick_width, the top_k of the rule path
    Spare           \* POOL_SPARE

Daytime == {"history", "nature", "activity", "shopping"}
Categories == Daytime \cup {"food"}

ASSUME TripSelectionOK ==
    /\ IsFiniteSet(Places)
    /\ CategoriesOf \in [Places -> SUBSET Categories]
    /\ Night \subseteq Places /\ Outdoor \subseteq Places
    /\ Avoided \subseteq Places /\ Coded \subseteq Places
    /\ Rank \in [Places -> Nat]
    /\ \A p, q \in Places : Rank[p] = Rank[q] => p = q
    /\ Ranking \in [1..4 -> Daytime]
    /\ \A i, j \in 1..4 : Ranking[i] = Ranking[j] => i = j
    /\ TripLengths \subseteq Nat \ {0}
    /\ HasEvening \in BOOLEAN
    /\ WeatherDays \subseteq SUBSET Nat
    /\ PickWidth \in Nat \ {0}
    /\ Spare \in Nat

VARIABLES
    path,     \* the path that fills the trip, "done" when it is answered
    numDays,  \* num_days
    diverse,  \* is this the diversity plan?
    weather,  \* outdoor_excluded_days
    day,      \* the day and
    slot,     \*   the slot of it to fill next
    trip,     \* the places picked so far
    skipped   \* the slots skipped so far

request == <<numDays, diverse, weather>>
vars == <<path, request, day, slot, trip, skipped>>
-----------------------------------------------------------------------------
(***************************************************************************)
(* The plan.                                                               *)
(***************************************************************************)
Slots == 1..6
Evening == 6

\* build_slot_plan: two slots of the first category, one of the second.
BaseCategory(s) ==
    CASE s \in {1, 3} -> Ranking[1]
      [] s = 4 -> Ranking[2]
      [] s \in {2, 5} -> "food"
      [] s = Evening -> "activity"

\* The last day of a longer trip ends with lunch.
SlotsOf(d) ==
    IF numDays >= 2 /\ d = numDays THEN {1, 2}
    ELSE IF HasEvening THEN Slots ELSE Slots \ {Evening}

\* The diversity plan gives the second afternoon slot to the third and the
\* fourth category in turn.
SlotCategory(div, d, s) ==
    IF div /\ s = 4 THEN Ranking[IF d % 2 = 1 THEN 3 ELSE 4] ELSE BaseCategory(s)

KindOf(s) ==
    CASE s = Evening -> "evening"
      [] s \in {2, 5} -> "food"
      [] s \in {1, 3, 4} -> "daytime"

PlanSlots == {x \in (1..numDays) \X Slots : x[2] \in SlotsOf(x[1])}
-----------------------------------------------------------------------------
(***************************************************************************)
(* Candidates.                                                             *)
(***************************************************************************)
\* The first n places of S in the order of the query.
Top(S, n) == {p \in S : Cardinality({q \in S : Rank[q] < Rank[p]}) < n}

\* Mutant: the night types are not taken out of the daytime pools.
EligibleNightByDay(kind, category, indoor) ==
    {p \in Places \ Avoided :
        /\ category \in CategoriesOf[p]
        /\ indoor => p \notin Outdoor
        /\ kind = "evening" => p \in Night}

\* Places of the category that may be used, before LIMIT.  The night types
\* separate the evening from the activities of the day.
Eligible(kind, category, indoor) ==
    {p \in Places \ Avoided :
        /\ category \in CategoriesOf[p]
        /\ indoor => p \notin Outdoor
        /\ kind = "evening" => p \in Night
        /\ kind = "daytime" /\ category = "activity" => p \notin Night}

Used == {e.place : e \in trip}

\* Mutant: the limit does not allow for the width of the pick.
LimitNoSpare(kind) == Cardinality({x \in PlanSlots : KindOf(x[2]) = kind})

Limit(kind) ==
    Cardinality({x \in PlanSlots : KindOf(x[2]) = kind}) + PickWidth + Spare

RulePool(kind, category, indoor) == Top(Eligible(kind, category, indoor), Limit(kind))

\* take: the first unused places of a pool, one of which is chosen.
RuleChoices(kind, category, indoor) ==
    Top(RulePool(kind, category, indoor) \ Used, PickWidth)

Position(category) == CHOOSE i \in 1..4 : Ranking[i] = category

\* _build_fallback_order: the rank in the order in which the rule path turns
\* to a category when `first` has no place left.
FallbackRank(first, category) == (Position(category) - Position(first)) % 4

\* The category whose places the rule path chooses from: the next one in the
\* fallback order that has one left.
RuleCategories(kind, category, indoor) ==
    LET open == {c \in (IF kind = "daytime" THEN Daytime ELSE {category}) :
                    RuleChoices(kind, c, indoor) # {}}
    IN  {c \in open : kind = "daytime" =>
            \A other \in open : FallbackRank(category, c) <= FallbackRank(category, other)}

DaytimePlaces(n, indoor) ==
    UNION {Eligible("daytime", Ranking[i], indoor) : i \in 1..n}

\* How many categories the daytime pool of the model path merges: the first
\* two (four for the diversity plan), and more until it holds three places.
MergedCategories(indoor) ==
    LET least == IF diverse THEN 4 ELSE 2
    IN  CHOOSE n \in least..4 :
            /\ n = 4 \/ Cardinality(DaytimePlaces(n, indoor)) >= 3
            /\ \A m \in least..(n - 1) : Cardinality(DaytimePlaces(m, indoor)) < 3

ModelPool(kind, indoor) ==
    CASE kind = "evening" -> Eligible("evening", "activity", indoor)
      [] kind = "food" -> Eligible("food", "food", indoor)
      [] kind = "daytime" -> DaytimePlaces(MergedCategories(indoor), indoor)

\* generate_itinerary: the unused places of the pool that the model knows.
ModelChoices(kind, indoor) == (ModelPool(kind, indoor) \cap Coded) \ Used

\* The best ranked daytime category in whose pool the place is.
ModelCategory(kind, indoor, p) ==
    CASE kind = "evening" -> "activity"
      [] kind = "food" -> "food"
      [] kind = "daytime" ->
            Ranking[CHOOSE i \in 1..4 :
                        /\ p \in Eligible("daytime", Ranking[i], indoor)
                        /\ \A j \in 1..(i - 1) :
                              p \notin Eligible("daytime", Ranking[j], indoor)]
-----------------------------------------------------------------------------
(***************************************************************************)
(* Filling.                                                                *)
(***************************************************************************)
Indoor == day \in weather

\* The next slot of the plan, or the first one behind it.
Advance ==
    IF \E s \in SlotsOf(day) : s > slot
    THEN /\ slot' = CHOOSE s \in SlotsOf(day) :
                        s > slot /\ \A r \in SlotsOf(day) : r > slot => s <= r
         /\ day' = day
    ELSE day' = day + 1 /\ slot' = 1

Fill(p, category) ==
    /\ trip' = trip \cup {[place |-> p, day |-> day, slot |-> slot, category |-> category]}
    /\ Advance
    /\ UNCHANGED <<path, request, skipped>>

Skip ==
    /\ skipped' = skipped \cup {<<day, slot>>}
    /\ Advance
    /\ UNCHANGED <<path, request, trip>>

RuleFills ==
    /\ path = "rule" /\ day <= numDays
    /\ LET kind == KindOf(slot)
           category == SlotCategory(diverse, day, slot)
       IN  \/ \E c \in RuleCategories(kind, category, Indoor) :
                 \E p \in RuleChoices(kind, c, Indoor) : Fill(p, c)
           \/ RuleCategories(kind, category, Indoor) = {} /\ Skip

\* Mutant: a place is only remembered for its own day.
ModelFillsByDay ==
    /\ path = "model" /\ day <= numDays
    /\ LET kind == KindOf(slot)
           today == {e.place : e \in {x \in trip : x.day = day}}
           choices == (ModelPool(kind, Indoor) \cap Coded) \ today
       IN  \/ \E p \in choices : Fill(p, ModelCategory(kind, Indoor, p))
           \/ choices = {} /\ Skip

ModelFills ==
    /\ path = "model" /\ day <= numDays
    /\ LET kind == KindOf(slot)
       IN  \/ \E p \in ModelChoices(kind, Indoor) : Fill(p, ModelCategory(kind, Indoor, p))
           \/ ModelChoices(kind, Indoor) = {} /\ Skip

\* is_valid_model_trip: a day must hold as many places, of any slot, as it
\* has slots before the evening.
ValidTrip ==
    \A d \in 1..numDays :
        Cardinality({e \in trip : e.day = d}) >= Cardinality(SlotsOf(d) \ {Evening})

\* The orchestrator takes a valid model trip, and otherwise starts again with
\* the rules.
JudgeModel ==
    /\ path = "model" /\ day > numDays
    /\ IF ValidTrip
       THEN path' = "modelDone" /\ UNCHANGED <<day, slot, trip, skipped>>
       ELSE /\ path' = "rule"
            /\ day' = 1 /\ slot' = 1
            /\ trip' = {} /\ skipped' = {}
    /\ UNCHANGED request

RuleEnds ==
    /\ path = "rule" /\ day > numDays
    /\ path' = "ruleDone"
    /\ UNCHANGED <<request, day, slot, trip, skipped>>
-----------------------------------------------------------------------------
Init ==
    /\ path \in {"rule", "model"}
    /\ numDays \in TripLengths
    /\ diverse \in BOOLEAN
    /\ path = "rule" => ~diverse
    /\ weather \in WeatherDays
    /\ day = 1 /\ slot = 1
    /\ trip = {} /\ skipped = {}

Next == RuleFills \/ ModelFills \/ JudgeModel \/ RuleEnds

Spec == Init /\ [][Next]_vars
-----------------------------------------------------------------------------
(***************************************************************************)
(* What the answer says about the trip.                                    *)
(***************************************************************************)
\* is_evening_place: an evening place is recognised by its types.
IsEveningPlace(e) == e.category = "activity" /\ e.place \in Night

Counted == {e \in trip : e.category # "food" /\ ~IsEveningPlace(e)}

PreferenceCount == Cardinality({e \in Counted : e.category \in {Ranking[1], Ranking[2]}})
DiscoveryCount == Cardinality({e \in Counted : e.category \notin {Ranking[1], Ranking[2]}})

Done == path \in {"ruleDone", "modelDone"}
-----------------------------------------------------------------------------
\* Every variable keeps its shape.
TypeOK ==
    /\ path \in {"rule", "model", "ruleDone", "modelDone"}
    /\ numDays \in TripLengths /\ diverse \in BOOLEAN /\ weather \in WeatherDays
    /\ day \in 1..(numDays + 1) /\ slot \in Slots
    /\ trip \subseteq [place : Places, day : 1..numDays, slot : Slots, category : Categories]
    /\ skipped \subseteq (1..numDays) \X Slots

\* No place turns up twice in a trip, on any days, in any roles, from any of
\* the overlapping pools of categories and weather.
NoPlaceTwice == \A e, f \in trip : e.place = f.place => e = f

\* No place breaks a deal breaker of a member, and none is outdoors on a day
\* with a weather warning, also after fallbacks to other categories.
ExclusionsKept ==
    \A e \in trip : e.place \notin Avoided /\ (e.day \in weather => e.place \notin Outdoor)

\* The category that is shown for a place is one of its categories, and lunch
\* and dinner are food.
LabelsTrue ==
    \A e \in trip : /\ e.category \in CategoriesOf[e.place]
                    /\ KindOf(e.slot) = "food" <=> e.category = "food"

\* The counts of routes[] count the daytime places, all of them and only them,
\* although the code tells them from the evening by their types.
TasteCountsDaytime ==
    PreferenceCount + DiscoveryCount =
        Cardinality({e \in trip : KindOf(e.slot) = "daytime"})

\* Each slot of the plan is filled once or skipped, in order, and in the end
\* none is left over, also when the rules take over from the model.
SlotsSettled ==
    LET filled == {<<e.day, e.slot>> : e \in trip}
        passed == {x \in PlanSlots : x[1] < day \/ (x[1] = day /\ x[2] < slot)}
    IN  /\ filled \cup skipped = passed
        /\ filled \cap skipped = {}
        /\ Cardinality(filled) = Cardinality(trip)
        /\ Done => passed = PlanSlots

\* POOL_SPARE: as long as no more than PickWidth + Spare slots of other kinds
\* can take places away, the limited pools of the rule path never run dry
\* before the database does, however much the categories overlap.
RuleSkipsOnlyIfExhausted ==
    [][ \A x \in skipped' \ skipped :
          LET kind == KindOf(x[2])
              category == SlotCategory(diverse, x[1], x[2])
              others == {y \in PlanSlots : KindOf(y[2]) # kind}
          IN  path = "rule" /\ Cardinality(others) <= PickWidth + Spare =>
                 \A c \in (IF kind = "daytime" THEN Daytime ELSE {category}) :
                    Eligible(kind, c, x[1] \in weather) \subseteq Used ]_vars

\* No slot is lost: each is settled once, and one that the rules skip could not
\* be filled.
NoSlotLost == []SlotsSettled /\ RuleSkipsOnlyIfExhausted
=============================================================================
