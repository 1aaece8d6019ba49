----------------------------- MODULE TripProofs -----------------------------
(***************************************************************************)
(* Proofs about the trips: the filling of one trip (TripSelection), for    *)
(* every region, plan and length of trip, and the making of three plans    *)
(* for a request (TripPlans), for any number of requests, connections and  *)
(* queries.                                                                *)
(***************************************************************************)
EXTENDS TripSelection, TripPlans, FiniteSetTheorems, NaturalsInduction, TLAPS

\* What a filled slot says about its place; stronger than LabelsTrue.
FilledRight ==
    \A e \in trip :
        /\ e.category \in CategoriesOf[e.place]
        /\ KindOf(e.slot) = "evening" => e.category = "activity" /\ e.place \in Night
        /\ KindOf(e.slot) = "food" => e.category = "food"
        /\ KindOf(e.slot) = "daytime" =>
              e.category \in Daytime /\ (e.category = "activity" => e.place \notin Night)

Inv ==
    /\ TypeOK
    /\ NoPlaceTwice
    /\ ExclusionsKept
    /\ FilledRight
    /\ IsFiniteSet(trip)

\* A place and a category that suit the current slot.
Suits(p, c) ==
    /\ p \in Eligible(KindOf(slot), c, Indoor) \ Used
    /\ KindOf(slot) = "evening" => c = "activity"
    /\ KindOf(slot) = "food" => c = "food"
    /\ KindOf(slot) = "daytime" => c \in Daytime
-----------------------------------------------------------------------------
\* A set of naturals that is not empty has a least element: the picks by
\* CHOOSE of the next slot and the best category are defined.
LEMMA LeastNatural ==
    ASSUME NEW S \in SUBSET Nat, S # {}
    PROVE  \E n \in S : \A m \in S : n <= m
<1>1. IsWellFoundedOn(OpToRel(<, Nat), Nat)
  BY NatLessThanWellFounded
<1>2. PICK n \in S : \A m \in S : ~(<<m, n>> \in OpToRel(<, Nat))
  BY <1>1, WFMin
<1>3. \A m \in S : ~(m < n)
  BY <1>2 DEF OpToRel
<1> QED
  BY <1>3

\* Every slot is of one of three kinds.
LEMMA Kinds ==
    ASSUME NEW s \in Slots
    PROVE  /\ KindOf(s) \in {"evening", "food", "daytime"}
           /\ KindOf(s) = "evening" <=> s = 6
           /\ KindOf(s) = "food" <=> s \in {2, 5}
  BY DEF Slots, KindOf, Evening

\* The state's numbers are in range.
LEMMA TypeFacts ==
    ASSUME TypeOK
    PROVE  /\ numDays \in Nat \ {0} /\ day \in 1..(numDays + 1) /\ day \in Nat
           /\ slot \in Slots /\ diverse \in BOOLEAN /\ Indoor \in BOOLEAN
<1>1. numDays \in TripLengths /\ slot \in Slots /\ diverse \in BOOLEAN
  BY DEF TypeOK
<1>2. numDays \in Nat \ {0}
  BY <1>1, TripSelectionOK
<1>3. day \in 1..(numDays + 1)
  BY Zenon DEF TypeOK
<1>4. day \in Nat
  BY <1>2, <1>3
<1> QED
  BY <1>1, <1>2, <1>3, <1>4 DEF Indoor

\* The plan asks for food at lunch and dinner, for an activity in the evening
\* and for a daytime category otherwise (build_trip_slot_plan).
LEMMA PlannedCategory ==
    ASSUME NEW s \in Slots, NEW d \in Nat, NEW div \in BOOLEAN
    PROVE  /\ KindOf(s) = "evening" => SlotCategory(div, d, s) = "activity"
           /\ KindOf(s) = "food" => SlotCategory(div, d, s) = "food"
           /\ KindOf(s) = "daytime" => SlotCategory(div, d, s) \in Daytime
<1>1. \A i \in 1..4 : Ranking[i] \in Daytime
  BY TripSelectionOK
<1>2. CASE s = 4
  BY <1>1, <1>2 DEF SlotCategory, BaseCategory, KindOf, Evening
<1>3. CASE s # 4
  BY <1>1, <1>3 DEF SlotCategory, BaseCategory, KindOf, Evening, Slots
<1> QED
  BY <1>2, <1>3

\* The next slot exists (the loops over days and items).
LEMMA AdvanceType ==
    ASSUME TypeOK, day <= numDays, Advance
    PROVE  day' \in 1..(numDays + 1) /\ slot' \in Slots
<1>1. numDays \in Nat \ {0} /\ day \in 1..numDays /\ slot \in Slots
  BY TypeFacts
<1>2. CASE \E s \in SlotsOf(day) : s > slot
  <2> DEFINE S == {s \in SlotsOf(day) : s > slot}
  <2>1. S \subseteq Slots /\ S \subseteq Nat /\ S # {}
    BY <1>2 DEF SlotsOf, Slots, Evening
  <2>2. PICK n \in S : \A m \in S : n <= m
    BY <2>1, LeastNatural
  <2>3. \E s \in SlotsOf(day) :
            s > slot /\ \A r \in SlotsOf(day) : r > slot => s <= r
    BY <2>2
  <2>4. slot' \in SlotsOf(day) /\ day' = day
    BY <1>2, <2>3 DEF Advance
  <2> QED
    BY <1>1, <2>4 DEF SlotsOf, Slots, Evening
<1>3. CASE ~ \E s \in SlotsOf(day) : s > slot
  BY <1>1, <1>3 DEF Advance, Slots
<1> QED
  BY <1>2, <1>3

\* The rule path only chooses places that suit the slot, also when it falls
\* back to the next category (take, pool_for).
LEMMA RuleSuits ==
    ASSUME TypeOK,
           NEW c \in RuleCategories(KindOf(slot), SlotCategory(diverse, day, slot), Indoor),
           NEW p \in RuleChoices(KindOf(slot), c, Indoor)
    PROVE  Suits(p, c)
<1>1. slot \in Slots /\ diverse \in BOOLEAN /\ day \in Nat
  BY TypeFacts
<1>2. p \in Eligible(KindOf(slot), c, Indoor) \ Used
  BY DEF RuleChoices, RulePool, Top
<1>3. c \in (IF KindOf(slot) = "daytime" THEN Daytime
            ELSE {SlotCategory(diverse, day, slot)})
  BY DEF RuleCategories
<1>4. /\ KindOf(slot) = "evening" => c = "activity"
      /\ KindOf(slot) = "food" => c = "food"
      /\ KindOf(slot) = "daytime" => c \in Daytime
  BY <1>1, <1>3, PlannedCategory
<1> QED
  BY <1>2, <1>4 DEF Suits

\* The daytime pool of the model path merges at most the four categories.
LEMMA MergedAtMostFour ==
    ASSUME NEW indoor \in BOOLEAN
    PROVE  MergedCategories(indoor) \in 1..4
<1> DEFINE least == IF diverse THEN 4 ELSE 2
           Enough(n) == n = 4 \/ Cardinality(DaytimePlaces(n, indoor)) >= 3
           S == {n \in least..4 : Enough(n)}
<1>1. least \in {2, 4} /\ 4 \in S /\ S \subseteq Nat
  OBVIOUS
<1>2. PICK n \in S : \A m \in S : n <= m
  BY <1>1, LeastNatural
<1>3. ASSUME NEW m \in least..(n - 1)
      PROVE  Cardinality(DaytimePlaces(m, indoor)) < 3
  <2>1. m \notin S /\ m \in least..4
    BY <1>1, <1>2
  <2>2. DaytimePlaces(m, indoor) \subseteq Places
    BY DEF DaytimePlaces, Eligible
  <2>3. Cardinality(DaytimePlaces(m, indoor)) \in Nat
    BY <2>2, TripSelectionOK, FS_Subset, FS_CardinalityType
  <2> QED
    BY <2>1, <2>3
<1>4. \E k \in least..4 :
          /\ k = 4 \/ Cardinality(DaytimePlaces(k, indoor)) >= 3
          /\ \A m \in least..(k - 1) : Cardinality(DaytimePlaces(m, indoor)) < 3
  BY <1>2, <1>3
<1>5. MergedCategories(indoor) \in least..4
  BY <1>4 DEF MergedCategories
<1> QED
  BY <1>1, <1>5

\* The model path only chooses places that suit the slot, under the category
\* it labels them with (generate_itinerary, select_trip_by_model).
LEMMA ModelSuits ==
    ASSUME TypeOK, NEW p \in ModelChoices(KindOf(slot), Indoor)
    PROVE  Suits(p, ModelCategory(KindOf(slot), Indoor, p))
<1> DEFINE kind == KindOf(slot)
           c == ModelCategory(kind, Indoor, p)
<1>1. slot \in Slots /\ Indoor \in BOOLEAN
  BY TypeFacts
<1>2. p \in ModelPool(kind, Indoor) /\ p \notin Used
  BY DEF ModelChoices
<1>3. CASE kind = "evening"
  BY <1>2, <1>3 DEF ModelPool, ModelCategory, Suits
<1>4. CASE kind = "food"
  BY <1>2, <1>4 DEF ModelPool, ModelCategory, Suits
<1>5. CASE kind = "daytime"
  <2> DEFINE S == {i \in 1..4 : p \in Eligible("daytime", Ranking[i], Indoor)}
  <2>1. p \in DaytimePlaces(MergedCategories(Indoor), Indoor)
    BY <1>2, <1>5 DEF ModelPool
  <2>2. S # {} /\ S \subseteq Nat
    BY <2>1, <1>1, MergedAtMostFour DEF DaytimePlaces
  <2>3. PICK n \in S : \A m \in S : n <= m
    BY <2>2, LeastNatural
  <2>4. \E i \in 1..4 :
            /\ p \in Eligible("daytime", Ranking[i], Indoor)
            /\ \A j \in 1..(i - 1) : p \notin Eligible("daytime", Ranking[j], Indoor)
    BY <2>3
  <2>5. PICK i \in 1..4 : c = Ranking[i] /\ p \in Eligible("daytime", Ranking[i], Indoor)
    BY <2>4, <1>5 DEF ModelCategory
  <2>6. c \in Daytime
    BY <2>5, TripSelectionOK
  <2> QED
    BY <1>2, <1>5, <2>5, <2>6 DEF Suits
<1> QED
  BY <1>1, <1>3, <1>4, <1>5, Kinds
-----------------------------------------------------------------------------
\* The name of an entry of the trip for the current slot.
Entry(p, c) == [place |-> p, day |-> day, slot |-> slot, category |-> c]

\* Filling the current slot with a place that suits it.
LEMMA FillKeeps ==
    ASSUME Inv, day <= numDays, NEW p, NEW c, Suits(p, c), Fill(p, c)
    PROVE  Inv'
<1> DEFINE e == Entry(p, c)
<1>1. /\ trip' = trip \cup {e} /\ Advance
      /\ path' = path /\ numDays' = numDays /\ diverse' = diverse
      /\ weather' = weather /\ skipped' = skipped
  BY DEF Fill, request, Entry
<1>2. /\ e.place = p /\ e.category = c /\ e.day = day /\ e.slot = slot
  BY DEF Entry
<1>3. /\ p \in Places \ Avoided /\ p \notin Used /\ c \in CategoriesOf[p]
      /\ Indoor => p \notin Outdoor
      /\ KindOf(slot) = "evening" => p \in Night
      /\ KindOf(slot) = "daytime" /\ c = "activity" => p \notin Night
  BY DEF Suits, Eligible
<1>4. /\ KindOf(slot) = "evening" => c = "activity"
      /\ KindOf(slot) = "food" => c = "food"
      /\ KindOf(slot) = "daytime" => c \in Daytime
  BY DEF Suits
<1>5. day \in 1..numDays /\ slot \in Slots /\ c \in Categories
  BY <1>3, TypeFacts, TripSelectionOK DEF Inv
<1>6. TypeOK'
  <2>1. e \in [place : Places, day : 1..numDays, slot : Slots, category : Categories]
    BY <1>3, <1>5 DEF Entry
  <2>2. trip' \subseteq [place : Places, day : 1..numDays', slot : Slots, category : Categories]
    BY <1>1, <2>1 DEF Inv, TypeOK
  <2>3. day' \in 1..(numDays' + 1) /\ slot' \in Slots
    BY <1>1, AdvanceType DEF Inv
  <2> QED
    BY <1>1, <2>2, <2>3, Zenon DEF Inv, TypeOK
<1>7. NoPlaceTwice'
  <2>1. \A f \in trip : f.place # e.place
    BY <1>2, <1>3 DEF Used
  <2> QED
    BY <1>1, <2>1, Zenon DEF Inv, NoPlaceTwice
<1>8. ExclusionsKept'
  BY <1>1, <1>2, <1>3, Zenon DEF Inv, ExclusionsKept, Indoor
<1>9. FilledRight'
  BY <1>1, <1>2, <1>3, <1>4, Zenon DEF Inv, FilledRight
<1>10. IsFiniteSet(trip')
  BY <1>1, FS_AddElement DEF Inv
<1> QED
  BY <1>6, <1>7, <1>8, <1>9, <1>10 DEF Inv

\* Skipping the current slot.
LEMMA SkipKeeps ==
    ASSUME Inv, day <= numDays, Skip
    PROVE  Inv'
<1>1. /\ trip' = trip /\ Advance /\ skipped' = skipped \cup {<<day, slot>>}
      /\ path' = path /\ numDays' = numDays /\ diverse' = diverse /\ weather' = weather
  BY DEF Skip, request
<1>2. day \in 1..numDays /\ slot \in Slots
  BY TypeFacts DEF Inv
<1>3. day' \in 1..(numDays' + 1) /\ slot' \in Slots
  BY <1>1, AdvanceType DEF Inv
<1>4. skipped' \subseteq (1..numDays') \X Slots
  <2>1. <<day, slot>> \in (1..numDays') \X Slots
    BY <1>1, <1>2
  <2>2. skipped \subseteq (1..numDays') \X Slots
    BY <1>1 DEF Inv, TypeOK
  <2> QED
    BY <1>1, <2>1, <2>2
<1>5. TypeOK'
  BY <1>1, <1>3, <1>4, Zenon DEF Inv, TypeOK
<1>6. NoPlaceTwice' /\ ExclusionsKept' /\ FilledRight' /\ IsFiniteSet(trip')
  BY <1>1 DEF Inv, NoPlaceTwice, ExclusionsKept, FilledRight
<1> QED
  BY <1>5, <1>6 DEF Inv

\* Every step keeps the invariant.
LEMMA StepKeeps ==
    ASSUME Inv, [Next]_vars
    PROVE  Inv'
<1>1. CASE RuleFills
  <2>1. day <= numDays
    BY <1>1 DEF RuleFills
  <2>2. CASE \E c \in RuleCategories(KindOf(slot), SlotCategory(diverse, day, slot), Indoor) :
                \E p \in RuleChoices(KindOf(slot), c, Indoor) : Fill(p, c)
    BY <2>1, <2>2, RuleSuits, FillKeeps DEF Inv
  <2>3. CASE Skip
    BY <2>1, <2>3, SkipKeeps
  <2> QED
    BY <1>1, <2>2, <2>3 DEF RuleFills
<1>2. CASE ModelFills
  <2>1. day <= numDays
    BY <1>2 DEF ModelFills
  <2>2. CASE \E p \in ModelChoices(KindOf(slot), Indoor) :
                Fill(p, ModelCategory(KindOf(slot), Indoor, p))
    BY <2>1, <2>2, ModelSuits, FillKeeps DEF Inv
  <2>3. CASE Skip
    BY <2>1, <2>3, SkipKeeps
  <2> QED
    BY <1>2, <2>2, <2>3 DEF ModelFills
<1>3. CASE JudgeModel
  <2>1. numDays' = numDays /\ diverse' = diverse /\ weather' = weather
    BY <1>3 DEF JudgeModel, request
  <2>2. CASE path' = "modelDone" /\ UNCHANGED <<day, slot, trip, skipped>>
    BY <2>1, <2>2, Zenon DEF Inv, TypeOK, NoPlaceTwice, ExclusionsKept, FilledRight
  <2>3. CASE path' = "rule" /\ day' = 1 /\ slot' = 1 /\ trip' = {} /\ skipped' = {}
    <3>1. day' \in 1..(numDays' + 1) /\ slot' \in Slots
      BY <2>1, <2>3, TypeFacts DEF Inv, Slots
    <3>2. TypeOK'
      BY <2>1, <2>3, <3>1, Zenon DEF Inv, TypeOK
    <3> QED
      BY <2>3, <3>2, FS_EmptySet DEF Inv, NoPlaceTwice, ExclusionsKept, FilledRight
  <2> QED
    BY <1>3, <2>2, <2>3 DEF JudgeModel
<1>4. CASE RuleEnds
  BY <1>4, Zenon DEF RuleEnds, request, Inv, TypeOK, NoPlaceTwice, ExclusionsKept, FilledRight
<1>5. CASE UNCHANGED vars
  BY <1>5, Zenon DEF vars, request, Inv, TypeOK, NoPlaceTwice, ExclusionsKept, FilledRight
<1> QED
  BY <1>1, <1>2, <1>3, <1>4, <1>5 DEF Next

\* The empty trip satisfies the invariant.
LEMMA StartKeeps ==
    ASSUME Init
    PROVE  Inv
<1>1. numDays \in Nat \ {0}
  BY TripSelectionOK DEF Init
<1>2. day \in 1..(numDays + 1) /\ slot \in Slots
  BY <1>1 DEF Init, Slots
<1>3. TypeOK
  BY <1>2, Zenon DEF Init, TypeOK
<1> QED
  BY <1>3, FS_EmptySet DEF Init, Inv, NoPlaceTwice, ExclusionsKept, FilledRight

\* The invariant holds in every reachable state.
LEMMA Invariance == Spec => []Inv
  BY StartKeeps, StepKeeps, PTL DEF Spec
-----------------------------------------------------------------------------
\* Every variable keeps its shape: each place is noted for a slot that a day of
\* the trip may have.
THEOREM TypesHold == Spec => []TypeOK
<1>1. Inv => TypeOK
  BY DEF Inv
<1> QED
  BY <1>1, Invariance, PTL

\* No place turns up twice in a trip of any length, in any region, whichever
\* of the overlapping pools of a path it comes from.
THEOREM PlacesDistinct == Spec => []NoPlaceTwice
<1>1. Inv => NoPlaceTwice
  BY DEF Inv
<1> QED
  BY <1>1, Invariance, PTL

\* Deal breakers and bad weather hold for every place of every trip, on both
\* paths, after fallbacks and after a model trip was thrown away.
THEOREM ExclusionsHold == Spec => []ExclusionsKept
<1>1. Inv => ExclusionsKept
  BY DEF Inv
<1> QED
  BY <1>1, Invariance, PTL

\* Every place is shown under a category of its own; lunch and dinner are food.
THEOREM LabelsHold == Spec => []LabelsTrue
<1>1. ASSUME Inv
      PROVE  LabelsTrue
  <2>1. SUFFICES ASSUME NEW e \in trip
                 PROVE  /\ e.category \in CategoriesOf[e.place]
                        /\ KindOf(e.slot) = "food" <=> e.category = "food"
    BY DEF LabelsTrue
  <2>2. e.slot \in Slots
    BY <1>1 DEF Inv, TypeOK
  <2>3. KindOf(e.slot) \in {"evening", "food", "daytime"}
    BY <2>2, Kinds
  <2> QED
    BY <1>1, <2>3 DEF Inv, FilledRight, Daytime
<1> QED
  BY <1>1, Invariance, PTL

\* The counts of routes[] are those of the daytime places: a night type under
\* the category activity only comes from the evening pool.
THEOREM CountsHold == Spec => []TasteCountsDaytime
<1>1. ASSUME Inv
      PROVE  TasteCountsDaytime
  <2> DEFINE taste == {Ranking[1], Ranking[2]}
             P == {e \in Counted : e.category \in taste}
             D == {e \in Counted : e.category \notin taste}
             byDay == {e \in trip : KindOf(e.slot) = "daytime"}
  <2>1. ASSUME NEW e \in trip
        PROVE  e.category # "food" /\ ~IsEveningPlace(e) <=> KindOf(e.slot) = "daytime"
    <3>1. e.slot \in Slots
      BY <1>1 DEF Inv, TypeOK
    <3>2. KindOf(e.slot) \in {"evening", "food", "daytime"}
      BY <3>1, Kinds
    <3> QED
      BY <1>1, <3>2 DEF Inv, FilledRight, IsEveningPlace, Daytime
  <2>2. Counted = byDay
    BY <2>1 DEF Counted
  <2>3. IsFiniteSet(P) /\ IsFiniteSet(D)
    BY <1>1, FS_Subset DEF Inv, Counted
  <2>4. P \cup D = byDay /\ P \cap D = {}
    BY <2>2
  <2>5. Cardinality(P \cup D) = Cardinality(P) + Cardinality(D) - Cardinality(P \cap D)
    BY <2>3, FS_Union
  <2>6. Cardinality(P) \in Nat /\ Cardinality(D) \in Nat /\ Cardinality({}) = 0
    BY <2>3, FS_CardinalityType, FS_EmptySet
  <2>7. Cardinality(byDay) = Cardinality(P) + Cardinality(D)
    <3> HIDE DEF P, D, byDay
    <3>1. Cardinality(P \cap D) = 0
      BY <2>4, <2>6
    <3>2. Cardinality(P \cup D) = Cardinality(P) + Cardinality(D)
      BY <2>5, <2>6, <3>1
    <3> QED
      BY <2>4, <3>2
  <2> QED
    BY <2>7 DEF TasteCountsDaytime, PreferenceCount, DiscoveryCount
<1> QED
  BY <1>1, Invariance, PTL
-----------------------------------------------------------------------------
(***************************************************************************)
(* No slot is lost.                                                        *)
(***************************************************************************)
\* The slots of the plan before a day and a slot of it.
Before(d, s) == {x \in PlanSlots : x[1] < d \/ (x[1] = d /\ x[2] < s)}

FilledSlots == {<<e.day, e.slot>> : e \in trip}

\* The loops stand at a slot of the plan, or behind its last day.
PlaceInv ==
    /\ day <= numDays => slot \in SlotsOf(day)
    /\ day > numDays => slot = 1
    /\ Done => day > numDays

SlotInv == Inv /\ PlaceInv /\ SlotsSettled

\* A plan is finite.
LEMMA PlanFinite ==
    ASSUME Inv
    PROVE  IsFiniteSet(PlanSlots)
<1>1. numDays \in Nat
  BY TypeFacts DEF Inv
<1>2. IsFiniteSet(1..numDays) /\ IsFiniteSet(Slots)
  <2>1. IsFiniteSet(1..numDays)
    BY <1>1, FS_Interval
  <2>2. IsFiniteSet(1..6)
    <3>1. 1 \in Int /\ 6 \in Int
      OBVIOUS
    <3> QED
      BY <3>1, FS_Interval, Zenon
  <2> QED
    BY <2>1, <2>2 DEF Slots
<1>3. IsFiniteSet((1..numDays) \X Slots)
  BY <1>2, FS_Product
<1>4. PlanSlots \in SUBSET ((1..numDays) \X Slots)
  BY DEF PlanSlots
<1> QED
  BY <1>3, <1>4, FS_Subset

\* What is filled and skipped is what the loops have passed.
LEMMA SettledBefore ==
    SlotsSettled <=>
        /\ FilledSlots \cup skipped = Before(day, slot)
        /\ FilledSlots \cap skipped = {}
        /\ Cardinality(FilledSlots) = Cardinality(trip)
        /\ Done => Before(day, slot) = PlanSlots
  BY DEF SlotsSettled, FilledSlots, Before

\* The loops go from slot to slot and miss none (the loops over days and
\* items).
LEMMA AdvancePasses ==
    ASSUME Inv, PlaceInv, day <= numDays, Advance, numDays' = numDays
    PROVE  /\ <<day, slot>> \in PlanSlots \ Before(day, slot)
           /\ Before(day', slot') = Before(day, slot) \cup {<<day, slot>>}
           /\ day' <= numDays => slot' \in SlotsOf(day')
           /\ day' > numDays => slot' = 1
<1>1. /\ numDays \in Nat \ {0} /\ day \in 1..numDays /\ day \in Nat /\ slot \in SlotsOf(day)
      /\ slot \in Slots
  BY TypeFacts DEF Inv, PlaceInv
<1>2. \A d : SlotsOf(d) \subseteq Slots /\ Slots \subseteq Nat
  BY DEF SlotsOf, Slots, Evening
<1>3. <<day, slot>> \in PlanSlots
  BY <1>1 DEF PlanSlots
<1>4. <<day, slot>> \notin Before(day, slot)
  BY <1>1, <1>2 DEF Before
<1>5. ASSUME NEW x \in PlanSlots
      PROVE  x = <<x[1], x[2]>> /\ x[1] \in 1..numDays /\ x[2] \in SlotsOf(x[1]) /\ x[2] \in Nat /\ x[1] \in Nat
  BY <1>1, <1>2 DEF PlanSlots
<1>6. CASE \E s \in SlotsOf(day) : s > slot
  <2> DEFINE S == {s \in SlotsOf(day) : s > slot}
  <2>1. S \subseteq Nat /\ S # {}
    BY <1>2, <1>6
  <2>2. PICK n \in S : \A m \in S : n <= m
    BY <2>1, LeastNatural
  <2>3. \E s \in SlotsOf(day) : s > slot /\ \A r \in SlotsOf(day) : r > slot => s <= r
    BY <2>2
  <2>4. /\ day' = day /\ slot' \in SlotsOf(day) /\ slot' > slot
        /\ \A r \in SlotsOf(day) : r > slot => slot' <= r
    BY <1>6, <2>3 DEF Advance
  <2>5. PICK t : t = slot'
    OBVIOUS
  <2>6. t \in Nat /\ slot \in Nat
    BY <1>1, <1>2, <2>4, <2>5
  <2>7. ASSUME NEW x \in PlanSlots
        PROVE  (x[1] < day \/ (x[1] = day /\ x[2] < t))
                 <=> ((x[1] < day \/ (x[1] = day /\ x[2] < slot)) \/ x = <<day, slot>>)
    <3>1. CASE x[1] = day
      <4>1. x[2] \in SlotsOf(day) /\ x[2] \in Nat
        BY <1>5, <3>1
      <4>2. x[2] < t <=> x[2] < slot \/ x[2] = slot
        BY <2>4, <2>5, <2>6, <4>1
      <4> QED
        BY <1>1, <1>5, <3>1, <4>2
    <3>2. CASE x[1] # day
      BY <3>2
    <3> QED
      BY <3>1, <3>2
  <2>8. Before(day, t) = Before(day, slot) \cup {<<day, slot>>}
    BY <1>3, <2>7 DEF Before
  <2> QED
    BY <1>1, <1>3, <1>4, <2>4, <2>5, <2>8
<1>7. CASE ~ \E s \in SlotsOf(day) : s > slot
  <2>1. day' = day + 1 /\ slot' = 1
    BY <1>7 DEF Advance
  <2>2. ASSUME NEW x \in PlanSlots
        PROVE  (x[1] < day + 1 \/ (x[1] = day + 1 /\ x[2] < 1))
                 <=> ((x[1] < day \/ (x[1] = day /\ x[2] < slot)) \/ x = <<day, slot>>)
    <3>1. x[2] \in 1..6
      BY <1>2, <1>5 DEF Slots
    <3>2. CASE x[1] = day
      <4>1. x[2] < slot \/ x[2] = slot
        BY <1>1, <1>2, <1>5, <1>7, <3>2
      <4> QED
        BY <1>1, <1>5, <3>1, <3>2, <4>1
    <3>3. CASE x[1] # day
      BY <1>1, <1>5, <3>1, <3>3
    <3> QED
      BY <3>2, <3>3
  <2>3. Before(day + 1, 1) = Before(day, slot) \cup {<<day, slot>>}
    BY <1>3, <2>2 DEF Before
  <2>4. day + 1 <= numDays => 1 \in SlotsOf(day + 1)
    BY DEF SlotsOf, Slots, Evening
  <2> QED
    BY <1>3, <1>4, <2>1, <2>3, <2>4
<1> QED
  BY <1>6, <1>7

\* Filling the current slot settles it.
LEMMA FillSettles ==
    ASSUME SlotInv, day <= numDays, path \in {"rule", "model"}, NEW p, NEW c, Fill(p, c)
    PROVE  (PlaceInv /\ SlotsSettled)'
<1> DEFINE e == Entry(p, c)
<1>1. /\ trip' = trip \cup {e} /\ Advance /\ path' = path /\ numDays' = numDays
      /\ skipped' = skipped /\ e.day = day /\ e.slot = slot
  BY DEF Fill, request, Entry
<1>2. /\ <<day, slot>> \in PlanSlots \ Before(day, slot)
      /\ Before(day', slot') = Before(day, slot) \cup {<<day, slot>>}
      /\ day' <= numDays => slot' \in SlotsOf(day')
      /\ day' > numDays => slot' = 1
  BY <1>1, AdvancePasses DEF SlotInv
<1>3. /\ FilledSlots \cup skipped = Before(day, slot)
      /\ FilledSlots \cap skipped = {}
      /\ Cardinality(FilledSlots) = Cardinality(trip)
  BY SettledBefore DEF SlotInv
<1>4. IsFiniteSet(trip) /\ IsFiniteSet(FilledSlots)
  <2>1. FilledSlots \in SUBSET PlanSlots
    BY <1>3 DEF Before
  <2> QED
    BY <2>1, PlanFinite, FS_Subset DEF SlotInv, Inv
<1>5. FilledSlots' = FilledSlots \cup {<<day, slot>>}
  <2>1. \A f \in trip \cup {e} : f \in trip \/ f = e
    OBVIOUS
  <2> HIDE DEF e
  <2> QED
    BY <1>1, <2>1 DEF FilledSlots
<1>6. <<day, slot>> \notin FilledSlots /\ <<day, slot>> \notin skipped
  BY <1>2, <1>3
<1>7. e \notin trip
  BY <1>1, <1>6 DEF FilledSlots
<1>8. Cardinality(FilledSlots \cup {<<day, slot>>}) = Cardinality(FilledSlots) + 1
      /\ Cardinality(trip \cup {e}) = Cardinality(trip) + 1
  BY <1>4, <1>6, <1>7, FS_AddElement
<1>9. PlaceInv'
  BY <1>1, <1>2 DEF PlaceInv, SlotsOf, Done
<1>10. SlotsSettled'
  <2> HIDE DEF e
  <2>1. (FilledSlots \cup skipped)' = Before(day', slot')
    BY <1>1, <1>2, <1>3, <1>5
  <2>2. Before(day', slot') = Before(day, slot)'
    BY <1>1 DEF Before, PlanSlots, SlotsOf
  <2>3. (FilledSlots \cap skipped)' = {}
    BY <1>1, <1>3, <1>5, <1>6
  <2>4. Cardinality(FilledSlots') = Cardinality(trip')
    BY <1>1, <1>3, <1>5, <1>8
  <2>5. ~Done'
    BY <1>1 DEF Done
  <2> QED
    BY <2>1, <2>2, <2>3, <2>4, <2>5 DEF SlotsSettled, FilledSlots, Before
<1> QED
  BY <1>9, <1>10

\* So does skipping it.
LEMMA SkipSettles ==
    ASSUME SlotInv, day <= numDays, path \in {"rule", "model"}, Skip
    PROVE  (PlaceInv /\ SlotsSettled)'
<1>1. /\ trip' = trip /\ Advance /\ path' = path /\ numDays' = numDays
      /\ skipped' = skipped \cup {<<day, slot>>}
  BY DEF Skip, request
<1>2. /\ <<day, slot>> \in PlanSlots \ Before(day, slot)
      /\ Before(day', slot') = Before(day, slot) \cup {<<day, slot>>}
      /\ day' <= numDays => slot' \in SlotsOf(day')
      /\ day' > numDays => slot' = 1
  BY <1>1, AdvancePasses DEF SlotInv
<1>3. /\ FilledSlots \cup skipped = Before(day, slot)
      /\ FilledSlots \cap skipped = {}
      /\ Cardinality(FilledSlots) = Cardinality(trip)
  BY SettledBefore DEF SlotInv
<1>4. PlaceInv'
  BY <1>1, <1>2 DEF PlaceInv, SlotsOf, Done
<1>5. SlotsSettled'
  <2>1. FilledSlots' = FilledSlots
    BY <1>1 DEF FilledSlots
  <2>2. Before(day', slot') = Before(day, slot)'
    BY <1>1 DEF Before, PlanSlots, SlotsOf
  <2>3. (FilledSlots \cup skipped)' = Before(day', slot') /\ (FilledSlots \cap skipped)' = {}
    BY <1>1, <1>2, <1>3, <2>1
  <2>4. Cardinality(FilledSlots') = Cardinality(trip') /\ ~Done'
    BY <1>1, <1>3, <2>1 DEF Done
  <2> QED
    BY <2>1, <2>2, <2>3, <2>4 DEF SlotsSettled, FilledSlots, Before
<1> QED
  BY <1>4, <1>5

\* Every step keeps the account of the slots.
LEMMA SlotStep ==
    ASSUME SlotInv, [Next]_vars
    PROVE  SlotInv'
<1>1. Inv'
  BY StepKeeps DEF SlotInv
<1>2. CASE RuleFills
  <2>1. day <= numDays /\ path = "rule"
    BY <1>2 DEF RuleFills
  <2>2. (\E p, c : Fill(p, c)) \/ Skip
    BY <1>2 DEF RuleFills
  <2> QED
    BY <1>1, <2>1, <2>2, FillSettles, SkipSettles DEF SlotInv
<1>3. CASE ModelFills
  <2>1. day <= numDays /\ path = "model"
    BY <1>3 DEF ModelFills
  <2>2. (\E p, c : Fill(p, c)) \/ Skip
    BY <1>3 DEF ModelFills
  <2> QED
    BY <1>1, <2>1, <2>2, FillSettles, SkipSettles DEF SlotInv
<1>4. ASSUME UNCHANGED <<request, day, slot, trip, skipped>>, day > numDays
      PROVE  (PlaceInv /\ SlotsSettled)'
  <2>1. FilledSlots \cup skipped = Before(day, slot) /\ FilledSlots \cap skipped = {}
        /\ Cardinality(FilledSlots) = Cardinality(trip)
    BY SettledBefore DEF SlotInv
  <2>2. FilledSlots' = FilledSlots /\ Before(day, slot)' = Before(day, slot) /\ PlanSlots' = PlanSlots
    BY <1>4 DEF FilledSlots, Before, PlanSlots, SlotsOf, request
  <2>3. Before(day, slot) = PlanSlots
    <3>1. numDays \in Nat /\ day \in Nat
      BY TypeFacts DEF SlotInv, Inv
    <3>2. \A x \in PlanSlots : x[1] < day
      BY <1>4, <3>1 DEF PlanSlots
    <3> QED
      BY <3>2 DEF Before
  <2>4. SlotsSettled'
    BY <1>4, <2>1, <2>2, <2>3 DEF SlotsSettled, FilledSlots, Before
  <2>5. PlaceInv'
    BY <1>4 DEF SlotInv, PlaceInv, SlotsOf, request
  <2> QED
    BY <2>4, <2>5
<1>5. CASE JudgeModel
  <2>1. CASE UNCHANGED <<day, slot, trip, skipped>>
    BY <1>1, <1>4, <1>5, <2>1 DEF JudgeModel, SlotInv
  <2>2. CASE path' = "rule" /\ day' = 1 /\ slot' = 1 /\ trip' = {} /\ skipped' = {}
    <3>1. numDays' = numDays /\ numDays \in Nat \ {0}
      BY <1>5, TypeFacts DEF JudgeModel, request, SlotInv, Inv
    <3>2. PlaceInv'
      BY <2>2, <3>1 DEF PlaceInv, SlotsOf, Slots, Evening, Done
    <3>3. FilledSlots' = {}
      BY <2>2 DEF FilledSlots
    <3>4. Before(day, slot)' = {}
      BY <2>2 DEF Before, PlanSlots, Slots
    <3>5. SlotsSettled'
      BY <2>2, <3>3, <3>4 DEF SlotsSettled, FilledSlots, Before, Done
    <3> QED
      BY <1>1, <3>2, <3>5 DEF SlotInv
  <2> QED
    BY <1>5, <2>1, <2>2 DEF JudgeModel
<1>6. CASE RuleEnds
  BY <1>1, <1>4, <1>6 DEF RuleEnds, SlotInv
<1>7. CASE UNCHANGED vars
  <2>1. PlaceInv' /\ SlotsSettled'
    BY <1>7 DEF vars, request, SlotInv, PlaceInv, SlotsSettled, Done, PlanSlots, SlotsOf
  <2> QED
    BY <1>1, <2>1 DEF SlotInv
<1> QED
  BY <1>2, <1>3, <1>5, <1>6, <1>7 DEF Next

\* The account of the slots holds in every reachable state.
LEMMA SlotInvariance == Spec => []SlotInv
<1>1. Init => SlotInv
  <2> SUFFICES ASSUME Init PROVE SlotInv
    OBVIOUS
  <2>1. Inv
    BY StartKeeps
  <2>2. numDays \in Nat \ {0} /\ day = 1 /\ slot = 1 /\ trip = {} /\ skipped = {} /\ ~Done
    BY <2>1, TypeFacts DEF Inv, Init, Done
  <2>3. PlaceInv
    BY <2>2 DEF PlaceInv, SlotsOf, Slots, Evening
  <2>4. FilledSlots = {} /\ Before(day, slot) = {}
    BY <2>2 DEF FilledSlots, Before, PlanSlots, Slots
  <2>5. SlotsSettled
    BY <2>2, <2>4 DEF SlotsSettled, FilledSlots, Before
  <2> QED
    BY <2>1, <2>3, <2>5 DEF SlotInv
<1> QED
  BY <1>1, SlotStep, PTL DEF Spec

\* The first n places in the order of the query are n, when there are as many.
LEMMA TopMany ==
    ASSUME NEW S \in SUBSET Places, NEW n \in Nat, Cardinality(S) >= n
    PROVE  Cardinality(Top(S, n)) >= n
<1> DEFINE Below(p) == {q \in S : Rank[q] < Rank[p]}
           N == Cardinality(S)
           r == [p \in S |-> Cardinality(Below(p))]
           T == Top(S, n)
           g == [p \in T |-> r[p]]
<1>1. IsFiniteSet(S) /\ N \in Nat
  BY TripSelectionOK, FS_Subset, FS_CardinalityType
<1>2. IsFiniteSet(0..(N - 1)) /\ Cardinality(0..(N - 1)) = N
  <2> HIDE DEF N
  <2>1. N - 1 \in Int
    BY <1>1
  <2> QED
    BY <1>1, <2>1, FS_Interval
<1>3. ASSUME NEW p \in S
      PROVE  Rank[p] \in Nat /\ IsFiniteSet(Below(p)) /\ Cardinality(Below(p)) \in 0..(N - 1)
  <2>1. Below(p) \in SUBSET S /\ p \in S /\ p \notin Below(p) /\ Rank[p] \in Nat
    BY TripSelectionOK
  <2>2. IsFiniteSet(Below(p)) /\ Cardinality(Below(p)) <= N /\ Cardinality(Below(p)) # N
    BY <1>1, <2>1, FS_Subset
  <2>3. Cardinality(Below(p)) \in Nat
    BY <2>2, FS_CardinalityType
  <2> QED
    BY <1>1, <2>1, <2>2, <2>3
<1>4. ASSUME NEW p \in S, NEW q \in S, Rank[p] < Rank[q]
      PROVE  Cardinality(Below(p)) # Cardinality(Below(q))
  <2>1. \A x \in S : Rank[x] \in Nat
    BY TripSelectionOK
  <2>2. \A x \in S : Rank[x] < Rank[p] => Rank[x] < Rank[q]
    BY <1>4, <2>1
  <2>3. p \in Below(q)
    BY <1>4
  <2>4. p \notin Below(p)
    BY <2>1
  <2>5. Below(p) \in SUBSET Below(q)
    BY <2>2
  <2>6. IsFiniteSet(Below(q))
    BY <1>3
  <2> QED
    BY <2>3, <2>4, <2>5, <2>6, FS_Subset
<1>5. r \in Injection(S, 0..(N - 1))
  <2>1. r \in [S -> 0..(N - 1)]
    BY <1>3
  <2>2. ASSUME NEW p \in S, NEW q \in S, r[p] = r[q]
        PROVE  p = q
    <3>1. Rank[p] \in Nat /\ Rank[q] \in Nat
      BY <1>3
    <3>2. ~(Rank[p] < Rank[q]) /\ ~(Rank[q] < Rank[p])
      BY <1>4, <2>2
    <3>3. Rank[p] = Rank[q]
      BY <3>1, <3>2
    <3> QED
      BY <3>3, TripSelectionOK
  <2> QED
    BY <2>1, <2>2 DEF Injection, IsInjective
<1>6. r \in Surjection(S, 0..(N - 1))
  BY <1>1, <1>2, <1>5, FS_Injection
<1>7. T = {p \in S : r[p] < n}
  BY DEF Top
<1>8. IsFiniteSet(T) /\ Cardinality(T) \in Nat
  <2>1. T \in SUBSET S
    BY <1>7
  <2> QED
    BY <1>1, <2>1, FS_Subset, FS_CardinalityType
<1>9. g \in Surjection(T, 0..(n - 1))
  <2>1. \A p \in S : r[p] \in 0..(N - 1)
    BY <1>3
  <2>2. \A i \in 0..(N - 1) : \E p \in S : r[p] = i
    BY <1>6 DEF Surjection
  <2> HIDE DEF r, T, N
  <2>3. g \in [T -> 0..(n - 1)]
    BY <1>1, <1>7, <2>1
  <2>4. ASSUME NEW i \in 0..(n - 1)
        PROVE  \E p \in T : g[p] = i
    <3>1. i \in 0..(N - 1)
      BY <1>1 DEF N
    <3>2. PICK p \in S : r[p] = i
      BY <2>2, <3>1
    <3>3. p \in T /\ g[p] = i
      BY <1>7, <3>2
    <3> QED
      BY <3>3
  <2> QED
    BY <2>3, <2>4 DEF Surjection
<1>10. Cardinality(0..(n - 1)) = n
  BY FS_Interval
<1> HIDE DEF g, T
<1>11. Cardinality(0..(n - 1)) <= Cardinality(T)
  BY <1>8, <1>9, FS_Surjection
<1> QED
  BY <1>8, <1>10, <1>11 DEF T

\* The rule path has no choice in a category only when its limited pool is used
\* up (take).
LEMMA NoChoiceUsedUp ==
    ASSUME NEW kind, NEW c, NEW indoor, RuleChoices(kind, c, indoor) = {}
    PROVE  RulePool(kind, c, indoor) \subseteq Used
<1> DEFINE Q == RulePool(kind, c, indoor) \ Used
<1>1. Q \subseteq Places
  BY DEF RulePool, Top, Eligible
<1>2. CASE Q = {}
  BY <1>2
<1>3. CASE Q # {}
  <2>1. {Rank[q] : q \in Q} \in SUBSET Nat /\ {Rank[q] : q \in Q} # {}
    BY <1>1, <1>3, TripSelectionOK
  <2>2. PICK m \in {Rank[q] : q \in Q} : \A k \in {Rank[q] : q \in Q} : m <= k
    BY <2>1, LeastNatural
  <2>3. PICK p \in Q : m = Rank[p]
    BY <2>2
  <2>4. \A q \in Q : Rank[p] <= Rank[q]
    BY <2>2, <2>3
  <2>5. {q \in Q : Rank[q] < Rank[p]} = {}
    <3>1. \A q \in Q : Rank[q] \in Nat
      BY <1>1, TripSelectionOK
    <3> QED
      BY <2>4, <3>1
  <2>6. Cardinality({q \in Q : Rank[q] < Rank[p]}) < PickWidth
    <3>1. PickWidth \in Nat \ {0}
      BY TripSelectionOK
    <3>2. Cardinality({}) < PickWidth
      BY <3>1, FS_EmptySet
    <3> QED
      BY <2>5, <3>2, Zenon
  <2>7. p \in RuleChoices(kind, c, indoor)
    BY <2>6 DEF RuleChoices, Top
  <2> QED
    BY <2>7
<1> QED
  BY <1>2, <1>3

\* The rule path finds no category only when none of those it may turn to has
\* a choice left (_build_fallback_order).
LEMMA NoCategoryNoChoice ==
    ASSUME NEW kind, NEW first \in Categories, NEW indoor, kind = "daytime" => first \in Daytime,
           RuleCategories(kind, first, indoor) = {},
           NEW c \in (IF kind = "daytime" THEN Daytime ELSE {first})
    PROVE  RuleChoices(kind, c, indoor) = {}
<1> DEFINE open == {d \in (IF kind = "daytime" THEN Daytime ELSE {first}) :
                      RuleChoices(kind, d, indoor) # {}}
<1>1. CASE kind # "daytime"
  BY <1>1 DEF RuleCategories
<1>2. CASE kind = "daytime"
  <2>1. ASSUME NEW d \in Daytime PROVE Position(d) \in 1..4
    <3>1. \E i \in 1..4 : Ranking[i] = d
      <4>1. /\ Ranking[1] \in Daytime /\ Ranking[2] \in Daytime
            /\ Ranking[3] \in Daytime /\ Ranking[4] \in Daytime
        BY TripSelectionOK
      <4>2. /\ Ranking[1] # Ranking[2] /\ Ranking[1] # Ranking[3] /\ Ranking[1] # Ranking[4]
            /\ Ranking[2] # Ranking[3] /\ Ranking[2] # Ranking[4] /\ Ranking[3] # Ranking[4]
        BY TripSelectionOK
      <4>3. d \in {Ranking[1], Ranking[2], Ranking[3], Ranking[4]}
        BY <4>1, <4>2 DEF Daytime
      <4> QED
        BY <4>3
    <3> QED
      BY <3>1 DEF Position
  <2>2. ASSUME NEW d \in Daytime PROVE FallbackRank(first, d) \in Nat
    BY <1>2, <2>1 DEF FallbackRank
  <2>3. ASSUME open # {} PROVE FALSE
    <3> DEFINE R == {FallbackRank(first, d) : d \in open}
    <3>1. R \in SUBSET Nat /\ R # {}
      BY <1>2, <2>2, <2>3
    <3>2. PICK m \in R : \A k \in R : m <= k
      BY <3>1, LeastNatural
    <3>3. PICK d \in open : m = FallbackRank(first, d)
      BY <3>2
    <3>4. \A other \in open : FallbackRank(first, d) <= FallbackRank(first, other)
      BY <3>2, <3>3
    <3>5. d \in RuleCategories(kind, first, indoor)
      BY <3>4 DEF RuleCategories
    <3> QED
      BY <3>5
  <2> QED
    BY <2>3
<1> QED
  BY <1>1, <1>2

\* A trip uses fewer places than its plan has slots while one is to be filled.
LEMMA UsedFew ==
    ASSUME SlotInv, day <= numDays
    PROVE  /\ IsFiniteSet(Used) /\ Cardinality(Used) \in Nat
           /\ Cardinality(PlanSlots) \in Nat
           /\ Cardinality(Used) < Cardinality(PlanSlots)
           /\ <<day, slot>> \in PlanSlots /\ <<day, slot>> \notin skipped
<1>1. /\ FilledSlots \cup skipped = Before(day, slot)
      /\ Cardinality(FilledSlots) = Cardinality(trip)
  BY SettledBefore DEF SlotInv
<1>2. <<day, slot>> \in PlanSlots /\ <<day, slot>> \notin Before(day, slot)
  <2>1. numDays \in Nat /\ day \in 1..numDays /\ slot \in SlotsOf(day) /\ slot \in Slots
    BY TypeFacts DEF SlotInv, Inv, PlaceInv
  <2> QED
    BY <2>1 DEF PlanSlots, Before, Slots
<1>3. IsFiniteSet(PlanSlots) /\ Cardinality(PlanSlots) \in Nat
  BY PlanFinite, FS_CardinalityType DEF SlotInv
<1>4. /\ FilledSlots \in SUBSET PlanSlots /\ FilledSlots # PlanSlots
  BY <1>1, <1>2 DEF Before
<1>5. /\ Cardinality(FilledSlots) <= Cardinality(PlanSlots) /\ Cardinality(FilledSlots) # Cardinality(PlanSlots)
      /\ IsFiniteSet(FilledSlots)
  BY <1>3, <1>4, FS_Subset
<1>6. Cardinality(FilledSlots) \in Nat
  BY <1>5, FS_CardinalityType
<1>7. IsFiniteSet(trip)
  BY DEF SlotInv, Inv
<1>8. [e \in trip |-> e.place] \in Surjection(trip, Used)
  BY DEF Surjection, Used
<1>9. IsFiniteSet(Used) /\ Cardinality(Used) <= Cardinality(trip)
  BY <1>7, <1>8, FS_Surjection
<1>10. Cardinality(Used) \in Nat
  BY <1>9, FS_CardinalityType
<1> QED
  BY <1>1, <1>2, <1>3, <1>5, <1>6, <1>9, <1>10

\* When the slots of other kinds are no more than what LIMIT spares, a limited
\* pool that is used up was the whole category (POOL_SPARE).
LEMMA LimitSpares ==
    ASSUME SlotInv, day <= numDays, NEW kind, NEW c, NEW indoor,
           Cardinality({y \in PlanSlots : KindOf(y[2]) # kind}) <= PickWidth + Spare,
           RulePool(kind, c, indoor) \subseteq Used
    PROVE  Eligible(kind, c, indoor) \subseteq Used
<1> DEFINE E == Eligible(kind, c, indoor)
           L == Limit(kind)
           own == {y \in PlanSlots : KindOf(y[2]) = kind}
           others == {y \in PlanSlots : KindOf(y[2]) # kind}
<1>1. E \in SUBSET Places
  BY DEF Eligible
<1>2. IsFiniteSet(PlanSlots)
  BY PlanFinite DEF SlotInv
<1>3. IsFiniteSet(own) /\ IsFiniteSet(others)
  <2>1. own \in SUBSET PlanSlots /\ others \in SUBSET PlanSlots
    OBVIOUS
  <2> QED
    BY <1>2, <2>1, FS_Subset
<1>4. Cardinality(own) \in Nat /\ Cardinality(others) \in Nat
  BY <1>3, FS_CardinalityType
<1>5. Cardinality(PlanSlots) = Cardinality(own) + Cardinality(others)
  <2>1. own \cup others = PlanSlots /\ own \cap others = {}
    OBVIOUS
  <2> HIDE DEF own, others
  <2>0. Cardinality(own) \in Nat /\ Cardinality(others) \in Nat /\ IsFiniteSet(own) /\ IsFiniteSet(others)
    BY <1>3, <1>4
  <2>2. Cardinality(own \cup others) = Cardinality(own) + Cardinality(others) - Cardinality(own \cap others)
    BY <2>0, FS_Union
  <2>3. Cardinality(own \cap others) = 0
    BY <2>1, FS_EmptySet
  <2>4. Cardinality(own \cup others) = Cardinality(own) + Cardinality(others)
    BY <2>0, <2>2, <2>3
  <2> QED
    BY <2>1, <2>4
<1>6. L = Cardinality(own) + PickWidth + Spare /\ L \in Nat
  BY <1>4, TripSelectionOK DEF Limit
<1>7. Cardinality(others) <= PickWidth + Spare
  OBVIOUS
<1> HIDE DEF own, others, L
<1>8. Cardinality(PlanSlots) <= L
  BY <1>4, <1>5, <1>6, <1>7, TripSelectionOK
<1>9. ASSUME NEW p \in E, p \notin Used PROVE FALSE
  <2> DEFINE B == {q \in E : Rank[q] < Rank[p]}
  <2>1. p \notin Top(E, L)
    BY <1>9 DEF RulePool, L
  <2>2. ~(Cardinality(B) < L)
    BY <2>1 DEF Top
  <2>3. IsFiniteSet(E) /\ Cardinality(E) \in Nat /\ IsFiniteSet(B) /\ Cardinality(B) \in Nat
    <3>1. IsFiniteSet(E)
      BY <1>1, TripSelectionOK, FS_Subset
    <3>2. B \in SUBSET E
      OBVIOUS
    <3>3. IsFiniteSet(B)
      BY <3>1, <3>2, FS_Subset
    <3> QED
      BY <3>1, <3>3, FS_CardinalityType
  <2>4. Cardinality(B) <= Cardinality(E)
    <3>1. B \in SUBSET E
      OBVIOUS
    <3> QED
      BY <2>3, <3>1, FS_Subset
  <2>5. Cardinality(E) >= L
    BY <1>6, <2>2, <2>3, <2>4
  <2>6. Cardinality(Top(E, L)) >= L
    BY <1>1, <1>6, <2>5, TopMany
  <2>7. Top(E, L) \in SUBSET Used
    BY DEF RulePool, L
  <2>8. Cardinality(Top(E, L)) <= Cardinality(Used)
    BY <2>7, UsedFew, FS_Subset
  <2>9. Cardinality(Top(E, L)) \in Nat
    BY <2>7, UsedFew, FS_Subset, FS_CardinalityType
  <2>10. Cardinality(Used) < Cardinality(PlanSlots) /\ Cardinality(Used) \in Nat
         /\ Cardinality(PlanSlots) \in Nat
    BY UsedFew
  <2> QED
    BY <1>6, <1>8, <2>6, <2>8, <2>9, <2>10
<1> QED
  BY <1>9

\* No slot of a plan is lost: each is filled or skipped once, in order, and the
\* rules skip one only when the database has no other place for it, although
\* every query has a LIMIT (place_selection.py, trip_rule.py).
THEOREM SlotsNeverLost == Spec => NoSlotLost
<1>1. SlotInv => SlotsSettled
  BY DEF SlotInv
<1>2. ASSUME SlotInv, [Next]_vars,
             NEW x \in skipped' \ skipped, path = "rule",
             Cardinality({y \in PlanSlots : KindOf(y[2]) # KindOf(x[2])}) <= PickWidth + Spare,
             NEW c \in (IF KindOf(x[2]) = "daytime" THEN Daytime
                        ELSE {SlotCategory(diverse, x[1], x[2])})
      PROVE  Eligible(KindOf(x[2]), c, x[1] \in weather) \subseteq Used
  <2>1. RuleFills
    BY <1>2 DEF Next, ModelFills, JudgeModel, RuleEnds, vars
  <2>2. day <= numDays /\ Skip
        /\ RuleCategories(KindOf(slot), SlotCategory(diverse, day, slot), Indoor) = {}
    BY <1>2, <2>1 DEF RuleFills, Fill
  <2>3. x = <<day, slot>>
    BY <1>2, <2>2 DEF Skip
  <2>4. slot \in Slots /\ diverse \in BOOLEAN /\ day \in Nat
    BY <1>2, TypeFacts DEF SlotInv, Inv
  <2>5. /\ SlotCategory(diverse, day, slot) \in Categories
        /\ KindOf(slot) = "daytime" => SlotCategory(diverse, day, slot) \in Daytime
    BY <2>4, Kinds, PlannedCategory DEF Categories, Daytime
  <2>6. c \in (IF KindOf(slot) = "daytime" THEN Daytime ELSE {SlotCategory(diverse, day, slot)})
    BY <2>3
  <2>7. RuleChoices(KindOf(slot), c, Indoor) = {}
    BY <2>2, <2>5, <2>6, NoCategoryNoChoice
  <2>8. RulePool(KindOf(slot), c, Indoor) \subseteq Used
    BY <2>7, NoChoiceUsedUp
  <2>9. Cardinality({y \in PlanSlots : KindOf(y[2]) # KindOf(slot)}) <= PickWidth + Spare
    BY <1>2, <2>3
  <2>10. Eligible(KindOf(slot), c, Indoor) \subseteq Used
    BY <1>2, <2>2, <2>8, <2>9, LimitSpares
  <2> QED
    BY <2>3, <2>10 DEF Indoor
<1>3. Spec => RuleSkipsOnlyIfExhausted
  <2>1. SlotInv /\ [Next]_vars =>
          [\A x \in skipped' \ skipped :
             LET kind == KindOf(x[2])
                 category == SlotCategory(diverse, x[1], x[2])
                 others == {y \in PlanSlots : KindOf(y[2]) # kind}
             IN  path = "rule" /\ Cardinality(others) <= PickWidth + Spare =>
                    \A c \in (IF kind = "daytime" THEN Daytime ELSE {category}) :
                       Eligible(kind, c, x[1] \in weather) \subseteq Used]_vars
    BY <1>2
  <2> QED
    BY <2>1, SlotInvariance, PTL DEF Spec, RuleSkipsOnlyIfExhausted
<1> QED
  BY <1>1, <1>3, SlotInvariance, PTL DEF NoSlotLost
-----------------------------------------------------------------------------
(***************************************************************************)
(* Three plans for one request.                                            *)
(***************************************************************************)
Active == {"working", "query", "calling"}
RunStateSets == [Runs -> RunStates]
PlanLists == Seq([plan : PoolRuns, by : {"rule", "model"}])

\* How the stage s of a request, its runs R and its results P fit together.
RunsFit(s, R) ==
    /\ s = "idle" => \A a \in Runs : R[a] = "none"
    /\ s # "idle" => \A a \in PoolRuns : R[a] # "none"
    /\ s \notin {"idle", "wait0", "raising", "error"} => R[0] = "done"
    /\ s = "fallback1" => R[1] = "failed"
    /\ s = "fallback2" => R[2] = "failed"
    /\ s \in {"idle", "wait0", "wait1"} => R[Fallback] = "none"
    /\ s \in {"wait2", "returning", "ok"} => R[Fallback] \in {"none", "done"}
    /\ s \in {"raising", "error"} =>
          /\ R[Fallback] \in Ended \cup {"none"}
          /\ R[0] = "failed" \/ R[Fallback] = "failed"
    /\ s \in Answered => \A a \in PoolRuns : R[a] \in Ended

PlansFit(s, R, P) ==
    /\ Len(P) <= 3
    /\ s \in {"idle", "wait0"} => Len(P) = 0
    /\ s \in {"wait1", "fallback1"} => Len(P) = 1
    /\ s \in {"wait2", "fallback2"} => Len(P) = 2
    /\ s \in {"returning", "ok"} => Len(P) = 3
    /\ \A k \in 1..Len(P) : P[k].plan = k - 1
    /\ Len(P) >= 1 => P[1].by = "rule"
    /\ \A k \in 2..Len(P) : R[k - 1] \in Ended /\ (P[k].by = "model" <=> R[k - 1] = "done")

Fits == \A r \in Requests : RunsFit(stage[r], run[r]) /\ PlansFit(stage[r], run[r], plans[r])

PlansInv == PlansTypeOK /\ ConnectionsAccounted /\ Fits
-----------------------------------------------------------------------------
\* A run that is active goes on: the request it belongs to still fits.
LEMMA RunGoesOn ==
    ASSUME NEW s \in Stages, NEW R \in RunStateSets, NEW P \in PlanLists,
           RunsFit(s, R), PlansFit(s, R, P),
           NEW a \in Runs, R[a] \in Active, NEW x \in Active \cup Ended,
           NEW S, S = [R EXCEPT ![a] = x]
    PROVE  RunsFit(s, S) /\ PlansFit(s, S, P)
<1>1. \A b \in Runs : S[b] = IF b = a THEN x ELSE R[b]
  BY DEF RunStateSets
<1>2. R[a] \notin Ended \cup {"none"} /\ x # "none"
  BY DEF Active, Ended
<1>3. 0 \in Runs /\ 1 \in Runs /\ 2 \in Runs /\ Fallback \in Runs /\ PoolRuns \subseteq Runs
  BY DEF Runs, PoolRuns, Model, Fallback
<1>4. RunsFit(s, S)
  <2>1. s # "idle"
    BY <1>2 DEF RunsFit
  <2>2. \A b \in PoolRuns : S[b] # "none"
    BY <1>1, <1>2, <1>3, <2>1 DEF RunsFit
  <2>3. \A b \in Runs : R[b] \in Ended => S[b] = R[b]
    BY <1>1, <1>2
  <2>4. \A b \in Runs : R[b] = "none" => S[b] = R[b]
    BY <1>1, <1>2
  <2> QED
    BY <1>3, <2>1, <2>2, <2>3, <2>4, Zenon DEF RunsFit, Ended
<1>5. PlansFit(s, S, P)
  <2>1. \A k \in 2..Len(P) : k - 1 \in Runs /\ S[k - 1] = R[k - 1]
    <3>0. Len(P) <= 3
      BY Zenon DEF PlansFit
    <3>1. Len(P) \in Nat /\ Len(P) <= 3
      BY <3>0 DEF PlanLists
    <3>2. \A k \in 2..Len(P) : k - 1 \in Runs
      BY <3>1 DEF Runs, PoolRuns, Model, Fallback
    <3> QED
      BY <3>2, <1>1, <1>2 DEF PlansFit
  <2> QED
    BY <2>1, Zenon DEF PlansFit
<1> QED
  BY <1>4, <1>5

\* The results P of a request and the next one.
Added(P, n, by) == Append(P, [plan |-> n, by |-> by])

\* A result is added to those of a request.
LEMMA ResultAdded ==
    ASSUME NEW P \in PlanLists, NEW n \in 0..2, NEW by \in {"rule", "model"}, Len(P) = n
    PROVE  /\ Added(P, n, by) \in PlanLists /\ Len(Added(P, n, by)) = n + 1
           /\ \A k \in 1..n : Added(P, n, by)[k] = P[k]
           /\ Added(P, n, by)[n + 1].plan = n /\ Added(P, n, by)[n + 1].by = by
<1>1. [plan |-> n, by |-> by] \in [plan : PoolRuns, by : {"rule", "model"}]
  BY DEF PoolRuns, Model
<1> QED
  BY <1>1 DEF PlanLists, Added

\* Plan n is the next result; the run that makes it has ended.
LEMMA NextResultFits ==
    ASSUME NEW P \in PlanLists, NEW n \in 0..2, NEW by \in {"rule", "model"}, Len(P) = n,
           NEW t, NEW R, PlansFit(t, R, P), R[n] \in Ended,
           n = 0 => by = "rule", n > 0 => (by = "model" <=> R[n] = "done"),
           NEW s, s \in {"wait1", "wait2", "returning"},
           s = "wait1" => n = 0, s = "wait2" => n = 1, s = "returning" => n = 2
    PROVE  PlansFit(s, R, Added(P, n, by))
<1> DEFINE Q == Added(P, n, by)
<1>1. /\ Q \in PlanLists /\ Len(Q) = n + 1
      /\ \A k \in 1..n : Q[k] = P[k]
      /\ Q[n + 1].plan = n /\ Q[n + 1].by = by
  <2>1. n \in 0..2 /\ by \in {"rule", "model"} /\ P \in PlanLists /\ Len(P) = n
    OBVIOUS
  <2> HIDE DEF Q
  <2>2. \A x \in 0..2, y \in {"rule", "model"} : Len(P) = x =>
            /\ Added(P, x, y) \in PlanLists /\ Len(Added(P, x, y)) = x + 1
            /\ \A k \in 1..x : Added(P, x, y)[k] = P[k]
            /\ Added(P, x, y)[x + 1].plan = x /\ Added(P, x, y)[x + 1].by = y
    BY ResultAdded
  <2> QED
    BY <2>1, <2>2, Zenon DEF Q
<1>2. /\ \A k \in 1..n : P[k].plan = k - 1
      /\ n >= 1 => P[1].by = "rule"
      /\ \A k \in 2..n : R[k - 1] \in Ended /\ (P[k].by = "model" <=> R[k - 1] = "done")
  BY Zenon DEF PlansFit
<1> HIDE DEF Q
<1>3. ASSUME NEW k \in 1..(n + 1)
      PROVE  Q[k].plan = k - 1
  BY <1>1, <1>2
<1>4. Q[1].by = "rule"
  BY <1>1, <1>2
<1>5. ASSUME NEW k \in 2..(n + 1)
      PROVE  R[k - 1] \in Ended /\ (Q[k].by = "model" <=> R[k - 1] = "done")
  <2>1. CASE k \in 2..n
    <3>1. Q[k] = P[k]
      BY <1>1, <2>1
    <3> QED
      BY <1>2, <2>1, <3>1
  <2>2. CASE k = n + 1
    <3>1. k - 1 = n /\ n > 0
      BY <2>2
    <3> QED
      BY <1>1, <2>2, <3>1
  <2> QED
    BY <2>1, <2>2
<1>6. /\ s = "wait1" => n + 1 = 1
      /\ s = "wait2" => n + 1 = 2
      /\ s = "returning" => n + 1 = 3
      /\ n + 1 <= 3
  OBVIOUS
<1>7. PlansFit(s, R, Q)
  BY <1>1, <1>3, <1>4, <1>5, <1>6, Zenon DEF PlansFit
<1> QED
  BY <1>7 DEF Q

\* There are four runs per request.
LEMMA RunsFinite == IsFiniteSet(Runs)
<1>1. Runs = 0..3
  BY DEF Runs, PoolRuns, Model, Fallback
<1>2. 0 \in Int /\ 3 \in Int
  OBVIOUS
<1>3. IsFiniteSet(0..3)
  BY <1>2, FS_Interval, Zenon
<1> QED
  BY <1>1, <1>3

\* The account of the pool when a run takes, gives back or does not touch a
\* connection.
LEMMA Accounts ==
    ASSUME PlansTypeOK, ConnectionsAccounted, NEW r \in Requests, NEW a \in Runs,
           NEW x \in RunStates, run' = [run EXCEPT ![r][a] = x],
           inUse' = inUse + (IF x = "query" THEN 1 ELSE 0)
                          - (IF run[r][a] = "query" THEN 1 ELSE 0)
    PROVE  ConnectionsAccounted'
<1>1. \A q \in Requests, b \in Runs :
          run'[q][b] = IF q = r /\ b = a THEN x ELSE run[q][b]
  BY DEF PlansTypeOK
<1>2. IsFiniteSet(Querying) /\ Cardinality(Querying) \in Nat
  <2>2. IsFiniteSet(Requests \X Runs)
    BY RunsFinite, TripPlansOK, FS_Product
  <2> QED
    BY <2>2, FS_Subset, FS_CardinalityType DEF Querying
<1> DEFINE y == <<r, a>>
<1>3. y \in Querying <=> run[r][a] = "query"
  BY DEF Querying
<1>4. inUse \in Nat /\ inUse = Cardinality(Querying)
  BY <1>2 DEF ConnectionsAccounted
<1>5. CASE x = "query"
  <2>1. Querying' = Querying \cup {y}
    BY <1>1, <1>5 DEF Querying
  <2>2. Cardinality(Querying') = IF y \in Querying THEN Cardinality(Querying)
                                                   ELSE Cardinality(Querying) + 1
    BY <2>1, <1>2, FS_AddElement
  <2> QED
    BY <2>2, <1>3, <1>4, <1>5 DEF ConnectionsAccounted
<1>6. CASE x # "query"
  <2>1. Querying' = Querying \ {y}
    BY <1>1, <1>6 DEF Querying
  <2>2. Cardinality(Querying') = IF y \in Querying THEN Cardinality(Querying) - 1
                                                   ELSE Cardinality(Querying)
    BY <2>1, <1>2, FS_RemoveElement
  <2> QED
    BY <2>2, <1>3, <1>4, <1>6 DEF ConnectionsAccounted
<1> QED
  BY <1>5, <1>6
-----------------------------------------------------------------------------
\* A step of a run keeps the invariant; x is the state it goes to.
LEMMA RunStepKeeps ==
    ASSUME PlansInv, NEW r \in Requests, NEW a \in Runs, run[r][a] \in Active,
           NEW x \in Active \cup Ended, Becomes(r, a, x),
           asked' \in [Requests -> [Runs -> 0..MaxQueries]],
           inUse' \in 0..MaxConnections,
           inUse' = inUse + (IF x = "query" THEN 1 ELSE 0)
                          - (IF run[r][a] = "query" THEN 1 ELSE 0),
           stage' = stage, plans' = plans
    PROVE  PlansInv'
<1>1. x \in RunStates /\ run' = [run EXCEPT ![r][a] = x]
  BY DEF Active, RunStates, Becomes
<1>2. run' \in [Requests -> RunStateSets]
  BY <1>1 DEF PlansInv, PlansTypeOK, RunStateSets
<1>3. PlansTypeOK'
  BY <1>2, Zenon DEF PlansInv, PlansTypeOK, RunStateSets
<1>4. ConnectionsAccounted'
  BY <1>1, Accounts DEF PlansInv
<1>5. ASSUME NEW q \in Requests
      PROVE  RunsFit(stage'[q], run'[q]) /\ PlansFit(stage'[q], run'[q], plans'[q])
  <2>1. /\ stage[q] \in Stages /\ run[q] \in RunStateSets /\ plans[q] \in PlanLists
        /\ RunsFit(stage[q], run[q]) /\ PlansFit(stage[q], run[q], plans[q])
    BY DEF PlansInv, PlansTypeOK, Fits, RunStateSets, PlanLists
  <2>2. CASE q = r
    <3>1. run'[q] = [run[q] EXCEPT ![a] = x]
      BY <1>1, <2>2 DEF PlansInv, PlansTypeOK
    <3> QED
      BY <2>1, <2>2, <3>1, RunGoesOn
  <2>3. CASE q # r
    <3>1. run'[q] = run[q]
      BY <1>1, <2>3 DEF PlansInv, PlansTypeOK
    <3> QED
      BY <2>1, <3>1
  <2> QED
    BY <2>2, <2>3
<1> QED
  BY <1>3, <1>4, <1>5 DEF PlansInv, Fits

\* Every step of a run is one of those.
LEMMA RunsKeep ==
    ASSUME PlansInv, NEW r \in Requests, RunStep(r)
    PROVE  PlansInv'
<1>1. PICK a \in Runs : \/ GetConnection(r, a) \/ NoConnection(r, a) \/ QueryEnds(r, a)
                        \/ QueriesDone(r, a) \/ ModelAnswers(r, a)
  BY DEF RunStep
<1>2. /\ asked \in [Requests -> [Runs -> 0..MaxQueries]] /\ inUse \in 0..MaxConnections
      /\ MaxQueries \in Nat /\ MaxConnections \in Nat
  BY TripPlansOK DEF PlansInv, PlansTypeOK
<1>3. ASSUME asked[r][a] < MaxQueries, asked' = [asked EXCEPT ![r][a] = @ + 1]
      PROVE  asked' \in [Requests -> [Runs -> 0..MaxQueries]]
  <2>1. asked[r][a] + 1 \in 0..MaxQueries
    BY <1>2, <1>3
  <2> QED
    BY <1>2, <1>3, <2>1
<1>4. CASE GetConnection(r, a)
  <2>1. asked' \in [Requests -> [Runs -> 0..MaxQueries]]
    BY <1>3, <1>4 DEF GetConnection
  <2>2. inUse' = inUse + 1 /\ inUse' \in 0..MaxConnections
    BY <1>2, <1>4 DEF GetConnection
  <2>3. /\ run[r][a] = "working" /\ Becomes(r, a, "query")
        /\ stage' = stage /\ plans' = plans
    BY <1>4 DEF GetConnection
  <2> QED
    BY <1>2, <2>1, <2>2, <2>3, RunStepKeeps DEF Active
<1>5. CASE NoConnection(r, a)
  <2>1. asked' \in [Requests -> [Runs -> 0..MaxQueries]]
    BY <1>3, <1>5 DEF NoConnection
  <2>2. /\ run[r][a] = "working" /\ Becomes(r, a, "failed")
        /\ stage' = stage /\ plans' = plans /\ inUse' = inUse
    BY <1>5 DEF NoConnection
  <2> QED
    BY <1>2, <2>1, <2>2, RunStepKeeps DEF Active, Ended
<1>6. CASE QueryEnds(r, a)
  <2>1. /\ run[r][a] = "query" /\ inUse' = inUse - 1
        /\ stage' = stage /\ plans' = plans /\ asked' = asked
    BY <1>6 DEF QueryEnds
  <2>2. inUse > 0
    <3>1. <<r, a>> \in Querying
      BY <2>1 DEF Querying
    <3>2. IsFiniteSet(Querying)
      BY RunsFinite, TripPlansOK, FS_Product, FS_Subset DEF Querying
    <3>3. Cardinality(Querying) # 0
      BY <3>1, <3>2, FS_EmptySet
    <3> QED
      BY <1>2, <3>3 DEF PlansInv, ConnectionsAccounted
  <2>3. PICK x \in {"working", "failed"} : Becomes(r, a, x)
    BY <1>6 DEF QueryEnds
  <2>4. x \in Active \cup Ended /\ x # "query" /\ run[r][a] \in Active
    BY <2>1 DEF Active, Ended
  <2> QED
    BY <1>2, <2>1, <2>2, <2>3, <2>4, RunStepKeeps
<1>7. CASE QueriesDone(r, a)
  <2>1. PICK x \in {"calling", "done"} : Becomes(r, a, x)
    BY <1>7 DEF QueriesDone
  <2>2. /\ run[r][a] = "working" /\ stage' = stage /\ plans' = plans
        /\ inUse' = inUse /\ asked' = asked
    BY <1>7 DEF QueriesDone
  <2>3. x \in Active \cup Ended /\ x # "query" /\ run[r][a] \in Active
    BY <2>2 DEF Active, Ended
  <2> QED
    BY <1>2, <2>1, <2>2, <2>3, RunStepKeeps
<1>8. CASE ModelAnswers(r, a)
  <2>1. PICK x \in {"done", "failed"} : Becomes(r, a, x)
    BY <1>8 DEF ModelAnswers
  <2>2. /\ run[r][a] = "calling" /\ stage' = stage /\ plans' = plans
        /\ inUse' = inUse /\ asked' = asked
    BY <1>8 DEF ModelAnswers
  <2>3. x \in Active \cup Ended /\ x # "query" /\ run[r][a] \in Active
    BY <2>2 DEF Active, Ended
  <2> QED
    BY <1>2, <2>1, <2>2, <2>3, RunStepKeeps
<1> QED
  BY <1>1, <1>4, <1>5, <1>6, <1>7, <1>8
-----------------------------------------------------------------------------
\* A step of the request thread keeps the invariant if it leaves the request
\* itself fitting and moves no connection.
LEMMA RequestStepKeeps ==
    ASSUME PlansInv, NEW r \in Requests, NEW s \in Stages, NEW R \in RunStateSets,
           NEW P \in PlanLists, RunsFit(s, R), PlansFit(s, R, P),
           \A a \in Runs : R[a] = "query" <=> run[r][a] = "query",
           stage' = [stage EXCEPT ![r] = s],
           run' = [run EXCEPT ![r] = R],
           plans' = [plans EXCEPT ![r] = P],
           asked' \in [Requests -> [Runs -> 0..MaxQueries]],
           inUse' = inUse
    PROVE  PlansInv'
<1>1. /\ stage \in [Requests -> Stages] /\ run \in [Requests -> RunStateSets]
      /\ plans \in [Requests -> PlanLists] /\ inUse \in 0..MaxConnections
  BY DEF PlansInv, PlansTypeOK, RunStateSets, PlanLists
<1>2. /\ stage' \in [Requests -> Stages] /\ run' \in [Requests -> RunStateSets]
      /\ plans' \in [Requests -> PlanLists]
  BY <1>1
<1>3. PlansTypeOK'
  BY <1>1, <1>2, Zenon DEF PlansTypeOK, RunStateSets, PlanLists
<1>4. \A q \in Requests :
          /\ stage'[q] = IF q = r THEN s ELSE stage[q]
          /\ run'[q] = IF q = r THEN R ELSE run[q]
          /\ plans'[q] = IF q = r THEN P ELSE plans[q]
  BY <1>1
<1>5. Fits'
  BY <1>4, Zenon DEF PlansInv, Fits
<1>6. Querying' = Querying
  BY <1>4 DEF Querying
<1>7. ConnectionsAccounted'
  BY <1>6 DEF PlansInv, ConnectionsAccounted
<1> QED
  BY <1>3, <1>5, <1>7 DEF PlansInv

\* The runs start.
LEMMA ArriveKeeps ==
    ASSUME PlansInv, NEW r \in Requests, Arrive(r)
    PROVE  PlansInv'
<1> DEFINE R == [a \in Runs |-> IF a = Fallback THEN "none" ELSE "working"]
           P == plans[r]
<1>1. /\ stage[r] = "idle" /\ stage' = [stage EXCEPT ![r] = "wait0"]
      /\ run' = [run EXCEPT ![r] = R] /\ asked' = asked /\ plans' = plans /\ inUse' = inUse
  BY DEF Arrive, GoTo
<1>2. /\ P \in PlanLists /\ plans' = [plans EXCEPT ![r] = P]
      /\ asked' \in [Requests -> [Runs -> 0..MaxQueries]]
  BY <1>1 DEF PlansInv, PlansTypeOK, PlanLists
<1>3. R \in RunStateSets /\ "wait0" \in Stages
  BY DEF RunStateSets, RunStates, Stages
<1>4. RunsFit("wait0", R)
  BY DEF RunsFit, Runs, PoolRuns, Model, Fallback, Answered
<1>5. /\ RunsFit("idle", run[r]) /\ PlansFit("idle", run[r], P)
  BY <1>1 DEF PlansInv, Fits
<1>6. PlansFit("wait0", R, P)
  <2>1. Len(P) = 0
    BY <1>5 DEF PlansFit
  <2> QED
    BY <2>1 DEF PlansFit
<1>7. \A a \in Runs : R[a] = "query" <=> run[r][a] = "query"
  BY <1>5 DEF RunsFit
<1> HIDE DEF R, P
<1> QED
  BY <1>1, <1>2, <1>3, <1>4, <1>6, <1>7, RequestStepKeeps

\* The request thread goes to stage s without a new run, with the results P.
LEMMA StageKeeps ==
    ASSUME PlansInv, NEW r \in Requests, NEW s \in Stages, NEW P \in PlanLists,
           RunsFit(s, run[r]), PlansFit(s, run[r], P),
           GoTo(r, s), plans' = [plans EXCEPT ![r] = P],
           UNCHANGED <<run, asked, inUse>>
    PROVE  PlansInv'
<1>1. /\ run[r] \in RunStateSets /\ run' = [run EXCEPT ![r] = run[r]]
      /\ asked' \in [Requests -> [Runs -> 0..MaxQueries]]
  BY DEF PlansInv, PlansTypeOK, RunStateSets
<1>2. stage' = [stage EXCEPT ![r] = s] /\ inUse' = inUse
  BY DEF GoTo
<1> QED
  BY <1>1, <1>2, RequestStepKeeps

\* The result of plan n is added, and the request goes on to stage s.
LEMMA AppendKeeps ==
    ASSUME PlansInv, NEW r \in Requests, NEW s \in Stages,
           NEW n \in 0..2, NEW by \in {"rule", "model"},
           RunsFit(s, run[r]), Len(plans[r]) = n, run[r][n] \in Ended,
           n = 0 => by = "rule", n > 0 => (by = "model" <=> run[r][n] = "done"),
           s \in {"wait1", "wait2", "returning"},
           s = "wait1" => n = 0, s = "wait2" => n = 1, s = "returning" => n = 2,
           GoTo(r, s), Append1(r, n, by),
           UNCHANGED <<run, asked, inUse>>
    PROVE  PlansInv'
<1> DEFINE Q == Added(plans[r], n, by)
<1>1. plans[r] \in PlanLists
  BY DEF PlansInv, PlansTypeOK, PlanLists
<1>2. PlansFit(stage[r], run[r], plans[r])
  BY DEF PlansInv, Fits
<1>3. Q \in PlanLists
  BY <1>1, ResultAdded
<1>4. PlansFit(s, run[r], Q)
  BY <1>1, <1>2, NextResultFits
<1>5. plans' = [plans EXCEPT ![r] = Q]
  BY DEF Append1, Added
<1> QED
  BY <1>3, <1>4, <1>5, StageKeeps

\* plan 0 is taken.
LEMMA TakeRuleKeeps ==
    ASSUME PlansInv, NEW r \in Requests, TakeRule(r)
    PROVE  PlansInv'
<1>1. /\ stage[r] = "wait0" /\ run[r][0] \in Ended /\ UNCHANGED <<run, asked, inUse>>
      /\ RunsFit("wait0", run[r]) /\ PlansFit("wait0", run[r], plans[r])
      /\ plans[r] \in PlanLists /\ Len(plans[r]) = 0
  <2>1. stage[r] = "wait0" /\ run[r][0] \in Ended /\ UNCHANGED <<run, asked, inUse>>
    BY DEF TakeRule
  <2>2. RunsFit("wait0", run[r]) /\ PlansFit("wait0", run[r], plans[r])
    BY <2>1 DEF PlansInv, Fits
  <2>3. plans[r] \in PlanLists
    BY DEF PlansInv, PlansTypeOK, PlanLists
  <2> QED
    BY <2>1, <2>2, <2>3 DEF PlansFit
<1>2. CASE run[r][0] = "done"
  <2>1. RunsFit("wait1", run[r])
    BY <1>1, <1>2 DEF RunsFit, Answered
  <2>2. GoTo(r, "wait1") /\ Append1(r, 0, "rule")
    BY <1>2 DEF TakeRule
  <2>3. "wait1" \in Stages /\ 0 \in 0..2
    BY DEF Stages
  <2> QED
    BY <1>1, <2>1, <2>2, <2>3, AppendKeeps
<1>3. CASE run[r][0] # "done"
  <2>1. RunsFit("raising", run[r])
    BY <1>1, <1>3 DEF RunsFit, Answered, Ended
  <2>2. PlansFit("raising", run[r], plans[r])
    BY <1>1 DEF PlansFit
  <2>3. GoTo(r, "raising") /\ plans' = plans
    BY <1>3 DEF TakeRule
  <2>4. plans' = [plans EXCEPT ![r] = plans[r]] /\ "raising" \in Stages
    BY <2>3 DEF PlansInv, PlansTypeOK, Stages
  <2> QED
    BY <1>1, <2>1, <2>2, <2>3, <2>4, StageKeeps
<1> QED
  BY <1>2, <1>3

\* The result of a model run is taken, or the rules start to make it.
LEMMA TakeModelKeeps ==
    ASSUME PlansInv, NEW r \in Requests, NEW i \in Model, TakeModel(r, i)
    PROVE  PlansInv'
<1>0. i \in 0..2 /\ i \in {1, 2} /\ i \in Runs
  BY DEF Model, Runs, PoolRuns
<1>1. stage[r] = Wait(i) /\ run[r][i] \in Ended /\ inUse' = inUse
  BY DEF TakeModel
<1>2. /\ i = 1 => Wait(i) = "wait1" /\ Make(i) = "fallback1" /\ After(i) = "wait2"
      /\ i = 2 => Wait(i) = "wait2" /\ Make(i) = "fallback2" /\ After(i) = "returning"
  BY DEF Wait, Make, After
<1>3. /\ RunsFit(Wait(i), run[r]) /\ PlansFit(Wait(i), run[r], plans[r])
      /\ plans[r] \in PlanLists /\ run[r] \in RunStateSets
      /\ plans \in [Requests -> PlanLists]
  BY <1>1 DEF PlansInv, Fits, PlansTypeOK, PlanLists, RunStateSets
<1>4. Len(plans[r]) = i
  BY <1>0, <1>2, <1>3 DEF PlansFit
<1>5. run[r][Fallback] \in {"none", "done"}
  BY <1>0, <1>2, <1>3 DEF RunsFit
<1>6. CASE run[r][i] = "done"
  <2>1. GoTo(r, After(i)) /\ Append1(r, i, "model") /\ UNCHANGED <<run, asked, inUse>>
    BY <1>1, <1>6 DEF TakeModel
  <2>2. RunsFit(After(i), run[r])
    BY <1>0, <1>2, <1>3, <1>5 DEF RunsFit, Answered
  <2>3. /\ After(i) \in Stages /\ After(i) \in {"wait1", "wait2", "returning"}
        /\ After(i) # "wait1" /\ (After(i) = "wait2" => i = 1)
        /\ (After(i) = "returning" => i = 2)
    BY <1>0, <1>2 DEF Stages
  <2>4. /\ "model" \in {"rule", "model"} /\ (i = 0 => "model" = "rule")
        /\ i > 0 => ("model" = "model" <=> run[r][i] = "done")
    BY <1>0, <1>6
  <2> QED
    BY <1>0, <1>1, <1>4, <2>1, <2>2, <2>3, <2>4, AppendKeeps, Zenon
<1>7. CASE run[r][i] # "done"
  <2> DEFINE R == [run[r] EXCEPT ![Fallback] = "working"]
             s == Make(i)
  <2>1. /\ GoTo(r, s) /\ run' = [run EXCEPT ![r][Fallback] = "working"]
        /\ asked' = [asked EXCEPT ![r][Fallback] = 0] /\ plans' = plans
    BY <1>7 DEF TakeModel
  <2>2. \A a \in Runs : R[a] = IF a = Fallback THEN "working" ELSE run[r][a]
    BY <1>3 DEF RunStateSets
  <2>3. /\ R \in RunStateSets /\ run' = [run EXCEPT ![r] = R]
        /\ plans' = [plans EXCEPT ![r] = plans[r]]
    BY <1>3, <2>1 DEF RunStateSets, RunStates
  <2>4. \A a \in PoolRuns : a \in Runs /\ a # Fallback
    BY DEF Runs, PoolRuns, Model, Fallback
  <2>5. \A a \in PoolRuns : R[a] = run[r][a]
    BY <2>2, <2>4
  <2>6. run[r][i] = "failed" /\ s \in {"fallback1", "fallback2"} /\ s \in Stages
    BY <1>0, <1>1, <1>2, <1>7 DEF Ended, Stages
  <2>7. 0 \in PoolRuns /\ 1 \in PoolRuns /\ 2 \in PoolRuns
    BY DEF PoolRuns, Model
  <2> HIDE DEF R
  <2>8. RunsFit(s, R)
    BY <1>0, <1>2, <1>3, <2>5, <2>6, <2>7 DEF RunsFit, Answered
  <2>9. PlansFit(s, R, plans[r])
    <3>1. \A k \in 2..Len(plans[r]) : R[k - 1] = run[r][k - 1]
      BY <1>0, <1>4, <2>5, <2>7
    <3> QED
      BY <1>0, <1>2, <1>3, <3>1 DEF PlansFit
  <2>10. \A a \in Runs : R[a] = "query" <=> run[r][a] = "query"
    BY <1>5, <2>2
  <2>11. asked' \in [Requests -> [Runs -> 0..MaxQueries]]
    <3>1. asked \in [Requests -> [Runs -> 0..MaxQueries]] /\ 0 \in 0..MaxQueries
      BY TripPlansOK DEF PlansInv, PlansTypeOK
    <3> QED
      BY <2>1, <3>1
  <2>12. stage' = [stage EXCEPT ![r] = s]
    BY <2>1 DEF GoTo
  <2> QED
    BY <1>1, <1>3, <2>3, <2>6, <2>8, <2>9, <2>10, <2>11, <2>12, RequestStepKeeps
<1> QED
  BY <1>6, <1>7

\* The plan that the rules made on the request thread is taken.
LEMMA TakeFallbackKeeps ==
    ASSUME PlansInv, NEW r \in Requests, NEW i \in Model, TakeFallback(r, i)
    PROVE  PlansInv'
<1>0. i \in 0..2 /\ i \in {1, 2}
  BY DEF Model
<1>1. /\ stage[r] = Make(i) /\ run[r][Fallback] \in Ended
      /\ UNCHANGED <<run, asked, inUse>>
  BY DEF TakeFallback
<1>2. /\ i = 1 => Make(i) = "fallback1" /\ After(i) = "wait2"
      /\ i = 2 => Make(i) = "fallback2" /\ After(i) = "returning"
  BY DEF Make, After
<1>3. /\ RunsFit(Make(i), run[r]) /\ PlansFit(Make(i), run[r], plans[r])
      /\ plans[r] \in PlanLists /\ plans \in [Requests -> PlanLists]
  BY <1>1 DEF PlansInv, Fits, PlansTypeOK, PlanLists
<1>4. Len(plans[r]) = i /\ run[r][i] = "failed"
  BY <1>0, <1>2, <1>3 DEF PlansFit, RunsFit
<1>5. CASE run[r][Fallback] = "done"
  <2>1. GoTo(r, After(i)) /\ Append1(r, i, "rule")
    BY <1>5 DEF TakeFallback
  <2>2. RunsFit(After(i), run[r])
    BY <1>0, <1>2, <1>3, <1>5 DEF RunsFit, Answered
  <2>3. /\ After(i) \in Stages /\ After(i) \in {"wait1", "wait2", "returning"}
        /\ After(i) # "wait1" /\ (After(i) = "wait2" => i = 1)
        /\ (After(i) = "returning" => i = 2)
    BY <1>0, <1>2 DEF Stages
  <2>4. run[r][i] \in Ended
    BY <1>4 DEF Ended
  <2> QED
    BY <1>0, <1>1, <1>4, <2>1, <2>2, <2>3, <2>4, AppendKeeps
<1>6. CASE run[r][Fallback] # "done"
  <2>1. GoTo(r, "raising") /\ plans' = [plans EXCEPT ![r] = plans[r]]
    BY <1>3, <1>6 DEF TakeFallback
  <2>2. RunsFit("raising", run[r])
    BY <1>0, <1>1, <1>2, <1>3, <1>6 DEF RunsFit, Answered, Ended
  <2>3. PlansFit("raising", run[r], plans[r]) /\ "raising" \in Stages
    BY <1>3 DEF PlansFit, Stages
  <2> QED
    BY <1>1, <1>3, <2>1, <2>2, <2>3, StageKeeps
<1> QED
  BY <1>5, <1>6

\* The request is answered when the pool threads have ended.
LEMMA LeaveKeeps ==
    ASSUME PlansInv, NEW r \in Requests, Leave(r)
    PROVE  PlansInv'
<1> DEFINE s == IF stage[r] = "returning" THEN "ok" ELSE "error"
<1>1. /\ stage[r] \in {"returning", "raising"} /\ GoTo(r, s)
      /\ \A a \in PoolRuns : run[r][a] \in Ended
      /\ UNCHANGED <<run, asked, plans, inUse>>
  BY DEF Leave
<1>2. /\ RunsFit(stage[r], run[r]) /\ PlansFit(stage[r], run[r], plans[r])
      /\ plans[r] \in PlanLists /\ plans' = [plans EXCEPT ![r] = plans[r]]
  BY <1>1 DEF PlansInv, Fits, PlansTypeOK, PlanLists
<1>3. s \in Stages /\ RunsFit(s, run[r])
  BY <1>1, <1>2 DEF RunsFit, Answered, Stages
<1>4. PlansFit(s, run[r], plans[r])
  BY <1>1, <1>2 DEF PlansFit
<1> QED
  BY <1>1, <1>2, <1>3, <1>4, StageKeeps

\* Nothing has begun.
LEMMA StartFits ==
    ASSUME PlansInit
    PROVE  PlansInv
<1>1. PlansTypeOK
  <2>1. 0 \in 0..MaxQueries /\ 0 \in 0..MaxConnections
    BY TripPlansOK
  <2>2. << >> \in PlanLists
    BY DEF PlanLists
  <2> QED
    BY <2>1, <2>2 DEF PlansInit, PlansTypeOK, Stages, RunStates, PlanLists
<1>2. ConnectionsAccounted
  <2>1. Querying = {}
    BY DEF PlansInit, Querying
  <2> QED
    BY <2>1, FS_EmptySet DEF PlansInit, ConnectionsAccounted
<1>3. Fits
  BY DEF PlansInit, Fits, RunsFit, PlansFit, Answered, Runs
<1> QED
  BY <1>1, <1>2, <1>3 DEF PlansInv

\* The invariant holds in every reachable state.
LEMMA PlansInvariance == PlansSpec => []PlansInv
<1>1. ASSUME PlansInv, [PlansNext]_plansVars
      PROVE  PlansInv'
  <2>1. CASE UNCHANGED plansVars
    BY <1>1, <2>1, Zenon DEF plansVars, PlansInv, PlansTypeOK, ConnectionsAccounted, Querying, Fits
  <2>2. CASE PlansNext
    <3>1. PICK r \in Requests : RunStep(r) \/ RequestStep(r)
      BY <2>2 DEF PlansNext
    <3>2. CASE RunStep(r)
      BY <1>1, <3>2, RunsKeep
    <3>3. CASE RequestStep(r)
      <4>1. \/ Arrive(r) \/ TakeRule(r) \/ Leave(r)
            \/ \E i \in Model : TakeModel(r, i) \/ TakeFallback(r, i)
        BY <3>3 DEF RequestStep
      <4> QED
        BY <1>1, <4>1, ArriveKeeps, TakeRuleKeeps, LeaveKeeps, TakeModelKeeps,
           TakeFallbackKeeps
    <3> QED
      BY <3>1, <3>2, <3>3
  <2> QED
    BY <1>1, <2>1, <2>2
<1> QED
  BY <1>1, StartFits, PTL DEF PlansSpec
-----------------------------------------------------------------------------
\* Every variable keeps its shape: however many threads ask, the pool never
\* counts more than its connections.
THEOREM PlansTypesHold == PlansSpec => []PlansTypeOK
<1>1. PlansInv => PlansTypeOK
  BY DEF PlansInv
<1> QED
  BY <1>1, PlansInvariance, PTL

\* Whatever fails on whichever thread, the pool counts exactly the
\* connections that queries hold.
THEOREM ConnectionsHold == PlansSpec => []ConnectionsAccounted
<1>1. PlansInv => ConnectionsAccounted
  BY DEF PlansInv
<1> QED
  BY <1>1, PlansInvariance, PTL

\* The answer holds the three plans in their places.
THEOREM StrategiesHold == PlansSpec => []StrategiesInPlace
<1>1. ASSUME PlansInv
      PROVE  StrategiesInPlace
  BY <1>1 DEF PlansInv, Fits, PlansFit, StrategiesInPlace
<1> QED
  BY <1>1, PlansInvariance, PTL

\* A model run that fails costs only its own plan, and only a run by the rules
\* fails a request.
THEOREM FailuresIsolated == PlansSpec => []FailureIsolated
<1>1. ASSUME PlansInv
      PROVE  FailureIsolated
  BY <1>1, Zenon DEF PlansInv, Fits, RunsFit, PlansFit, FailureIsolated
<1> QED
  BY <1>1, PlansInvariance, PTL

\* Nothing of a request goes on behind its answer.
THEOREM QuietAfterAnswer == PlansSpec => []NothingAfterAnswer
<1>1. ASSUME PlansInv
      PROVE  NothingAfterAnswer
  <2>1. SUFFICES ASSUME NEW r \in Requests, stage[r] \in Answered, NEW a \in Runs
                 PROVE  run[r][a] \in Ended \cup {"none"}
    BY DEF NothingAfterAnswer
  <2>2. RunsFit(stage[r], run[r])
    BY <1>1 DEF PlansInv, Fits
  <2>3. CASE a \in PoolRuns
    BY <2>1, <2>2, <2>3 DEF RunsFit
  <2>4. CASE a = Fallback
    BY <2>1, <2>2, <2>4 DEF RunsFit, Answered, Ended
  <2> QED
    BY <2>3, <2>4 DEF Runs
<1> QED
  BY <1>1, PlansInvariance, PTL

\* Sets of two and of three elements.
LEMMA SmallSets ==
    ASSUME NEW x, NEW y, NEW z
    PROVE  /\ IsFiniteSet({x, y}) /\ Cardinality({x, y}) \in 0..2
           /\ IsFiniteSet({x, y, z}) /\ Cardinality({x, y, z}) \in 0..3
<1>1. IsFiniteSet({x}) /\ Cardinality({x}) = 1
  BY FS_Singleton
<1>2. {x, y} = {x} \cup {y} /\ {x, y, z} = {x, y} \cup {z}
  OBVIOUS
<1>3. IsFiniteSet({x, y}) /\ Cardinality({x, y}) \in {1, 2}
  BY <1>1, <1>2, FS_AddElement
<1>4. IsFiniteSet({x, y, z}) /\ Cardinality({x, y, z}) \in {1, 2, 3}
  BY <1>2, <1>3, FS_AddElement
<1> QED
  BY <1>3, <1>4

\* Subsets of those.
LEMMA SmallSubsets ==
    ASSUME NEW x, NEW y, NEW z, NEW S
    PROVE  /\ S \subseteq {x, y} => Cardinality(S) \in 0..2
           /\ S \subseteq {x, y, z} => Cardinality(S) \in 0..3
<1>1. ASSUME NEW T, NEW n \in Nat, IsFiniteSet(T), Cardinality(T) \in 0..n, S \subseteq T
      PROVE  Cardinality(S) \in 0..n
  <2>1. IsFiniteSet(S) /\ Cardinality(S) <= Cardinality(T)
    BY <1>1, FS_Subset
  <2>2. Cardinality(S) \in Nat
    BY <2>1, FS_CardinalityType
  <2> QED
    BY <1>1, <2>1, <2>2
<1>2. 2 \in Nat /\ 3 \in Nat
  OBVIOUS
<1> QED
  BY <1>1, <1>2, SmallSets, Zenon

\* A request never holds more than three connections, nor more than two while
\* it makes a plan again.
THEOREM LoadHolds == PlansSpec => []FallbackAddsNoLoad
<1>1. ASSUME PlansInv, NEW r \in Requests
      PROVE  /\ Cardinality(Holders(r)) <= 3
             /\ stage[r] \in {"fallback1", "fallback2"} => Cardinality(Holders(r)) <= 2
  <2>1. RunsFit(stage[r], run[r]) /\ stage[r] \in Stages
    BY <1>1 DEF PlansInv, Fits, PlansTypeOK
  <2>2. Holders(r) \subseteq Runs /\ \A a \in Holders(r) : run[r][a] = "query"
    BY DEF Holders
  <2>3. Runs = {0, 1, 2, 3} /\ Fallback = 3 /\ PoolRuns = {0, 1, 2}
    BY DEF Runs, PoolRuns, Model, Fallback
  <2>4. CASE stage[r] = "fallback1"
    <3>1. Holders(r) \subseteq {2, 3}
      BY <2>1, <2>2, <2>3, <2>4 DEF RunsFit
    <3> QED
      BY <3>1, SmallSubsets
  <2>5. CASE stage[r] = "fallback2"
    <3>1. Holders(r) \subseteq {1, 3}
      BY <2>1, <2>2, <2>3, <2>5 DEF RunsFit
    <3> QED
      BY <3>1, SmallSubsets
  <2>6. CASE stage[r] \notin {"fallback1", "fallback2"}
    <3>1. run[r][3] \in Ended \cup {"none"}
      BY <2>1, <2>3, <2>6 DEF RunsFit, Stages, Ended
    <3>2. Holders(r) \subseteq {0, 1, 2}
      BY <2>2, <2>3, <3>1 DEF Ended
    <3> QED
      BY <2>6, <3>2, SmallSubsets
  <2> QED
    BY <2>4, <2>5, <2>6
<1>2. PlansInv => FallbackAddsNoLoad
  BY <1>1 DEF FallbackAddsNoLoad
<1> QED
  BY <1>2, PlansInvariance, PTL
=============================================================================
