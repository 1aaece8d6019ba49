----------------------------- MODULE Itinerary -----------------------------
(* The GPU worker that decodes itineraries: serving/runpod/handler.py with   *)
(* generation.py and decode.py.  The worker has loaded a bundle; a request   *)
(* names pools of candidates and, day by day, the pool of every slot, or     *)
(* lists the candidates of one day's slots.  One step decodes one slot.      *)
EXTENDS SemanticCodes

CONSTANTS
  Payloads,       \* [days, header, seed, width_int: is the field well-formed,
                  \*  pools, plan, width, first_k]
  Costs,          \* negated log probabilities of one token
  BEAM_CAP,       \* the widest beam, 20
  MAX_FIRST_K,
  MAX_TRIP_DAYS,
  MAX_DAY_SLOTS

ASSUME ItineraryAssumption ==
  /\ Costs \subseteq Int /\ BEAM_CAP \in Nat /\ MAX_FIRST_K \in Nat \ {0}
  /\ \A p \in Payloads : p.width_int => p.width \in Int /\ p.first_k \in Int

VARIABLES
  worker,   \* <<>> not started, else <<codes of its bundle>>
  request,  \* <<>> none, else <<[plan, width, first_k]>>
  trip,     \* the days so far: the place of each slot, or None
  answer    \* "none", "running", "days", "error", "raised"

serving == <<worker, request, trip, answer>>

None == 0
Codes == worker[1]
Candidates(d, i) == request[1].plan[d][i]

(* The days as pools of candidates, when the request is well-formed: every   *)
(* name is one of the pools, and days and slots are within the limits.       *)
resolve_days(p) == [d \in DOMAIN p.plan |-> [i \in DOMAIN p.plan[d] |-> p.pools[p.plan[d][i]]]]

Malformed(p) ==
  \/ ~p.header
  \/ p.days /\ Len(p.plan) \notin 1..MAX_TRIP_DAYS
  \/ \E d \in DOMAIN p.plan : \/ Len(p.plan[d]) \notin 1..MAX_DAY_SLOTS
                              \/ \E i \in DOMAIN p.plan[d] : p.plan[d][i] \notin DOMAIN p.pools

Least(a, b) == IF a < b THEN a ELSE b

(* What the handler answers before it decodes: the seed is looked at before  *)
(* the width in a request of days, behind it in one of slots, and a width    *)
(* that is no number raises.                                                 *)
FirstReply(p) ==
  IF Malformed(p) \/ (p.days /\ ~p.seed) THEN "error"
  ELSE IF ~p.width_int THEN "raised"
  ELSE IF ~p.seed THEN "error" ELSE "running"

Receive ==
  /\ worker # <<>> /\ request = <<>>
  /\ \E p \in Payloads :
       /\ answer' = FirstReply(p)
       /\ request' = <<[plan |-> IF FirstReply(p) = "running" THEN resolve_days(p) ELSE <<>>,
                        width |-> Least(p.width, BEAM_CAP),
                        first_k |-> IF p.first_k < 1 THEN 1 ELSE Least(p.first_k, MAX_FIRST_K)]>>
       /\ trip' = <<<<>>>>
  /\ UNCHANGED worker

(* The places of the days so far, of the whole trip. *)
Chosen == (UNION {Range(trip[d]) : d \in DOMAIN trip}) \ {None}

\* Mutant: every day starts with all candidates.
PoolOfDay(d, i) == {g \in Candidates(d, i) : g \in DOMAIN Codes /\ g \notin Range(trip[d])}

(* What is left of a slot's candidates. *)
Pool(d, i) == {g \in Candidates(d, i) : g \in DOMAIN Codes /\ g \notin Chosen}

Today == Len(trip)
NextSlot == Len(trip[Today]) + 1

(* The places a slot may get: the first slot of a day one of the best        *)
(* first_k, by the seed; any other the best of a beam.                       *)
Pick(d, i, cost) ==
  LET pool == [g \in Pool(d, i) |-> Codes[g]]
      randomize == i = 1 /\ request[1].first_k > 1
      ranking == IF Pool(d, i) = {} THEN {}
                 ELSE beam_search(pool, cost, IF randomize THEN request[1].first_k ELSE request[1].width)
  IN  IF ranking = {} THEN {None}
      ELSE {PlaceAt(pool, b.path) : b \in Leading(ranking, IF randomize THEN request[1].first_k ELSE 1)}

Costings == [build_trie(Codes) -> Costs]

(* A code out of range raises when the trie is built. *)
Raises(d, i) == \E g \in Pool(d, i) : ~InRange(Codes[g])

Slot ==
  /\ answer = "running" /\ NextSlot <= Len(request[1].plan[Today])
  /\ ~Raises(Today, NextSlot)
  /\ \E cost \in Costings : \E g \in Pick(Today, NextSlot, cost) :
       trip' = [trip EXCEPT ![Today] = Append(@, g)]
  /\ UNCHANGED <<worker, request, answer>>

SlotRaises ==
  /\ answer = "running" /\ NextSlot <= Len(request[1].plan[Today])
  /\ Raises(Today, NextSlot)
  /\ answer' = "raised"
  /\ UNCHANGED <<worker, request, trip>>

NextDay ==
  /\ answer = "running" /\ NextSlot > Len(request[1].plan[Today]) /\ Today < Len(request[1].plan)
  /\ trip' = Append(trip, <<>>)
  /\ UNCHANGED <<worker, request, answer>>

Reply ==
  /\ answer = "running" /\ NextSlot > Len(request[1].plan[Today]) /\ Today = Len(request[1].plan)
  /\ answer' = "days"
  /\ UNCHANGED <<worker, request, trip>>

(* The next request finds nothing of this one. *)
Finish ==
  /\ answer \in {"days", "error", "raised"}
  /\ request' = <<>> /\ trip' = <<>> /\ answer' = "none"
  /\ UNCHANGED worker

ServingInit == worker = <<>> /\ request = <<>> /\ trip = <<>> /\ answer = "none"

ServingNext == Receive \/ Slot \/ SlotRaises \/ NextDay \/ Reply \/ Finish

Earlier(t, s) == t[1] < s[1] \/ (t[1] = s[1] /\ t[2] < s[2])
Filled == UNION {{d} \X DOMAIN trip[d] : d \in DOMAIN trip}
PlaceOn(s) == trip[s[1]][s[2]]

(* Over the days of a trip no place comes twice, and each is a candidate of  *)
(* its own slot that the bundle has a code for (generation.py:42).           *)
TripDistinct ==
  \A s \in Filled : PlaceOn(s) # None =>
    /\ PlaceOn(s) \in Candidates(s[1], s[2]) \cap DOMAIN Codes
    /\ \A t \in Filled \ {s} : PlaceOn(t) # PlaceOn(s)

(* With a width of one or more a slot stays empty only when earlier slots    *)
(* have taken every candidate of it that has a code (generation.py:44).      *)
EmptyOnlyIfTaken ==
  request # <<>> /\ request[1].width >= 1 =>
    \A s \in Filled : PlaceOn(s) = None =>
      \A g \in Candidates(s[1], s[2]) \cap DOMAIN Codes :
        \E t \in Filled : Earlier(t, s) /\ PlaceOn(t) = g

(* A trip as it is decoded, the full slots and the empty ones.               *)
TripDecoded == TripDistinct /\ EmptyOnlyIfTaken
=============================================================================
