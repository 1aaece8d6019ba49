---------------------------- MODULE SemanticDays ----------------------------
(* From the travel log to the days a model learns from, and the parts the    *)
(* travellers are divided into: sequences.py, build_days.py, split.py, and   *)
(* the examples train_data.py makes of a day.                                *)
EXTENDS SemanticCodes

CONSTANTS
  SERVICE_REGIONS,  \* regions the service covers
  MAX_VISITS,       \* visits of a day that are used
  PARTS,            \* the parts in their order, the last one sealed
  RATIOS,           \* part -> its share, in parts of Shares
  Shares            \* so many

(* A visit of the log: [trip, date, order, text, type_ok, satisfied, region].*)
(* A day is what remains of a trip's date, in the order of its visits.       *)
group_days(visits) ==
  LET kept == {v \in visits : v.type_ok /\ v.satisfied}
      DayOf(key) == SetToSortSeq({v \in kept : <<v.trip, v.date>> = key},
                                 LAMBDA v, w : v.order < w.order)
  IN  [key \in {<<v.trip, v.date>> : v \in kept} |-> DayOf(key)]

(* The region of the first visit that has one. *)
day_region(rows) ==
  LET served == SelectSeq(rows, LAMBDA v : v.region \in SERVICE_REGIONS)
  IN  IF served = <<>> THEN "other" ELSE served[1].region

(* Days of trips with a traveller, a preference and a region of the service. *)
build_days(log) ==
  LET days == group_days(log.visits)
  IN  {[travel_id |-> key[1], traveler_id |-> log.meta[key[1]].traveler,
        region |-> day_region(days[key]), visits |-> [i \in DOMAIN days[key] |-> days[key][i].text]]
       : key \in {k \in DOMAIN days :
                    /\ k[1] \in DOMAIN log.meta /\ log.meta[k[1]].preference
                    /\ day_region(days[k]) \in SERVICE_REGIONS}}

traveler_regions_from_days(days) ==
  [t \in {d.traveler_id : d \in days} |->
     [r \in SERVICE_REGIONS |-> Cardinality({d \in days : d.traveler_id = t /\ d.region = r})]]

(* The sum of the squared gaps between the parts and their shares of what    *)
(* was seen, when part p takes the counts.  in_part: part -> region -> days. *)
Deviation(in_part, counts, p) ==
  LET Got(q, r) == in_part[q][r] + (IF q = p THEN counts[r] ELSE 0)
      Seen(r) == counts[r] + MapThenSumSet(LAMBDA q : in_part[q][r], Range(PARTS))
      Gap(q, r) == Shares * Got(q, r) - RATIOS[q] * Seen(r)
  IN  MapThenSumSet(LAMBDA x : Gap(x[1], x[2]) * Gap(x[1], x[2]), Range(PARTS) \X SERVICE_REGIONS)

(* The first part with the least deviation. *)
BestPart(in_part, counts) ==
  LET Cost(p) == Deviation(in_part, counts, p)
  IN  PARTS[CHOOSE i \in DOMAIN PARTS :
              \A j \in DOMAIN PARTS : \/ Cost(PARTS[i]) < Cost(PARTS[j])
                                      \/ Cost(PARTS[i]) = Cost(PARTS[j]) /\ i <= j]

(* The travellers, shuffled into order, are put one by one. *)
split_travelers(regions, order) ==
  LET Start == [in_part |-> [p \in Range(PARTS) |-> [r \in SERVICE_REGIONS |-> 0]], part |-> <<>>]
      Put(done, t) ==
        LET best == BestPart(done.in_part, regions[t])
        IN  [in_part |-> [done.in_part EXCEPT ![best] = [r \in SERVICE_REGIONS |-> @[r] + regions[t][r]]],
             part |-> (t :> best) @@ done.part]
  IN  FoldLeft(Put, Start, order).part

(* The days of the travellers of a part; the sealed part only when opened. *)
load_part(parted, part) == {t \in DOMAIN parted : parted[t] = part}

SealBroken(part, open_final) == part = "final" /\ ~open_final

iter_days(days, parted, part) == {d \in days : d.traveler_id \in load_part(parted, part)}

(* The first visits of a day as examples: the day is dropped when a visit is *)
(* not on the map or its place has no code; only visits near enough to their *)
(* place are learnt.                                                         *)
Used(d) == 1..(IF Len(d.visits) < MAX_VISITS THEN Len(d.visits) ELSE MAX_VISITS)

build_examples(days, visit_map, codes) ==
  {[traveler_id |-> d.traveler_id,
    gids |-> [i \in Used(d) |-> visit_map[d.visits[i]].place],
    targets |-> [i \in Used(d) |-> visit_map[d.visits[i]].near]]
   : d \in {e \in days : \A i \in Used(e) :
              e.visits[i] \in DOMAIN visit_map /\ visit_map[e.visits[i]].place \in DOMAIN codes}}

(* encode_day raises on the first code out of range. *)
EncodeRaises(examples, codes) ==
  \E e \in examples : \E i \in DOMAIN e.gids : ~InRange(codes[e.gids[i]])
=============================================================================
