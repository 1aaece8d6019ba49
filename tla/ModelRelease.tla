---------------------------- MODULE ModelRelease ----------------------------
(* The scripts of the version folder and the worker that serves what they    *)
(* made: the image of the worker is built with the two files of the bundle.  *)
EXTENDS SemanticId, Itinerary

releaseVars == <<semanticVars, serving>>

(* The worker starts when both files can be read. *)
StartWorker ==
  /\ worker = <<>> /\ job = Idle
  /\ Whole("bundle_onnx") /\ Whole("bundle_codes")
  /\ worker' = <<Body("bundle_codes").codes>>
  /\ UNCHANGED <<semanticVars, request, trip, answer>>

ReleaseInit == SemanticInit /\ ServingInit

(* Bound: no script runs once the worker has started; the worker would not   *)
(* notice.                                                                   *)
ReleaseNext ==
  \/ worker = <<>> /\ SemanticNext /\ UNCHANGED serving
  \/ StartWorker
  \/ ServingNext /\ UNCHANGED semanticVars

ReleaseSpec == ReleaseInit /\ [][ReleaseNext]_releaseVars

(* The cost of the first n tokens of a code, and these tokens as a beam. *)
PathCost(cost, code, n) ==
  LET sum[i \in 0..Depth] == IF i = 0 THEN 0 ELSE sum[i - 1] + cost[SubSeq(code, 1, i)]
  IN  sum[n]

Prefix(cost, code, n) == [path |-> SubSeq(code, 1, n), cost |-> PathCost(cost, code, n)]

Fresh == worker # <<>> /\ request = <<>>

(* Whatever the model thinks of the tokens, the search finds places of the   *)
(* pool at what they cost, all of them or as many as the beam is wide; and   *)
(* it passes over a place only if on some level as many beginnings of codes  *)
(* as the beam is wide come before the beginning of its code, never when the *)
(* beam is as wide as the pool (decode.py:28).                               *)
BeamExact ==
  Fresh => \A P \in SUBSET DOMAIN Codes, width \in 1..Cardinality(DOMAIN Codes), cost \in Costings :
    LET found == beam_search([g \in P |-> Codes[g]], cost, width)
        Level(n) == {Prefix(cost, Codes[g], n) : g \in P}
    IN  /\ found \subseteq Level(Depth)
        /\ Cardinality(found) = Least(width, Cardinality(P))
        /\ \A g \in P : Prefix(cost, Codes[g], Depth) \notin found =>
             \E n \in 1..Depth : Cardinality(Ahead(Level(n), Prefix(cost, Codes[g], n))) >= width

(* Of the places of one code those with a token for every number, and so a   *)
(* slot to get, are the first MAX_COLLISION in the order of their keys, no    *)
(* more and no fewer, and no two places have the same code (codes.py:13,     *)
(* tokens.py:35): a larger group costs just what is beyond the tokens.       *)
CodesServable ==
  Whole("bundle_codes") /\ Whole("bundle_onnx") =>
    LET codes == Body("bundle_codes").codes
        learnt == Body("bundle_onnx").codes
    IN  /\ ~DictionaryRaises(codes)
        /\ \A g \in DOMAIN codes :
             InRange(codes[g]) <=>
               Cardinality({h \in DOMAIN learnt : h < g /\ Front(learnt[h]) = Front(codes[g])}) < MAX_COLLISION
=============================================================================
