-------------------------- MODULE MCPlaceCollector --------------------------
(* Constant values for model checking PlaceCollector. *)
EXTENDS PlaceCollector, TLC

CONSTANTS p1, p2

\* Two categories at one point, one of them at a second point as well.
MCCombos ==
    << [category |-> "FOOD", region |-> "SEOUL"],
       [category |-> "ACTIVITY", region |-> "SEOUL"],
       [category |-> "FOOD", region |-> "JEJU"] >>

\* The first two overlap; the third may find nothing, and lists places in
\* another order.
MCAnswers == << {<<p1, p2>>, <<p2>>}, {<<p1>>}, {<<>>, <<p2, p1>>} >>

MCTypeCount == p1 :> 2 @@ p2 :> 1

=============================================================================
