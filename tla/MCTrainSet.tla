----------------------------- MODULE MCTrainSet -----------------------------
(* Constant values for model checking TrainSet: seven general candidates in  *)
(* two regions (two of one travel, two copies of one file, one whose file is *)
(* in the evaluation set, one of an evaluation travel, one of a blocked      *)
(* place) and three look-alike photos (two of one visit).                    *)
EXTENDS TrainSet, TLC

CONSTANTS g1, g2, g3, g4, g5, g6, g7, l1, l2, l3

MCTravel == g1 :> "t1" @@ g2 :> "t1" @@ g3 :> "t2" @@ g4 :> "t3" @@ g5 :> "t4"
            @@ g6 :> "te" @@ g7 :> "tb" @@ l1 :> "t5" @@ l2 :> "t5" @@ l3 :> "t1"
MCVisit == g1 :> 1 @@ g2 :> 2 @@ g3 :> 1 @@ g4 :> 1 @@ g5 :> 1 @@ g6 :> 1 @@ g7 :> 1
           @@ l1 :> 1 @@ l2 :> 1 @@ l3 :> 3
MCHash == g1 :> 1 @@ g2 :> 2 @@ g3 :> 3 @@ g4 :> 3 @@ g5 :> 5 @@ g6 :> 6 @@ g7 :> 7
          @@ l1 :> 11 @@ l2 :> 12 @@ l3 :> 13
MCCategory == [p \in General |-> "food"]
MCRegion == [p \in General |-> IF p \in {g3, g7} THEN "a" ELSE "b"]
MCPlace == l1 :> "A" @@ l2 :> "A" @@ l3 :> "B"
MCCategories == <<"food">>
MCRegions == <<"a", "b">>
MCLookQuota == <<[group |-> "old", place |-> "A", n |-> 2, visitCap |-> 2],
                 [group |-> "new", place |-> "B", n |-> 1, visitCap |-> 1]>>
MCPilotRoles == <<"photo_written">>
MCRoles == <<"photo_written", "photo_written">>
MCSpareRoles == <<"service_generate">>
MCCommands == {[spare |-> FALSE, swapping |-> "written", cap |-> 3, per_category |-> 2],
               [spare |-> TRUE, swapping |-> "success", cap |-> 0, per_category |-> 3]}
\* Two general photos of one travel and two look-alike photos of one visit only
\* differ by name.
MCSymmetry == Permutations({g1, g2}) \cup Permutations({l1, l2})
MCVerdicts == {[grade |-> "success", nearDup |-> FALSE, byRule |-> TRUE],
               [grade |-> "unclear", nearDup |-> FALSE, byRule |-> TRUE]}
=============================================================================
