---------------------------- MODULE MCEvalCases ----------------------------
(* Constant values for model checking EvalCases: two photos of set A, one of *)
(* them of a travel that set B has a photo of too, and two photos of set B   *)
(* in one region, one of which has no label.  The mission written for the    *)
(* labelled one fits it.                                                     *)
EXTENDS EvalCases, TLC

CONSTANTS a1, a2, b1, b2

MCLabelA == a1 :> "success" @@ a2 :> "success"
MCLabelB == b1 :> "fail"
MCLabelAug == b1 :> "success"
MCTravel == a1 :> "t1" @@ a2 :> "t2" @@ b1 :> "t1" @@ b2 :> "t3"
MCCategoryB == [p \in {b1, b2} |-> "food"]
MCRegionOf == b1 :> "x" @@ b2 :> "x"
MCRegions == <<"x">>
MCShuffled == 1 :> <<b1, b2>>
MCPlaceOf == a1 :> "moon" @@ a2 :> "pond"
MCRank == a1 :> 1 @@ a2 :> 1
MCOtherOf == a1 :> "pond" @@ a2 :> "hill"

Gen(out, prompt, size, cap) ==
  [out |-> out, prompt |-> prompt, size |-> size, seed |-> 1, cap |-> cap]
MCGenCommands == {Gen("missions", "", 1, 1), Gen("missions", "", 2, 0),
                  Gen("compare", "", 2, 0),
                  Gen("compare", "v1", 2, 0), Gen("compare", "current", 2, 0)}

Measure(prog, model, fmt, side, open, cap) ==
  [prog |-> prog, model |-> model, fmt |-> fmt, split |-> side, file |-> side # "none",
   open |-> open, cap |-> cap, perPlace |-> 1, all |-> open, look |-> open,
   positives |-> model = "lite", sets |-> {"B", "B_aug"}]
MCMeasureCommands ==
  {[Measure("b", "pro", "score", "none", TRUE, 0) EXCEPT !.sets = {"B_aug"}],
   Measure("a", "pro", "score", "dev", FALSE, 0), Measure("b", "pro", "score", "dev", FALSE, 0),
   Measure("a", "lite", "score", "none", TRUE, 1), Measure("b", "pro", "score", "none", TRUE, 0),
   Measure("a", "pro", "identify", "dev", FALSE, 0),
   Measure("a", "pro", "score", "final", FALSE, 0), Measure("b", "pro", "score", "none", FALSE, 0)}

Count(side, open, relabel) ==
  [progs |-> {"a", "b"}, split |-> side, file |-> side # "none", open |-> open, relabel |-> relabel]
MCCountCommands ==
  {Count("dev", FALSE, TRUE), Count("none", FALSE, FALSE), Count("none", TRUE, FALSE), Count("final", FALSE, FALSE)}
MCRelabel == <<"B", b1>> :> "unclear" @@ <<"A", a1>> :> "retry"
=============================================================================
