--------------------------- MODULE MCModelRelease ---------------------------
(* Constant values for model checking ModelRelease: three places, three      *)
(* travellers (one of them in the grown log only), codes of two levels.       *)
EXTENDS ModelRelease, TLC

V(tr, date, order, text, ok, region) ==
  [trip |-> tr, date |-> date, order |-> order, text |-> text, type_ok |-> TRUE,
   satisfied |-> ok, region |-> region]

First == {V(1, 1, 2, "market", TRUE, "jeju"), V(1, 1, 1, "inn", TRUE, "none"),
          V(2, 1, 1, "market", TRUE, "jeju"), V(2, 2, 1, "inn", FALSE, "jeju"),
          V(3, 1, 1, "inn", TRUE, "jeju"), V(4, 1, 1, "inn", TRUE, "jeju")}
Grown == First \cup {V(5, 1, 1, "market", TRUE, "jeju")}
Trip(t, p) == [traveler |-> t, preference |-> p]
Meta == 1 :> Trip("u", TRUE) @@ 2 :> Trip("v", TRUE) @@ 3 :> Trip("w", TRUE) @@ 4 :> Trip("u", FALSE)
MCLogs == {[visits |-> First, meta |-> Meta], [visits |-> Grown, meta |-> Meta @@ 5 :> Trip("x", TRUE)]}

MCParts == <<"train", "dev", "final">>
MCRatios == [train |-> 2, dev |-> 1, final |-> 1]

MCShuffles == {<<"u", "v", "w", "x">>, <<"x", "w", "v", "u">>}
MCDBs == {1 :> TRUE @@ 2 :> TRUE @@ 3 :> TRUE, 1 :> TRUE @@ 2 :> TRUE @@ 3 :> FALSE}
MCCodings == {1 :> <<0, 0>> @@ 2 :> <<0, b>> @@ 3 :> <<b, 0>> : b \in {0, 1}}
               \cup {1 :> <<0, 0>> @@ 2 :> <<0, 1>> @@ 3 :> <<0, 0>>}
MCNearest == {[t \in {"market", "inn"} |-> IF t = "inn" THEN [place |-> 2, near |-> n] ELSE [place |-> 1, near |-> TRUE]]
              : n \in BOOLEAN}

Pools == "day" :> {1, 2, 3} @@ "food" :> {2, 3} @@ "none" :> {}
Ask(plan, width, first_k) ==
  [days |-> TRUE, header |-> TRUE, seed |-> TRUE, width_int |-> TRUE, pools |-> Pools, plan |-> plan,
   width |-> width, first_k |-> first_k]
Good == {Ask(<<<<"day", "food">>, <<"day", "food">>>>, 1, 1), Ask(<<<<"day", "food">>, <<"food", "day">>>>, 2, 2),
         Ask(<<<<"none", "day">>>>, 30, 2), Ask(<<<<"day">>>>, 0, 0)}
Bad == {Ask(<<>>, 1, 1), Ask(<<<<"moon">>>>, 1, 1),
        [Ask(<<<<"day">>>>, 1, 1) EXCEPT !.width_int = FALSE],
        [Ask(<<<<"day">>>>, 1, 1) EXCEPT !.days = FALSE, !.seed = FALSE]}
MCPayloads == Good \cup Bad

\* Once the worker has started the version folder does not change any more,
\* and all its properties hold or fail before: states are then told apart by
\* what is served.
MCView == <<serving, IF worker = <<>> THEN semanticVars ELSE <<>>>>
=============================================================================
