----------------------------- MODULE MCPrecheck -----------------------------
(* Small instances of Precheck: a region with two grids, like Jeju. *)
EXTENDS Precheck, TLC

CONSTANTS jeju, north, south, midKey

MCGrids == [r \in {jeju} |-> {north, south}]
MCMidKey == [r \in {jeju} |-> midKey]

Rain(amounts) == [rain |-> amounts, snow |-> <<>>]

\* Only the southern grid and the mid-term forecast warn.
MCWeather ==
    north :> Rain(<<100, 100, 90>>) @@ south :> Rain(<<100, 100, 100>>)
        @@ midKey :> [probabilities |-> {10, 60}, phrases |-> {"rain_likely"}]

\* A mid-term issue, after which its days start one later, or midnight lies
\* between the first look at the clock and the second.
At(hour, minute) == (24 + hour) * Hour + minute
MCStarts == {At(5, 31), At(17, 31), At(23, 31)}
=============================================================================
