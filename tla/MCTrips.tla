------------------------------- MODULE MCTrips -------------------------------
(***************************************************************************)
(* How the places of a trip are chosen, and how the plans of a request are *)
(* carried out, each on a small instance.  The two share no variable: each *)
(* moves while the other is still where it began.                          *)
(***************************************************************************)
EXTENDS TripSelection, TripPlans, TLC

CONSTANTS r1, r2

Region == [
    palace  |-> {"history"},
    tower   |-> {"history", "food"},
    museum  |-> {"history", "activity"},
    park    |-> {"nature"},
    bowling |-> {"activity"},
    mall    |-> {"shopping"},
    diner   |-> {"food"},
    picnic  |-> {"food", "nature"},
    church  |-> {"history", "food"},
    club1 |-> {"activity", "history"}, club2 |-> {"activity", "food"},
    club3 |-> {"activity"}, club4 |-> {"activity"}, club5 |-> {"activity"},
    club6 |-> {"activity"}, club7 |-> {"activity"} ]

MCPlaces == DOMAIN Region
MCClubs == {"club1", "club2", "club3", "club4", "club5", "club6", "club7"}
MCOrder == <<"club1", "club2", "tower", "palace", "museum", "park", "picnic", "church",
             "diner", "bowling", "mall", "club3", "club4", "club5", "club6", "club7">>
MCRank == [p \in MCPlaces |-> CHOOSE n \in 1..Len(MCOrder) : MCOrder[n] = p]
MCRanking == <<"history", "nature", "activity", "shopping">>
MCWeatherDays == {{}, {1}, {2}}

\* The trip of the rules in fair weather stands for all others while the plans
\* are carried out.
AtFirstTrip ==
    /\ path = "rule" /\ numDays = 1 /\ ~diverse /\ weather = {}
    /\ day = 1 /\ slot = 1 /\ trip = {} /\ skipped = {}

TripsInit == Init /\ PlansInit

TripsNext ==
    \/ PlansInit /\ Next /\ UNCHANGED plansVars
    \/ AtFirstTrip /\ PlansNext /\ UNCHANGED vars

TripsSpec == TripsInit /\ [][TripsNext]_<<vars, plansVars>> /\ Fairness
=============================================================================
