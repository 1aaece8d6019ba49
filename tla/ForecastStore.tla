--------------------------- MODULE ForecastStore ---------------------------
(* What ForecastCache promises of a load that another may run beside: it is  *)
(* as if it took no time.  A value that is still good is used, otherwise one *)
(* is fetched and kept for a time to live, and a failure is not kept.        *)
EXTENDS Integers

CONSTANTS Clients, Keys, Ttl

VARIABLES clock, kept, loaded

Good(k) == clock < kept[k].until

Returns(c, k, result, value) ==
    loaded' = [loaded EXCEPT ![c][k] = [result |-> result, at |-> value.at, base |-> value.base]]

Use(c, k) == Good(k) /\ Returns(c, k, "ok", kept[k]) /\ UNCHANGED kept

Fetch(c, k) ==
    /\ ~Good(k)
    /\ kept'[k] \in [until : {clock + Ttl}, at : {clock}, base : Int]
    /\ kept' = [kept EXCEPT ![k] = kept'[k]]
    /\ Returns(c, k, "ok", kept'[k])

Fail(c, k) ==
    /\ ~Good(k)
    /\ \E how \in {"failed", "broken"} : Returns(c, k, how, [at |-> 0, base |-> 0])
    /\ UNCHANGED kept

Load(c, k) ==
    /\ loaded[c][k].result = "pending"
    /\ Use(c, k) \/ Fetch(c, k) \/ Fail(c, k)
    /\ UNCHANGED clock

Pass == clock' > clock /\ UNCHANGED <<kept, loaded>>

StoreInit ==
    /\ \A k \in Keys : ~Good(k)
    /\ \A c \in Clients, k \in Keys : loaded[c][k].result = "pending"

StoreNext == Pass \/ \E c \in Clients, k \in Keys : Load(c, k)

StoreSpec == StoreInit /\ [][StoreNext]_<<clock, kept, loaded>>
=============================================================================
