------------------------------ MODULE TripPlans ------------------------------
(***************************************************************************)
(* Three plans for one request, made side by side                          *)
(* (src/app/trips/services/trip_orchestrator.py, db.py; the queries are    *)
(* those of place_selection.get_DB_places_by_category).                    *)
(*                                                                         *)
(* Each request runs on a thread of the web server and starts three pool   *)
(* threads: plan 0 by the rules, plans 1 and 2 by the model.  It takes the *)
(* results in that order; in place of a model plan that failed, it makes   *)
(* one by the rules itself.  Every query takes a connection of the pool    *)
(* that all requests share, which refuses when all are in use.             *)
(*                                                                         *)
(* What the plans hold is the subject of TripSelection, and what a model   *)
(* call does that of ModelRouting.                                         *)
(***************************************************************************)
EXTENDS Integers, Sequences, FiniteSets

CONSTANTS
    Requests,        \* calls of POST /trips/place-selection
    MaxConnections,  \* maxconnections of the pool
    MaxQueries       \* bound on the queries of one run

ASSUME TripPlansOK ==
    /\ IsFiniteSet(Requests)
    /\ MaxConnections \in Nat \ {0}
    /\ MaxQueries \in Nat \ {0}

VARIABLES
    stage,    \* stage[r]: where the request thread is
    run,      \* run[r][a]: where the run of plan 0, 1 or 2, or the fallback is
    asked,    \* asked[r][a]: queries that run has started
    plans,    \* plans[r]: the results so far
    inUse     \* connections the pool counts as in use

plansVars == <<stage, run, asked, plans, inUse>>
-----------------------------------------------------------------------------
Model == {1, 2}
PoolRuns == {0} \cup Model
Fallback == 3          \* the run on the request thread itself
Runs == PoolRuns \cup {Fallback}

Stages == {"idle", "wait0", "wait1", "wait2", "fallback1", "fallback2",
           "returning", "raising", "ok", "error"}
Answered == {"ok", "error"}

\* The stages in which plan i is waited for, and made by the rules.
Wait(i) == <<"wait1", "wait2">>[i]
Make(i) == <<"fallback1", "fallback2">>[i]
After(i) == <<"wait2", "returning">>[i]

Ended == {"done", "failed"}
RunStates == {"none", "working", "query", "calling"} \cup Ended

\* The runs whose queries hold a connection: of one request, and of all.
Holders(r) == {a \in Runs : run[r][a] = "query"}
Querying == {x \in Requests \X Runs : run[x[1]][x[2]] = "query"}
-----------------------------------------------------------------------------
(***************************************************************************)
(* A run, on any of the threads.                                           *)
(***************************************************************************)
Becomes(r, a, state) == run' = [run EXCEPT ![r][a] = state]

\* get_connection: a connection is opened or taken from the idle ones.
GetConnection(r, a) ==
    /\ run[r][a] = "working" /\ asked[r][a] < MaxQueries
    /\ inUse < MaxConnections
    /\ inUse' = inUse + 1
    /\ asked' = [asked EXCEPT ![r][a] = @ + 1]
    /\ Becomes(r, a, "query")
    /\ UNCHANGED <<stage, plans>>

\* The pool refuses, or the database does.
NoConnection(r, a) ==
    /\ run[r][a] = "working" /\ asked[r][a] < MaxQueries
    /\ asked' = [asked EXCEPT ![r][a] = @ + 1]
    /\ Becomes(r, a, "failed")
    /\ UNCHANGED <<stage, plans, inUse>>

\* The rows arrive or an error is raised; finally gives the connection back.
QueryEnds(r, a) ==
    /\ run[r][a] = "query"
    /\ inUse' = inUse - 1
    /\ Becomes(r, a, "working") \/ Becomes(r, a, "failed")
    /\ UNCHANGED <<stage, asked, plans>>

\* All candidates are there, after one query at least: a rule run is done, a
\* model run calls the model.
QueriesDone(r, a) ==
    /\ run[r][a] = "working" /\ asked[r][a] > 0
    /\ Becomes(r, a, IF a \in Model THEN "calling" ELSE "done")
    /\ UNCHANGED <<stage, asked, plans, inUse>>

\* The model call raises, or its trip is valid or not.
ModelAnswers(r, a) ==
    /\ run[r][a] = "calling"
    /\ Becomes(r, a, "done") \/ Becomes(r, a, "failed")
    /\ UNCHANGED <<stage, asked, plans, inUse>>
-----------------------------------------------------------------------------
(***************************************************************************)
(* The request thread.                                                     *)
(***************************************************************************)
GoTo(r, s) == stage' = [stage EXCEPT ![r] = s]
Append1(r, plan, by) ==
    plans' = [plans EXCEPT ![r] = Append(@, [plan |-> plan, by |-> by])]

\* The executor starts the three runs at once.
Arrive(r) ==
    /\ stage[r] = "idle"
    /\ GoTo(r, "wait0")
    /\ run' = [run EXCEPT ![r] = [a \in Runs |-> IF a = Fallback THEN "none" ELSE "working"]]
    /\ UNCHANGED <<asked, plans, inUse>>

\* rule_future.result() raises what the rule run raised.
TakeRule(r) ==
    /\ stage[r] = "wait0" /\ run[r][0] \in Ended
    /\ IF run[r][0] = "done"
       THEN GoTo(r, "wait1") /\ Append1(r, 0, "rule")
       ELSE GoTo(r, "raising") /\ UNCHANGED plans
    /\ UNCHANGED <<run, asked, inUse>>

\* Mutant: a model run that fails fails the request.
TakeModelStrict(r, i) ==
    /\ stage[r] = Wait(i) /\ run[r][i] \in Ended
    /\ IF run[r][i] = "done"
       THEN GoTo(r, After(i)) /\ Append1(r, i, "model")
       ELSE GoTo(r, "raising") /\ UNCHANGED plans
    /\ UNCHANGED <<run, asked, inUse>>

\* The result of a model run, or fallback() in its place.
TakeModel(r, i) ==
    /\ stage[r] = Wait(i) /\ run[r][i] \in Ended
    /\ IF run[r][i] = "done"
       THEN GoTo(r, After(i)) /\ Append1(r, i, "model") /\ UNCHANGED <<run, asked>>
       ELSE /\ GoTo(r, Make(i))
            /\ run' = [run EXCEPT ![r][Fallback] = "working"]
            /\ asked' = [asked EXCEPT ![r][Fallback] = 0]
            /\ UNCHANGED plans
    /\ UNCHANGED inUse

TakeFallback(r, i) ==
    /\ stage[r] = Make(i) /\ run[r][Fallback] \in Ended
    /\ IF run[r][Fallback] = "done"
       THEN GoTo(r, After(i)) /\ Append1(r, i, "rule")
       ELSE GoTo(r, "raising") /\ UNCHANGED plans
    /\ UNCHANGED <<run, asked, inUse>>

\* Mutant: the end also waits for a fallback that was never needed.
LeaveWaitsForFallback(r) ==
    /\ stage[r] \in {"returning", "raising"}
    /\ \A a \in Runs : run[r][a] \in Ended
    /\ GoTo(r, IF stage[r] = "returning" THEN "ok" ELSE "error")
    /\ UNCHANGED <<run, asked, plans, inUse>>

\* Mutant: the request thread does not wait for the pool threads.
LeaveAtOnce(r) ==
    /\ stage[r] \in {"returning", "raising"}
    /\ GoTo(r, IF stage[r] = "returning" THEN "ok" ELSE "error")
    /\ UNCHANGED <<run, asked, plans, inUse>>

\* The end of `with`: all pool threads have ended, also after an error.
Leave(r) ==
    /\ stage[r] \in {"returning", "raising"}
    /\ \A a \in PoolRuns : run[r][a] \in Ended
    /\ GoTo(r, IF stage[r] = "returning" THEN "ok" ELSE "error")
    /\ UNCHANGED <<run, asked, plans, inUse>>
-----------------------------------------------------------------------------
PlansInit ==
    /\ stage = [r \in Requests |-> "idle"]
    /\ run = [r \in Requests |-> [a \in Runs |-> "none"]]
    /\ asked = [r \in Requests |-> [a \in Runs |-> 0]]
    /\ plans = [r \in Requests |-> <<>>]
    /\ inUse = 0

RunStep(r) ==
    \E a \in Runs : \/ GetConnection(r, a) \/ NoConnection(r, a) \/ QueryEnds(r, a)
                    \/ QueriesDone(r, a) \/ ModelAnswers(r, a)

RequestStep(r) ==
    \/ Arrive(r) \/ TakeRule(r) \/ Leave(r)
    \/ \E i \in Model : TakeModel(r, i) \/ TakeFallback(r, i)

PlansNext == \E r \in Requests : RunStep(r) \/ RequestStep(r)

PlansSpec == PlansInit /\ [][PlansNext]_plansVars

\* Threads run, the loops over slots and pools make a bounded number of
\* queries, and a model call ends by its timeouts.  No timeout ends a query
\* (db.py sets no read_timeout), so QueryEnds is not fair.
Fairness ==
    \A r \in Requests :
        /\ WF_plansVars(TakeRule(r)) /\ WF_plansVars(Leave(r))
        /\ \A i \in Model : WF_plansVars(TakeModel(r, i)) /\ WF_plansVars(TakeFallback(r, i))
        /\ \A a \in Runs :
              /\ WF_plansVars(GetConnection(r, a) \/ NoConnection(r, a) \/ QueriesDone(r, a))
              /\ WF_plansVars(ModelAnswers(r, a))

FairSpec == PlansSpec /\ Fairness
-----------------------------------------------------------------------------
\* Every variable keeps its shape.
PlansTypeOK ==
    /\ stage \in [Requests -> Stages]
    /\ run \in [Requests -> [Runs -> RunStates]]
    /\ asked \in [Requests -> [Runs -> 0..MaxQueries]]
    /\ plans \in [Requests -> Seq([plan : PoolRuns, by : {"rule", "model"}])]
    /\ inUse \in 0..MaxConnections

\* The connections the pool counts are those of queries that run: none is lost
\* or given back twice, whichever of the shared threads fails where.
ConnectionsAccounted == inUse = Cardinality(Querying)

\* One request alone never fills the pool of five: it holds at most three
\* connections, and at most two while it makes a plan again, so that failing
\* model runs never raise the load on the pool.
FallbackAddsNoLoad ==
    \A r \in Requests :
        /\ Cardinality(Holders(r)) <= 3
        /\ stage[r] \in {"fallback1", "fallback2"} => Cardinality(Holders(r)) <= 2

\* The routes are told apart by their position only: the answer holds plan 0
\* by the rules, then plans 1 and 2, in whatever order the threads ended.
StrategiesInPlace ==
    \A r \in Requests :
        /\ \A k \in 1..Len(plans[r]) : plans[r][k].plan = k - 1
        /\ stage[r] = "ok" => Len(plans[r]) = 3 /\ plans[r][1].by = "rule"

\* "Only that plan is filled by the rules": a model run that fails costs
\* neither the other plan nor the request, which only fails with a run by the
\* rules.
FailureIsolated ==
    \A r \in Requests :
        /\ \A k \in 2..Len(plans[r]) : plans[r][k].by = "model" <=> run[r][k - 1] = "done"
        /\ stage[r] \in {"raising", "error"} =>
              run[r][0] = "failed" \/ run[r][Fallback] = "failed"

\* Nothing of a request goes on behind its answer, error answers included: no
\* thread works and no connection is held for it.
NothingAfterAnswer ==
    \A r \in Requests : stage[r] \in Answered => \A a \in Runs : run[r][a] \in Ended \cup {"none"}

\* A request is answered, unless the database leaves one of its queries
\* without an answer for good; other requests, whatever they hold, do not
\* keep it waiting.
RequestServed ==
    \A r \in Requests :
        stage[r] = "wait0" ~> (stage[r] \in Answered \/ [](Holders(r) # {}))
=============================================================================
