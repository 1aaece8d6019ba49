---------------------------- MODULE ModelRouting ----------------------------
(***************************************************************************)
(* Where a model call runs                                                 *)
(* (src/app/trips/services/model/inference.py and runtime.py).             *)
(*                                                                         *)
(* Threads of place-selection requests call get_router().generate_trip().  *)
(* A router tries the RunPod GPU unless its circuit breaker is open, and   *)
(* falls back to the container's CPU, whose concurrent runs are capped.    *)
(* get_router is an lru_cache around a constructor that loads a model: it  *)
(* runs unlocked, so calls that miss the empty cache together each build a *)
(* router of their own, and the first one to finish is kept.               *)
(*                                                                         *)
(* A router is named by the thread that built it.  Time is only seen       *)
(* through the age of an open breaker, counted up to Cooldown.             *)
(***************************************************************************)
EXTENDS Integers, FiniteSets

CONSTANTS
    Threads,     \* threads that make model calls, one call at a time
    Threshold,   \* model_breaker_failures
    Cooldown,    \* model_breaker_cooldown_seconds, in ticks
    CpuSlots,    \* model_cpu_max_concurrency
    HasGpu,      \* runpod_model_url is set
    HasCpu       \* model_dir is set

ASSUME ModelRoutingOK ==
    /\ IsFiniteSet(Threads)
    /\ Threshold \in Nat \ {0}
    /\ Cooldown \in Nat \ {0}
    /\ CpuSlots \in Nat \ {0}
    /\ HasGpu \in BOOLEAN /\ HasCpu \in BOOLEAN
    /\ HasGpu \/ HasCpu

None == "none"
ASSUME NoneIsNoThread == None \notin Threads

VARIABLES
    step,      \* step[t]: where the call of thread t is
    router,    \* router[t]: the router the call of t uses
    cached,    \* the router in get_router's cache
    failures,  \* failures[r]: failures in a row, counted up to Threshold
    age,       \* age[r]: ticks since opened_at, -1 when the breaker is closed
    free,      \* free[r]: free CPU slots
    trial,     \* threads whose GPU call was allowed by an open breaker
    gpuUp      \* does the GPU endpoint work at the moment?

vars == <<step, router, cached, failures, age, free, trial, gpuUp>>
breaker == <<failures, age>>
-----------------------------------------------------------------------------
Closed == -1
Steps == {"idle", "building", "routing", "gpu", "fallback", "cpu"}

OnCpu(r) == {t \in Threads : step[t] = "cpu" /\ router[t] = r}

\* Mutant: an open breaker stays shut until a success, which cannot come.
AllowNever(r) == age[r] = Closed

\* CircuitBreaker.allow.
Allow(r) == age[r] = Closed \/ age[r] >= Cooldown

Goto(t, place) == step' = [step EXCEPT ![t] = place]

\* The call is over, with an answer or an exception for its caller.
Return(t) ==
    /\ Goto(t, "idle")
    /\ router' = [router EXCEPT ![t] = None]
    /\ trial' = trial \ {t}

RecordSuccess(r) ==
    /\ failures' = [failures EXCEPT ![r] = 0]
    /\ age' = [age EXCEPT ![r] = Closed]

\* At the threshold and beyond, every failure starts the cooldown anew.
RecordFailure(r) ==
    LET n == IF failures[r] < Threshold THEN failures[r] + 1 ELSE Threshold
    IN  /\ failures' = [failures EXCEPT ![r] = n]
        /\ age' = IF n = Threshold THEN [age EXCEPT ![r] = 0] ELSE age
-----------------------------------------------------------------------------
\* get_router finds the cached router, or starts to build one.
GetRouter(t) ==
    /\ step[t] = "idle"
    /\ \/ cached # None /\ Goto(t, "routing")
       \/ cached = None /\ Goto(t, "building")
    /\ router' = [router EXCEPT ![t] = cached]
    /\ UNCHANGED <<cached, breaker, free, trial, gpuUp>>

\* The constructor is done: lru_cache keeps the first router built, and the
\* other calls go on with the one they built themselves.
RouterBuilt(t) ==
    /\ step[t] = "building"
    /\ router' = [router EXCEPT ![t] = t]
    /\ cached' = IF cached = None THEN t ELSE cached
    /\ Goto(t, "routing")
    /\ UNCHANGED <<breaker, free, trial, gpuUp>>

\* The constructor raises (the model cannot be loaded): the call is over, and
\* lru_cache keeps no exception, so that a later call tries again.
BuildFails(t) ==
    /\ step[t] = "building"
    /\ HasCpu
    /\ Return(t)
    /\ UNCHANGED <<cached, breaker, free, gpuUp>>

TryGpu(t) ==
    /\ step[t] = "routing"
    /\ \/ /\ HasGpu /\ Allow(router[t])
          /\ Goto(t, "gpu")
          /\ trial' = IF age[router[t]] = Closed THEN trial ELSE trial \cup {t}
       \/ /\ ~(HasGpu /\ Allow(router[t]))
          /\ Goto(t, "fallback")
          /\ UNCHANGED trial
    /\ UNCHANGED <<router, cached, breaker, free, gpuUp>>

GpuSucceeds(t) ==
    /\ step[t] = "gpu" /\ gpuUp
    /\ RecordSuccess(router[t])
    /\ Return(t)
    /\ UNCHANGED <<cached, free, gpuUp>>

\* A timeout, an HTTP error, a job that is not COMPLETED or a malformed result.
GpuFails(t) ==
    /\ step[t] = "gpu" /\ ~gpuUp
    /\ RecordFailure(router[t])
    /\ Goto(t, "fallback")
    /\ trial' = trial \ {t}
    /\ UNCHANGED <<router, cached, free, gpuUp>>

\* An answer that is no JSON object raises something other than
\* InferenceUnavailable: nothing is recorded and the CPU is not tried.
GpuBreaks(t) ==
    /\ step[t] = "gpu" /\ ~gpuUp
    /\ Return(t)
    /\ UNCHANGED <<cached, breaker, free, gpuUp>>

\* Mutant: the slot is taken without looking whether one is free.
TryCpuUnchecked(t) ==
    /\ step[t] = "fallback"
    /\ HasCpu
    /\ free' = [free EXCEPT ![router[t]] = IF @ > 0 THEN @ - 1 ELSE 0]
    /\ Goto(t, "cpu")
    /\ UNCHANGED <<router, trial, cached, breaker, gpuUp>>

\* Without a CPU engine, or a free slot in it, the call is refused at once.
TryCpu(t) ==
    /\ step[t] = "fallback"
    /\ \/ /\ HasCpu /\ free[router[t]] > 0
          /\ free' = [free EXCEPT ![router[t]] = @ - 1]
          /\ Goto(t, "cpu")
          /\ UNCHANGED <<router, trial>>
       \/ /\ ~(HasCpu /\ free[router[t]] > 0)
          /\ Return(t)
          /\ UNCHANGED free
    /\ UNCHANGED <<cached, breaker, gpuUp>>

\* The CPU run returned or raised: the slot is released in both cases.
CpuEnds(t) ==
    /\ step[t] = "cpu"
    /\ free' = [free EXCEPT ![router[t]] = @ + 1]
    /\ Return(t)
    /\ UNCHANGED <<cached, breaker, gpuUp>>

Tick ==
    /\ \E r \in Threads : age[r] \in 0..(Cooldown - 1)
    /\ age' = [r \in Threads |->
                  IF age[r] \in 0..(Cooldown - 1) THEN age[r] + 1 ELSE age[r]]
    /\ UNCHANGED <<step, router, cached, failures, free, trial, gpuUp>>

GpuChanges ==
    /\ gpuUp' = ~gpuUp
    /\ UNCHANGED <<step, router, cached, breaker, free, trial>>
-----------------------------------------------------------------------------
Init ==
    /\ step = [t \in Threads |-> "idle"]
    /\ router = [t \in Threads |-> None]
    /\ cached = None
    /\ failures = [t \in Threads |-> 0]
    /\ age = [t \in Threads |-> Closed]
    /\ free = [t \in Threads |-> CpuSlots]
    /\ trial = {}
    /\ gpuUp \in BOOLEAN

CallStep(t) ==
    \/ RouterBuilt(t) \/ TryGpu(t) \/ TryCpu(t) \/ CpuEnds(t)
    \/ GpuSucceeds(t) \/ GpuFails(t) \/ GpuBreaks(t)

Next ==
    \/ \E t \in Threads : GetRouter(t) \/ BuildFails(t) \/ CallStep(t)
    \/ Tick
    \/ GpuChanges

Spec == Init /\ [][Next]_vars

\* Threads are scheduled, calls end (the GPU call has an HTTP timeout), time
\* passes and requests keep coming.  No build of a router is sure to succeed.
Fairness ==
    /\ \A t \in Threads : WF_vars(GetRouter(t)) /\ WF_vars(CallStep(t))
    /\ WF_vars(Tick)

FairSpec == Spec /\ Fairness
-----------------------------------------------------------------------------
\* Every variable keeps its shape.
TypeOK ==
    /\ step \in [Threads -> Steps]
    /\ router \in [Threads -> Threads \cup {None}]
    /\ cached \in Threads \cup {None}
    /\ failures \in [Threads -> 0..Threshold]
    /\ age \in [Threads -> Closed..Cooldown]
    /\ free \in [Threads -> 0..CpuSlots]
    /\ trial \subseteq Threads
    /\ gpuUp \in BOOLEAN

\* A breaker is open exactly while Threshold failures in a row are on its
\* account, whatever mix of early, late and trial calls reported to it.
BreakerConsistent ==
    \A r \in Threads : age[r] # Closed <=> failures[r] = Threshold

\* A CPU slot of a router is free or held by one running call: calls that
\* raise, are refused or come from the GPU neither lose a slot nor invent one.
CpuSlotsHeld ==
    \A r \in Threads : free[r] + Cardinality(OnCpu(r)) = CpuSlots

\* Calls that race to build the router make the process run more than CpuSlots
\* calls on its CPU, but only by the calls that use a router of their own.
CpuLoadBounded ==
    Cardinality({t \in Threads : step[t] = "cpu"}) <=
        CpuSlots + Cardinality({t \in Threads : router[t] \notin {None, cached}})

\* Once a router could be built and the GPU endpoint works for good, the shared
\* breaker closes for good: no order of late failures and trial calls leaves it
\* open.
BreakerRecovers ==
    <>[]gpuUp /\ <>(cached # None) =>
        <>[](cached # None /\ failures[cached] = 0 /\ age[cached] = Closed)

\* "After the cooldown one trial call is allowed": at most one call at a time
\* is out to the GPU on behalf of an open breaker.
OneTrial ==
    \A s, t \in trial : router[s] = router[t] => s = t
=============================================================================
