------------------------- MODULE ModelRoutingProofs -------------------------
(***************************************************************************)
(* Proofs about ModelRouting, for any threads, threshold, cooldown and     *)
(* number of CPU slots.                                                    *)
(***************************************************************************)
EXTENDS ModelRouting, FiniteSetTheorems, TLAPS

\* A call has a router from the moment it got one until it returns.
RouterKnown ==
    \A t \in Threads : router[t] = None <=>
        step[t] = "idle" \/ step[t] = "building"

\* A router other than None is only in use once one has been cached.
CachedFirst == \A t \in Threads : router[t] # None => cached # None

\* The race at start-up costs no more than this: a router that lost it serves
\* only the call that built it, every other call shares the cached one.
StrayRouterPrivate ==
    \A t \in Threads : router[t] \in {None, t, cached}

IInv ==
    /\ TypeOK
    /\ RouterKnown
    /\ CachedFirst
    /\ StrayRouterPrivate
    /\ BreakerConsistent
    /\ CpuSlotsHeld
-----------------------------------------------------------------------------
\* The running calls of a router are a finite set.
LEMMA OnCpuFinite ==
    ASSUME NEW r
    PROVE  /\ IsFiniteSet(OnCpu(r))
           /\ Cardinality(OnCpu(r)) \in Nat
<1>1. OnCpu(r) \subseteq Threads
    BY DEF OnCpu
<1> QED
    BY <1>1, FS_Subset, FS_CardinalityType, ModelRoutingOK

\* The slot accounts of every router stay right when a thread enters the CPU.
LEMMA SlotTaken ==
    ASSUME IInv, NEW t \in Threads, step[t] = "fallback", free[router[t]] > 0,
           free' = [free EXCEPT ![router[t]] = @ - 1],
           step' = [step EXCEPT ![t] = "cpu"], router' = router
    PROVE  CpuSlotsHeld'
<1> DEFINE r == router[t]
<1>1. r \in Threads
    BY DEF IInv, TypeOK, RouterKnown
<1>2. ASSUME NEW q \in Threads
      PROVE  free'[q] + Cardinality(OnCpu(q)') = CpuSlots
    <2>0. /\ IsFiniteSet(OnCpu(q))
          /\ Cardinality(OnCpu(q)) \in Nat
          /\ free[q] + Cardinality(OnCpu(q)) = CpuSlots
          /\ free[q] \in 0..CpuSlots
          /\ step \in [Threads -> Steps] /\ free \in [Threads -> 0..CpuSlots]
        BY OnCpuFinite DEF IInv, TypeOK, CpuSlotsHeld
    <2>1. CASE q = r
        <3>1. OnCpu(q)' = OnCpu(q) \cup {t}
            BY <2>0, <2>1 DEF OnCpu
        <3>2. t \notin OnCpu(q)
            BY DEF OnCpu
        <3>3. Cardinality(OnCpu(q)') = Cardinality(OnCpu(q)) + 1
            BY <2>0, <3>1, <3>2, FS_AddElement
        <3>4. free'[q] = free[q] - 1
            BY <1>1, <2>0, <2>1
        <3> QED
            BY <2>0, <3>3, <3>4, ModelRoutingOK
    <2>2. CASE q # r
        <3>1. OnCpu(q)' = OnCpu(q)
            BY <2>0, <2>2 DEF OnCpu
        <3>2. free'[q] = free[q]
            BY <1>1, <2>0, <2>2
        <3> QED
            BY <2>0, <3>1, <3>2
    <2> QED
        BY <2>1, <2>2
<1> QED
    BY <1>2 DEF CpuSlotsHeld

\* The same when its run ends and it gives the slot back.
LEMMA SlotReturned ==
    ASSUME IInv, NEW t \in Threads, step[t] = "cpu",
           free' = [free EXCEPT ![router[t]] = @ + 1],
           step' = [step EXCEPT ![t] = "idle"],
           router' = [router EXCEPT ![t] = None]
    PROVE  /\ CpuSlotsHeld'
           /\ free' \in [Threads -> 0..CpuSlots]
<1> DEFINE r == router[t]
<1>1. r \in Threads
    BY DEF IInv, TypeOK, RouterKnown
<1>2. ASSUME NEW q \in Threads
      PROVE  /\ free'[q] + Cardinality(OnCpu(q)') = CpuSlots
             /\ free'[q] \in 0..CpuSlots
    <2>0. /\ IsFiniteSet(OnCpu(q))
          /\ Cardinality(OnCpu(q)) \in Nat
          /\ free[q] + Cardinality(OnCpu(q)) = CpuSlots
          /\ free[q] \in 0..CpuSlots
          /\ step \in [Threads -> Steps] /\ free \in [Threads -> 0..CpuSlots]
          /\ router \in [Threads -> Threads \cup {None}]
        BY OnCpuFinite DEF IInv, TypeOK, CpuSlotsHeld
    <2>1. CASE q = r
        <3>1. OnCpu(q)' = OnCpu(q) \ {t} /\ t \in OnCpu(q)
            BY <2>0, <2>1 DEF OnCpu
        <3>2. Cardinality(OnCpu(q)') = Cardinality(OnCpu(q)) - 1
            BY <2>0, <3>1, FS_RemoveElement
        <3>3. free'[q] = free[q] + 1
            BY <1>1, <2>0, <2>1
        <3>4. Cardinality(OnCpu(q)') \in Nat
            BY <2>0, <3>1, FS_RemoveElement, FS_CardinalityType
        <3> QED
            BY <2>0, <3>2, <3>3, <3>4, ModelRoutingOK
    <2>2. CASE q # r
        <3>1. OnCpu(q)' = OnCpu(q)
            BY <2>0, <2>2 DEF OnCpu
        <3>2. free'[q] = free[q]
            BY <1>1, <2>0, <2>2
        <3> QED
            BY <2>0, <3>1, <3>2
    <2> QED
        BY <2>1, <2>2
<1>3. DOMAIN free' = Threads /\ free' = [q \in Threads |-> free'[q]]
    BY <1>1 DEF IInv, TypeOK
<1> QED
    BY <1>2, <1>3 DEF CpuSlotsHeld

\* Nothing happens to the slots when no call enters or leaves the CPU.
LEMMA SlotsUntouched ==
    ASSUME CpuSlotsHeld, UNCHANGED free, \A q \in Threads : OnCpu(q)' = OnCpu(q)
    PROVE  CpuSlotsHeld'
BY DEF CpuSlotsHeld
-----------------------------------------------------------------------------
\* The invariant is inductive: one step for each action.
LEMMA Inductive == IInv /\ [Next]_vars => IInv'
<1> SUFFICES ASSUME IInv, [Next]_vars PROVE IInv'
    OBVIOUS
<1> USE ModelRoutingOK, NoneIsNoThread
<1>1. ASSUME NEW t \in Threads, GetRouter(t) PROVE IInv'
    <2>1. TypeOK' /\ RouterKnown' /\ CachedFirst' /\ StrayRouterPrivate' /\ BreakerConsistent'
        BY <1>1 DEF IInv, TypeOK, RouterKnown, CachedFirst, StrayRouterPrivate,
                    BreakerConsistent, GetRouter, Goto, breaker, Steps
    <2>2. \A q \in Threads : OnCpu(q)' = OnCpu(q)
        BY <1>1 DEF IInv, TypeOK, GetRouter, Goto, OnCpu
    <2> QED
        BY <1>1, <2>1, <2>2, SlotsUntouched DEF IInv, GetRouter
<1>2. ASSUME NEW t \in Threads, RouterBuilt(t) PROVE IInv'
    <2>1. TypeOK' /\ RouterKnown' /\ CachedFirst' /\ StrayRouterPrivate' /\ BreakerConsistent'
        BY <1>2 DEF IInv, TypeOK, RouterKnown, CachedFirst, StrayRouterPrivate,
                    BreakerConsistent, RouterBuilt, Goto, breaker, Steps
    <2>2. \A q \in Threads : OnCpu(q)' = OnCpu(q)
        BY <1>2 DEF IInv, TypeOK, RouterBuilt, Goto, OnCpu
    <2> QED
        BY <1>2, <2>1, <2>2, SlotsUntouched DEF IInv, RouterBuilt
<1>3. ASSUME NEW t \in Threads, TryGpu(t) PROVE IInv'
    <2>1. TypeOK' /\ RouterKnown' /\ CachedFirst' /\ StrayRouterPrivate' /\ BreakerConsistent'
        BY <1>3 DEF IInv, TypeOK, RouterKnown, CachedFirst, StrayRouterPrivate,
                    BreakerConsistent, TryGpu, Goto, breaker, Steps
    <2>2. \A q \in Threads : OnCpu(q)' = OnCpu(q)
        BY <1>3 DEF IInv, TypeOK, TryGpu, Goto, OnCpu
    <2> QED
        BY <1>3, <2>1, <2>2, SlotsUntouched DEF IInv, TryGpu
<1>4. ASSUME NEW t \in Threads, GpuSucceeds(t) PROVE IInv'
    <2>1. TypeOK' /\ RouterKnown' /\ CachedFirst' /\ StrayRouterPrivate' /\ BreakerConsistent'
        BY <1>4 DEF IInv, TypeOK, RouterKnown, CachedFirst, StrayRouterPrivate, Closed,
                    BreakerConsistent, GpuSucceeds, RecordSuccess, Return, Goto, Steps
    <2>2. \A q \in Threads : OnCpu(q)' = OnCpu(q)
        BY <1>4 DEF IInv, TypeOK, GpuSucceeds, Return, Goto, OnCpu
    <2> QED
        BY <1>4, <2>1, <2>2, SlotsUntouched DEF IInv, GpuSucceeds
<1>5. ASSUME NEW t \in Threads, GpuFails(t) PROVE IInv'
    <2>1. TypeOK' /\ RouterKnown' /\ CachedFirst' /\ StrayRouterPrivate'
        BY <1>5 DEF IInv, TypeOK, RouterKnown, CachedFirst, StrayRouterPrivate, Closed,
                    GpuFails, RecordFailure, Goto, Steps
    <2>2. BreakerConsistent'
        BY <1>5 DEF IInv, TypeOK, RouterKnown, BreakerConsistent, Closed, GpuFails, RecordFailure
    <2>3. \A q \in Threads : OnCpu(q)' = OnCpu(q)
        BY <1>5 DEF IInv, TypeOK, GpuFails, Goto, OnCpu
    <2> QED
        BY <1>5, <2>1, <2>2, <2>3, SlotsUntouched DEF IInv, GpuFails
<1>6. ASSUME NEW t \in Threads, GpuBreaks(t) PROVE IInv'
    <2>1. TypeOK' /\ RouterKnown' /\ CachedFirst' /\ StrayRouterPrivate' /\ BreakerConsistent'
        BY <1>6 DEF IInv, TypeOK, RouterKnown, CachedFirst, StrayRouterPrivate,
                    BreakerConsistent, GpuBreaks, Return, Goto, breaker, Steps
    <2>2. \A q \in Threads : OnCpu(q)' = OnCpu(q)
        BY <1>6 DEF IInv, TypeOK, GpuBreaks, Return, Goto, OnCpu
    <2> QED
        BY <1>6, <2>1, <2>2, SlotsUntouched DEF IInv, GpuBreaks
<1>7. ASSUME NEW t \in Threads, TryCpu(t) PROVE IInv'
    <2>1. CASE HasCpu /\ free[router[t]] > 0
        <3>1. /\ free' = [free EXCEPT ![router[t]] = @ - 1]
              /\ Goto(t, "cpu")
              /\ UNCHANGED <<router, trial, cached, breaker, gpuUp>>
            BY <1>7, <2>1 DEF TryCpu
        <3>2. CpuSlotsHeld'
            BY <1>7, <2>1, <3>1, SlotTaken DEF TryCpu, Goto
        <3>3. TypeOK' /\ RouterKnown' /\ CachedFirst' /\ StrayRouterPrivate' /\ BreakerConsistent'
            BY <1>7, <2>1, <3>1 DEF IInv, TypeOK, RouterKnown, CachedFirst, StrayRouterPrivate,
                    BreakerConsistent, TryCpu, Goto, breaker, Steps
        <3> QED
            BY <3>2, <3>3 DEF IInv
    <2>2. CASE ~(HasCpu /\ free[router[t]] > 0)
        <3>1. Return(t) /\ UNCHANGED <<free, cached, breaker, gpuUp>>
            BY <1>7, <2>2 DEF TryCpu
        <3>2. TypeOK' /\ RouterKnown' /\ CachedFirst' /\ StrayRouterPrivate' /\ BreakerConsistent'
            BY <3>1 DEF IInv, TypeOK, RouterKnown, CachedFirst, StrayRouterPrivate,
                    BreakerConsistent, Return, Goto, breaker, Steps
        <3>3. \A q \in Threads : OnCpu(q)' = OnCpu(q)
            BY <1>7, <3>1 DEF IInv, TypeOK, TryCpu, Return, Goto, OnCpu
        <3> QED
            BY <3>1, <3>2, <3>3, SlotsUntouched DEF IInv
    <2> QED
        BY <2>1, <2>2
<1>8. ASSUME NEW t \in Threads, CpuEnds(t) PROVE IInv'
    <2>1. CpuSlotsHeld' /\ free' \in [Threads -> 0..CpuSlots]
        BY <1>8, SlotReturned DEF CpuEnds, Return, Goto
    <2>2. TypeOK' /\ RouterKnown' /\ CachedFirst' /\ StrayRouterPrivate' /\ BreakerConsistent'
        BY <1>8, <2>1 DEF IInv, TypeOK, RouterKnown, CachedFirst, StrayRouterPrivate,
                    BreakerConsistent, CpuEnds, Return, Goto, breaker, Steps
    <2> QED
        BY <2>1, <2>2 DEF IInv
<1>9. CASE Tick \/ GpuChanges \/ UNCHANGED vars
    <2>0. /\ failures' = failures
          /\ age' \in [Threads -> Closed..Cooldown]
          /\ \A r \in Threads : age'[r] = Closed <=> age[r] = Closed
        <3>1. CASE Tick
            BY <3>1 DEF IInv, TypeOK, Tick, Closed
        <3>2. CASE GpuChanges \/ UNCHANGED vars
            BY <3>2 DEF IInv, TypeOK, GpuChanges, vars, breaker
        <3> QED
            BY <1>9, <3>1, <3>2
    <2>1. TypeOK' /\ RouterKnown' /\ CachedFirst' /\ StrayRouterPrivate' /\ BreakerConsistent'
        <3>1. BreakerConsistent'
            BY <2>0 DEF IInv, BreakerConsistent
        <3>2. UNCHANGED <<step, router, cached, free, trial>> /\ gpuUp' \in BOOLEAN
            BY <1>9 DEF IInv, TypeOK, Tick, GpuChanges, vars
        <3> QED
            BY <2>0, <3>1, <3>2 DEF IInv, TypeOK, RouterKnown, CachedFirst, StrayRouterPrivate
    <2>2. UNCHANGED <<step, router, free>>
        BY <1>9 DEF Tick, GpuChanges, vars
    <2>3. \A q \in Threads : OnCpu(q)' = OnCpu(q)
        BY <2>2 DEF OnCpu
    <2> QED
        BY <2>1, <2>2, <2>3, SlotsUntouched DEF IInv
<1>10. ASSUME NEW t \in Threads, BuildFails(t) PROVE IInv'
    <2>1. TypeOK' /\ RouterKnown' /\ CachedFirst' /\ StrayRouterPrivate' /\ BreakerConsistent'
        BY <1>10 DEF IInv, TypeOK, RouterKnown, CachedFirst, StrayRouterPrivate,
                    BreakerConsistent, BuildFails, Return, Goto, breaker, Steps
    <2>2. \A q \in Threads : OnCpu(q)' = OnCpu(q)
        BY <1>10 DEF IInv, TypeOK, BuildFails, Return, Goto, OnCpu
    <2> QED
        BY <1>10, <2>1, <2>2, SlotsUntouched DEF IInv, BuildFails
<1> QED
    BY <1>1, <1>2, <1>3, <1>4, <1>5, <1>6, <1>7, <1>8, <1>9, <1>10 DEF Next, CallStep

\* The invariant holds at the start.
LEMMA Initial == Init => IInv
<1> SUFFICES ASSUME Init PROVE IInv
    OBVIOUS
<1> USE ModelRoutingOK, NoneIsNoThread
<1>1. TypeOK /\ RouterKnown /\ CachedFirst /\ StrayRouterPrivate /\ BreakerConsistent
    BY DEF Init, TypeOK, RouterKnown, CachedFirst, StrayRouterPrivate, BreakerConsistent,
           Closed, Steps
<1>2. ASSUME NEW r \in Threads PROVE OnCpu(r) = {}
    BY DEF Init, OnCpu
<1>3. CpuSlotsHeld
    BY <1>2, FS_EmptySet DEF Init, CpuSlotsHeld
<1> QED
    BY <1>1, <1>3 DEF IInv

\* It follows that the calls on the CPU are those of the cached router, at most
\* one per slot, and some of the calls with a router of their own.
LEMMA LoadFromSlots == IInv => CpuLoadBounded
<1> SUFFICES ASSUME IInv PROVE CpuLoadBounded
    OBVIOUS
<1> DEFINE busy == {t \in Threads : step[t] = "cpu"}
           stray == {t \in Threads : router[t] \notin {None, cached}}
<1>1. IsFiniteSet(busy) /\ IsFiniteSet(stray) /\ IsFiniteSet(OnCpu(cached))
    BY FS_Subset, OnCpuFinite, ModelRoutingOK
<1>2. /\ Cardinality(busy) \in Nat /\ Cardinality(stray) \in Nat
      /\ Cardinality(OnCpu(cached)) \in Nat
    BY <1>1, FS_CardinalityType
<1>3. busy \subseteq OnCpu(cached) \cup stray
    BY DEF IInv, RouterKnown, OnCpu
<1>4. Cardinality(busy) <= Cardinality(OnCpu(cached)) + Cardinality(stray)
    <2>1. /\ IsFiniteSet(OnCpu(cached) \cup stray)
          /\ Cardinality(OnCpu(cached) \cup stray) <=
                 Cardinality(OnCpu(cached)) + Cardinality(stray)
        <3>1. /\ IsFiniteSet(OnCpu(cached) \cup stray)
              /\ Cardinality(OnCpu(cached) \cup stray) =
                    Cardinality(OnCpu(cached)) + Cardinality(stray)
                        - Cardinality(OnCpu(cached) \cap stray)
            BY <1>1, FS_Union
        <3>2. Cardinality(OnCpu(cached) \cap stray) \in Nat
            BY <1>1, FS_Intersection, FS_CardinalityType
        <3> QED
            BY <1>2, <3>1, <3>2
    <2>2. Cardinality(busy) <= Cardinality(OnCpu(cached) \cup stray)
        BY <1>3, <2>1, FS_Subset
    <2>3. Cardinality(OnCpu(cached) \cup stray) \in Nat
        BY <2>1, FS_CardinalityType
    <2> QED
        BY <1>2, <2>1, <2>2, <2>3
<1>5. Cardinality(OnCpu(cached)) <= CpuSlots
    <2>1. CASE cached \in Threads
        BY <1>2, <2>1, ModelRoutingOK DEF IInv, TypeOK, CpuSlotsHeld
    <2>2. CASE cached \notin Threads
        <3>1. \A t \in Threads : router[t] = None
            BY <2>2 DEF IInv, TypeOK, CachedFirst
        <3>2. OnCpu(cached) = {}
            BY <3>1 DEF IInv, RouterKnown, OnCpu
        <3> QED
            BY <3>2, FS_EmptySet, ModelRoutingOK
    <2> QED
        BY <2>1, <2>2
<1> QED
    BY <1>2, <1>4, <1>5, ModelRoutingOK DEF CpuLoadBounded

\* So it holds in every reachable state.
LEMMA Invariance == Spec => []IInv
BY Initial, Inductive, PTL DEF Spec
-----------------------------------------------------------------------------
\* Every variable keeps its shape, for any number of threads; in particular no
\* breaker counts past its threshold.
THEOREM TypesHold == Spec => []TypeOK
<1>1. IInv => TypeOK
    BY DEF IInv
<1> QED
    BY <1>1, Invariance, PTL

\* The breaker is open exactly while it counts Threshold failures in a row.
THEOREM BreakerTruthful == Spec => []BreakerConsistent
<1>1. IInv => BreakerConsistent
    BY DEF IInv
<1> QED
    BY <1>1, Invariance, PTL

\* No call, however it ends, loses a CPU slot or invents one.
THEOREM SlotConservation == Spec => []CpuSlotsHeld
<1>1. IInv => CpuSlotsHeld
    BY DEF IInv
<1> QED
    BY <1>1, Invariance, PTL

\* The load on the CPU is bounded in spite of the race to build the router.
THEOREM LoadBounded == Spec => []CpuLoadBounded
BY LoadFromSlots, Invariance, PTL
=============================================================================
