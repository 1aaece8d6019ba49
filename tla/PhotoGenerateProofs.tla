------------------------ MODULE PhotoGenerateProofs ------------------------
(***************************************************************************)
(* Proofs about PhotoGenerate, for any number of requests, chunks, slots   *)
(* and attempts.  First the semaphore: type correctness, its permits and   *)
(* wake-ups (IInv).  Then the chunks and their workers (ChunkInv), the     *)
(* tasks of the requests and their cleanups (ParentInv), and with both the *)
(* answers the clients get (BlameInv, AnswerInv).  Last, that a request    *)
(* needs no other to come to its end (StopInv).                            *)
(***************************************************************************)
EXTENDS PhotoGenerate, FiniteSetTheorems, SequenceTheorems,
        WellFoundedInduction, TLAPS

Sems == [free : Nat, waiters : Seq(Workers), granted : SUBSET Workers]

NoRepeats(q) == \A i, j \in DOMAIN q : q[i] = q[j] => i = j

\* A semaphore state that accounts for all permits, when the workers in R are
\* the ones that hold one.
Accounts(s, R) ==
    /\ s \in Sems
    /\ NoRepeats(s.waiters)
    /\ R \subseteq Workers
    /\ Range(s.waiters) \cap R = {}
    /\ s.granted \subseteq Range(s.waiters)
    /\ s.free + Cardinality(s.granted \cup R) = MaxCalls
-----------------------------------------------------------------------------
\* There are finitely many worker tasks.
LEMMA WorkersFinite == IsFiniteSet(Workers)
  <1>1. IsFiniteSet(1..MaxCalls)
    BY ConstantsOK, FS_Interval
  <1> QED
    BY <1>1, ConstantsOK, FS_Product DEF Workers

\* Any set of workers has a natural number of elements; adding a new one or
\* taking one out changes it by one.
LEMMA CountWorkers ==
    ASSUME NEW S, S \subseteq Workers
    PROVE  /\ Cardinality(S) \in Nat
           /\ \A w \in Workers \ S : Cardinality(S \cup {w}) = Cardinality(S) + 1
           /\ \A w \in S : Cardinality(S \ {w}) = Cardinality(S) - 1
  <1>1. IsFiniteSet(S)
    BY WorkersFinite, FS_Subset
  <1> QED
    BY <1>1, FS_CardinalityType, FS_AddElement, FS_RemoveElement

\* A non-empty set of natural numbers has a least element.
LEMMA LeastNatural ==
    ASSUME NEW S, S \subseteq Nat, S # {}
    PROVE  \E n \in S : \A m \in S : n <= m
  <1>1. PICK n \in S : \A m \in S : ~(<<m, n>> \in OpToRel(<, Nat))
    BY NatLessThanWellFounded, WFMin
  <1>2. \A m \in S : ~(m < n)
    BY <1>1 DEF OpToRel
  <1> QED
    BY <1>2

\* The waiter woken by WakeNext is one that can be woken.
LEMMA FirstIsWakeable ==
    ASSUME NEW s \in Sems, Wakeable(s) # {}
    PROVE  FirstWakeable(s) \in Wakeable(s)
  <1> DEFINE I == {i \in 1..Len(s.waiters) : s.waiters[i] \in Wakeable(s)}
  <1>1. s.waiters \in Seq(Workers)
    BY DEF Sems
  <1>2. I # {} /\ I \subseteq Nat
    BY <1>1 DEF Wakeable, Range
  <1>3. PICK n \in I : \A m \in I : n <= m
    BY <1>2, LeastNatural
  <1>4. Min(I) \in I
    BY <1>2, <1>3 DEF Min
  <1>5. SelectInSeq(s.waiters, LAMBDA w : w \in Wakeable(s)) = Min(I)
    BY <1>2 DEF SelectInSeq
  <1> QED
    BY <1>4, <1>5 DEF FirstWakeable

\* Waking the next waiter with a free permit keeps the account.
LEMMA WakeNextAccounts ==
    ASSUME NEW s, NEW R, Accounts(s, R), s.free > 0
    PROVE  Accounts(WakeNext(s), R)
  <1>1. CASE Wakeable(s) = {}
    BY <1>1 DEF WakeNext
  <1>2. CASE Wakeable(s) # {}
    <2> DEFINE w == FirstWakeable(s)
               t == WakeNext(s)
    <2>1. w \in Wakeable(s)
      BY <1>2, FirstIsWakeable DEF Accounts
    <2>2. w \in Range(s.waiters) /\ w \notin s.granted \cup R
      BY <2>1 DEF Wakeable, Accounts
    <2>3. s \in Sems /\ R \subseteq Workers /\ s.granted \subseteq Workers
      BY DEF Accounts, Sems
    <2>4. w \in Workers
      BY <2>2, <2>3 DEF Sems, Range
    <2>5. t = [s EXCEPT !.free = @ - 1, !.granted = @ \cup {w}]
      BY <1>2 DEF WakeNext
    <2> HIDE DEF w, t
    <2>6. t = [free |-> s.free - 1, waiters |-> s.waiters,
               granted |-> s.granted \cup {w}]
      BY <2>3, <2>5 DEF Sems
    <2>12. s.free - 1 \in Nat /\ s.waiters \in Seq(Workers)
      BY <2>3 DEF Sems
    <2>13. t \in Sems
      BY <2>3, <2>4, <2>6, <2>12 DEF Sems
    <2>7. Cardinality((s.granted \cup R) \cup {w}) = Cardinality(s.granted \cup R) + 1
      BY <2>2, <2>3, <2>4, CountWorkers
    <2>8. Cardinality(s.granted \cup R) \in Nat /\ s.free \in Nat /\ MaxCalls \in Nat
      BY <2>3, CountWorkers, ConstantsOK DEF Sems
    <2>9. t.granted \cup R = (s.granted \cup R) \cup {w}
      BY <2>6
    <2>10. s.free + Cardinality(s.granted \cup R) = MaxCalls
      BY DEF Accounts
    <2>14. Cardinality(t.granted \cup R) = Cardinality(s.granted \cup R) + 1
      BY <2>7, <2>9
    <2>15. t.free = s.free - 1
      BY <2>6
    <2>11. t.free + Cardinality(t.granted \cup R) = MaxCalls
      BY <2>14, <2>15, <2>8, <2>10
    <2> QED
      BY <2>2, <2>6, <2>11, <2>13 DEF Accounts, t
  <1> QED
    BY <1>1, <1>2

\* Taking a waiter out of a queue without repetitions takes it out entirely
\* and keeps the others, in their order.
LEMMA RemoveFirstEffect ==
    ASSUME NEW q \in Seq(Workers), NoRepeats(q), NEW w \in Range(q)
    PROVE  /\ RemoveFirst(q, w) \in Seq(Workers)
           /\ NoRepeats(RemoveFirst(q, w))
           /\ Range(RemoveFirst(q, w)) = Range(q) \ {w}
  <1> DEFINE I == {j \in 1..Len(q) : q[j] = w}
             i == Min(I)
             p == RemoveFirst(q, w)
  <1>1. DOMAIN q = 1..Len(q) /\ Len(q) \in Nat
    BY LenProperties
  <1>2. I # {} /\ I \subseteq Nat
    BY <1>1 DEF Range
  <1>3. i \in I
    <2>1. PICK n \in I : \A m \in I : n <= m
      BY <1>2, LeastNatural
    <2> QED
      BY <2>1 DEF Min
  <1>4. SelectInSeq(q, LAMBDA v : v = w) = i
    BY <1>2 DEF SelectInSeq
  <1>5. p = SubSeq(q, 1, i - 1) \o SubSeq(q, i + 1, Len(q))
    BY <1>3, <1>4 DEF RemoveFirst, RemoveAt
  <1> HIDE DEF i, p
  <1>6. i \in 1..Len(q) /\ q[i] = w
    BY <1>3
  <1>11. Len(q) \in Nat /\ i \in Nat /\ 1 <= i /\ i <= Len(q)
    BY <1>1, <1>6
  <1>7. /\ p \in Seq(Workers)
        /\ Len(p) = Len(q) - 1
        /\ \A j \in 1..Len(p) : p[j] = IF j < i THEN q[j] ELSE q[j + 1]
    <2> DEFINE a == SubSeq(q, 1, i - 1)
               b == SubSeq(q, i + 1, Len(q))
    <2>1. \A j \in 1..Len(q) : q[j] \in Workers
      BY ElementOfSeq
    <2>2. /\ a \in Seq(Workers)
          /\ Len(a) = i - 1
          /\ \A j \in 1..(i - 1) : a[j] = q[j]
      BY <1>1, <1>6, <2>1, SubSeqProperties
    <2>3. /\ b \in Seq(Workers)
          /\ Len(b) = Len(q) - i
          /\ \A j \in 1..(Len(q) - i) : b[j] = q[i + j]
      <3>1. \A j \in (i + 1)..Len(q) : q[j] \in Workers
        BY <1>1, <1>6, <2>1
      <3>2. /\ b \in Seq(Workers)
            /\ Len(b) = IF i + 1 <= Len(q) THEN Len(q) - (i + 1) + 1 ELSE 0
            /\ \A j \in 1..(Len(q) - (i + 1) + 1) : b[j] = q[(i + 1) + j - 1]
        BY <1>1, <1>6, <3>1, SubSeqProperties
      <3> HIDE DEF b
      <3>3. Len(q) - (i + 1) + 1 = Len(q) - i
        BY <1>1, <1>6
      <3>4. Len(b) = Len(q) - i
        <4>1. CASE i + 1 <= Len(q)
          BY <3>2, <3>3, <4>1
        <4>2. CASE ~(i + 1 <= Len(q))
          <5>1. i = Len(q)
            BY <1>11, <4>2
          <5>2. Len(b) = 0
            BY <3>2, <4>2
          <5> QED
            BY <1>1, <5>1, <5>2
        <4> QED
          BY <4>1, <4>2
      <3>5. ASSUME NEW j \in 1..(Len(q) - i)
            PROVE  b[j] = q[i + j]
        <4>1. b[j] = q[(i + 1) + j - 1]
          BY <3>2, <3>3
        <4>2. (i + 1) + j - 1 = i + j
          BY <1>1, <1>6
        <4> QED
          BY <4>1, <4>2
      <3> QED
        BY <3>2, <3>4, <3>5
    <2> HIDE DEF a, b
    <2>4. p = a \o b
      BY <1>5 DEF a, b
    <2>5. /\ p \in Seq(Workers)
          /\ Len(p) = Len(a) + Len(b)
          /\ \A j \in 1..(Len(a) + Len(b)) :
                p[j] = IF j <= Len(a) THEN a[j] ELSE b[j - Len(a)]
      BY <2>2, <2>3, <2>4, ConcatProperties
    <2>6. Len(p) = Len(q) - 1
      BY <1>1, <1>6, <2>2, <2>3, <2>5
    <2>7. ASSUME NEW j \in 1..Len(p)
          PROVE  p[j] = IF j < i THEN q[j] ELSE q[j + 1]
      <3>1. CASE j < i
        BY <1>1, <1>6, <2>2, <2>3, <2>5, <3>1
      <3>2. CASE j >= i
        <4>1. j - Len(a) \in 1..(Len(q) - i) /\ i + (j - Len(a)) = j + 1
          BY <1>1, <1>6, <2>2, <2>6, <3>2
        <4>2. p[j] = b[j - Len(a)]
          BY <1>1, <1>6, <2>2, <2>3, <2>5, <3>2
        <4> QED
          BY <1>6, <2>3, <3>2, <4>1, <4>2
      <3> QED
        BY <1>6, <3>1, <3>2
    <2> QED
      BY <2>5, <2>6, <2>7
  <1>8. NoRepeats(p)
    BY <1>1, <1>6, <1>7 DEF NoRepeats
  <1>9. Range(p) \subseteq Range(q) \ {w}
    <2>1. DOMAIN p = 1..Len(p)
      BY <1>7, LenProperties
    <2>2. ASSUME NEW j \in 1..Len(p)
          PROVE  p[j] \in Range(q) /\ p[j] # w
      <3>1. \E k \in 1..Len(q) : k # i /\ p[j] = q[k]
        BY <1>1, <1>6, <1>7
      <3> QED
        BY <1>1, <1>6, <3>1 DEF NoRepeats, Range
    <2> QED
      BY <2>1, <2>2 DEF Range
  <1>10. ASSUME NEW v \in Range(q), v # w
         PROVE  v \in Range(p)
    <2>1. PICK k \in 1..Len(q) : q[k] = v
      BY <1>1 DEF Range
    <2>2. CASE k < i
      BY <1>1, <1>6, <1>7, <2>1, <2>2 DEF Range
    <2>3. CASE k > i
      <3>1. k - 1 \in 1..Len(p) /\ p[k - 1] = q[k]
        BY <1>1, <1>6, <1>7, <2>1, <2>3
      <3> QED
        BY <1>7, <2>1, <3>1 DEF Range
    <2> QED
      BY <1>1, <1>6, <1>10, <2>1, <2>2, <2>3
  <1> QED
    BY <1>7, <1>8, <1>9, <1>10 DEF p

\* An update of a semaphore state that accounts for everything is one again
\* when its parts fit together.
LEMMA AccountsIntro ==
    ASSUME NEW f \in Nat, NEW q \in Seq(Workers), NoRepeats(q),
           NEW g \in SUBSET Range(q), NEW R \in SUBSET Workers,
           Range(q) \cap R = {}, f + Cardinality(g \cup R) = MaxCalls
    PROVE  Accounts([free |-> f, waiters |-> q, granted |-> g], R)
  <1>1. Range(q) \subseteq Workers
    BY DEF Range
  <1> QED
    BY <1>1 DEF Accounts, Sems

\* What an account says about the parts of the semaphore.
LEMMA AccountsParts ==
    ASSUME NEW s, NEW R, Accounts(s, R)
    PROVE  /\ s \in Sems
           /\ s.free \in Nat /\ s.waiters \in Seq(Workers)
           /\ s.granted \subseteq Range(s.waiters)
           /\ Range(s.waiters) \subseteq Workers /\ R \subseteq Workers
           /\ NoRepeats(s.waiters) /\ Range(s.waiters) \cap R = {}
           /\ s.free + Cardinality(s.granted \cup R) = MaxCalls
           /\ Cardinality(s.granted \cup R) \in Nat
           /\ s.free \in 0..MaxCalls
  <1>1. /\ s \in Sems /\ R \subseteq Workers /\ s.granted \subseteq Workers
        /\ s.free \in Nat /\ s.waiters \in Seq(Workers)
    BY DEF Accounts, Sems
  <1>3. Range(s.waiters) \subseteq Workers
    BY <1>1 DEF Range
  <1>4. Cardinality(s.granted \cup R) \in Nat
    BY <1>1, CountWorkers
  <1>5. s.free + Cardinality(s.granted \cup R) = MaxCalls
    BY DEF Accounts
  <1>6. s.free \in 0..MaxCalls
    BY <1>1, <1>4, <1>5, ConstantsOK
  <1> QED
    BY <1>1, <1>3, <1>4, <1>5, <1>6 DEF Accounts

\* The two ways the code updates a semaphore state, field by field.
LEMMA SemUpdates ==
    ASSUME NEW s \in Sems, NEW f, NEW q
    PROVE  /\ [s EXCEPT !.free = f]
                  = [free |-> f, waiters |-> s.waiters, granted |-> s.granted]
           /\ [s EXCEPT !.waiters = q]
                  = [free |-> s.free, waiters |-> q, granted |-> s.granted]
  <1>1. [s EXCEPT !.free = f]
            = [free |-> f, waiters |-> s.waiters, granted |-> s.granted]
    BY DEF Sems
  <1>2. [s EXCEPT !.waiters = q]
            = [free |-> s.free, waiters |-> q, granted |-> s.granted]
    BY DEF Sems
  <1> QED
    BY <1>1, <1>2

\* Releasing the permit of w: it is free again or given to a waiter.
LEMMA ReleaseAccounts ==
    ASSUME NEW s, NEW R, Accounts(s, R), NEW w \in R
    PROVE  /\ Accounts(Release(s), R \ {w})
           /\ Release(s).waiters = s.waiters
  <1> DEFINE t == [s EXCEPT !.free = @ + 1]
             U == s.granted \cup R
  <1>0. /\ s \in Sems /\ s.free \in Nat /\ s.waiters \in Seq(Workers)
        /\ s.granted \subseteq Range(s.waiters)
        /\ Range(s.waiters) \subseteq Workers /\ R \subseteq Workers
        /\ NoRepeats(s.waiters) /\ Range(s.waiters) \cap R = {}
        /\ s.free + Cardinality(s.granted \cup R) = MaxCalls
        /\ Cardinality(s.granted \cup R) \in Nat
    BY AccountsParts
  <1>1. t = [free |-> s.free + 1, waiters |-> s.waiters, granted |-> s.granted]
    BY <1>0 DEF Sems
  <1>2. s.granted \cup (R \ {w}) = U \ {w}
    BY <1>0
  <1>3. Cardinality(U \ {w}) = Cardinality(U) - 1
    <2>1. U \subseteq Workers /\ w \in U
      BY <1>0
    <2> QED
      BY <2>1, CountWorkers
  <1>4. s.free + 1 + Cardinality(s.granted \cup (R \ {w})) = MaxCalls
    <2>1. s.free \in Nat /\ Cardinality(U) \in Nat /\ s.free + Cardinality(U) = MaxCalls
      BY <1>0
    <2> QED
      BY <1>2, <1>3, <2>1
  <1>5. Accounts(t, R \ {w})
    <2>1. s.free + 1 \in Nat /\ R \ {w} \subseteq Workers
      BY <1>0
    <2>2. Range(s.waiters) \cap (R \ {w}) = {}
      BY <1>0
    <2> HIDE DEF t, U
    <2>3. Accounts([free |-> s.free + 1, waiters |-> s.waiters, granted |-> s.granted], R \ {w})
      BY <1>0, <1>4, <2>1, <2>2, AccountsIntro
    <2> QED
      BY <1>1, <2>3
  <1>6. t.free > 0 /\ t.waiters = s.waiters
    BY <1>1, <1>0
  <1> HIDE DEF t
  <1>7. Accounts(WakeNext(t), R \ {w})
    BY <1>5, <1>6, WakeNextAccounts
  <1>8. WakeNext(t).waiters = t.waiters
    BY <1>1 DEF WakeNext
  <1> QED
    BY <1>6, <1>7, <1>8 DEF Release, t

\* A waiter that was given a permit leaves the queue with it.
LEMMA GrantedLeaves ==
    ASSUME NEW s, NEW R, Accounts(s, R), NEW w \in s.granted
    PROVE  /\ Accounts(Leave(s, w), R \cup {w})
           /\ Range(Leave(s, w).waiters) = Range(s.waiters) \ {w}
  <1> DEFINE q == RemoveFirst(s.waiters, w)
  <1>0. /\ s \in Sems /\ s.free \in Nat /\ s.waiters \in Seq(Workers)
        /\ s.granted \subseteq Range(s.waiters)
        /\ Range(s.waiters) \subseteq Workers /\ R \subseteq Workers
        /\ NoRepeats(s.waiters) /\ Range(s.waiters) \cap R = {}
        /\ s.free + Cardinality(s.granted \cup R) = MaxCalls
        /\ Cardinality(s.granted \cup R) \in Nat
    BY AccountsParts
  <1>1. Leave(s, w) = [free |-> s.free, waiters |-> q, granted |-> s.granted \ {w}]
    BY DEF Leave
  <1>2. q \in Seq(Workers) /\ NoRepeats(q) /\ Range(q) = Range(s.waiters) \ {w}
    BY <1>0, RemoveFirstEffect
  <1>3. (s.granted \ {w}) \cup (R \cup {w}) = s.granted \cup R
    OBVIOUS
  <1> HIDE DEF q
  <1>4. Accounts([free |-> s.free, waiters |-> q, granted |-> s.granted \ {w}], R \cup {w})
    BY <1>2, <1>3, <1>0, AccountsIntro
  <1> QED
    BY <1>1, <1>2, <1>4

\* A waiter without a permit leaves the queue and nothing else changes.
LEMMA OthersLeave ==
    ASSUME NEW s, NEW R, Accounts(s, R), NEW w \in Range(s.waiters), w \notin s.granted
    PROVE  /\ Accounts(Leave(s, w), R)
           /\ Range(Leave(s, w).waiters) = Range(s.waiters) \ {w}
  <1> DEFINE q == RemoveFirst(s.waiters, w)
  <1>0. /\ s \in Sems /\ s.free \in Nat /\ s.waiters \in Seq(Workers)
        /\ s.granted \subseteq Range(s.waiters)
        /\ Range(s.waiters) \subseteq Workers /\ R \subseteq Workers
        /\ NoRepeats(s.waiters) /\ Range(s.waiters) \cap R = {}
        /\ s.free + Cardinality(s.granted \cup R) = MaxCalls
        /\ Cardinality(s.granted \cup R) \in Nat
    BY AccountsParts
  <1>1. Leave(s, w) = [free |-> s.free, waiters |-> q, granted |-> s.granted]
    <2>1. s.granted \ {w} = s.granted
      OBVIOUS
    <2>2. Leave(s, w) = [free |-> s.free, waiters |-> q, granted |-> s.granted \ {w}]
      BY DEF Leave
    <2> QED
      BY <2>1, <2>2
  <1>2. q \in Seq(Workers) /\ NoRepeats(q) /\ Range(q) = Range(s.waiters) \ {w}
    BY <1>0, RemoveFirstEffect
  <1> HIDE DEF q
  <1>3. Accounts([free |-> s.free, waiters |-> q, granted |-> s.granted], R)
    BY <1>2, <1>0, AccountsIntro
  <1> QED
    BY <1>1, <1>2, <1>3

\* A worker that finds the semaphore locked joins the queue.
LEMMA AppendAccounts ==
    ASSUME NEW s, NEW R, Accounts(s, R), NEW w \in Workers,
           w \notin R, w \notin Range(s.waiters)
    PROVE  /\ Accounts([s EXCEPT !.waiters = Append(@, w)], R)
           /\ Range(Append(s.waiters, w)) = Range(s.waiters) \cup {w}
  <1> DEFINE q == Append(s.waiters, w)
             n == Len(s.waiters)
  <1>0. /\ s \in Sems /\ s.free \in Nat /\ s.waiters \in Seq(Workers)
        /\ s.granted \subseteq Range(s.waiters)
        /\ Range(s.waiters) \subseteq Workers /\ R \subseteq Workers
        /\ NoRepeats(s.waiters) /\ Range(s.waiters) \cap R = {}
        /\ s.free + Cardinality(s.granted \cup R) = MaxCalls
        /\ Cardinality(s.granted \cup R) \in Nat
    BY AccountsParts
  <1>1. s.waiters \in Seq(Workers) /\ n \in Nat /\ DOMAIN s.waiters = 1..n
    BY <1>0, LenProperties
  <1>2. /\ q \in Seq(Workers) /\ DOMAIN q = 1..(n + 1)
        /\ \A i \in 1..n : q[i] = s.waiters[i]
        /\ q[n + 1] = w
    BY <1>1, AppendProperties, LenProperties
  <1> HIDE DEF q, n
  <1>3. Range(q) = Range(s.waiters) \cup {w}
    BY <1>1, <1>2 DEF Range
  <1>4. NoRepeats(q)
    <2>1. \A i \in 1..n : s.waiters[i] # w
      BY <1>1 DEF Range
    <2>2. \A i, j \in 1..n : s.waiters[i] = s.waiters[j] => i = j
      BY <1>1, <1>0 DEF NoRepeats
    <2>3. \A i \in 1..(n + 1) : i \in 1..n \/ i = n + 1
      BY <1>1
    <2> QED
      BY <1>2, <2>1, <2>2, <2>3 DEF NoRepeats
  <1>5. [s EXCEPT !.waiters = Append(@, w)]
            = [free |-> s.free, waiters |-> q, granted |-> s.granted]
    BY <1>0, SemUpdates DEF q
  <1>6. Accounts([free |-> s.free, waiters |-> q, granted |-> s.granted], R)
    BY <1>2, <1>3, <1>4, <1>0, AccountsIntro
  <1> QED
    BY <1>3, <1>5, <1>6 DEF q

\* A worker that finds the semaphore unlocked takes a free permit.
LEMMA TakeAccounts ==
    ASSUME NEW s, NEW R, Accounts(s, R), NEW w \in Workers,
           w \notin R, w \notin Range(s.waiters), s.free # 0
    PROVE  Accounts([s EXCEPT !.free = @ - 1], R \cup {w})
  <1> DEFINE U == s.granted \cup R
  <1>0. /\ s \in Sems /\ s.free \in Nat /\ s.waiters \in Seq(Workers)
        /\ s.granted \subseteq Range(s.waiters)
        /\ Range(s.waiters) \subseteq Workers /\ R \subseteq Workers
        /\ NoRepeats(s.waiters) /\ Range(s.waiters) \cap R = {}
        /\ s.free + Cardinality(s.granted \cup R) = MaxCalls
        /\ Cardinality(s.granted \cup R) \in Nat
    BY AccountsParts
  <1>1. [s EXCEPT !.free = @ - 1]
            = [free |-> s.free - 1, waiters |-> s.waiters, granted |-> s.granted]
    BY <1>0 DEF Sems
  <1>2. s.free \in Nat /\ s.free - 1 \in Nat
    BY <1>0
  <1>3. Cardinality(U \cup {w}) = Cardinality(U) + 1
    <2>1. U \subseteq Workers /\ w \in Workers \ U
      BY <1>0
    <2> QED
      BY <2>1, CountWorkers
  <1>4. s.granted \cup (R \cup {w}) = U \cup {w}
    OBVIOUS
  <1>5. s.free - 1 + Cardinality(s.granted \cup (R \cup {w})) = MaxCalls
    <2>1. Cardinality(U) \in Nat /\ s.free + Cardinality(U) = MaxCalls
      BY <1>0
    <2>2. Cardinality(s.granted \cup (R \cup {w})) = Cardinality(U) + 1
      BY <1>3, <1>4
    <2> HIDE DEF U
    <2> QED
      BY <1>2, <2>1, <2>2
  <1> QED
    BY <1>1, <1>2, <1>5, <1>0, AccountsIntro
-----------------------------------------------------------------------------
(***************************************************************************)
(* The inductive invariant.  TypeOK bounds the free permits, which no      *)
(* single step can show: the bound follows from the account of all permits,*)
(* and the account in turn needs the queue to hold exactly the waiting     *)
(* workers, each once.                                                     *)
(***************************************************************************)
Waiting == {w \in Workers : at[w] = "waiting"}

TypedTrace(tr) ==
    /\ DOMAIN tr = Requests
    /\ \A r \in Requests : tr[r] \in [1..Chunks[r] -> Statuses]

WorkerTypes ==
    /\ at \in [Workers -> Places]
    /\ chunk \in [Workers -> Nat]
    /\ attempts \in [Workers -> 0..MaxAttempts]
    /\ asked \subseteq Workers
    /\ todo \in [Requests -> Nat]
    /\ TypedTrace(trace)

ParentTypes ==
    /\ parent \in [Requests -> {"new", "waiting", "cleanup", "finished"}]
    /\ cancels \in [Requests -> SUBSET {"deadline", "outer"}]
    /\ pending \subseteq Requests
    /\ carrying \subseteq Requests
    /\ cleanup \in [Requests -> {"none", "created", "stopping", "done"}]
    /\ outcome \in [Requests -> Outcomes]

QueueInv ==
    /\ Accounts(sem, Running)
    /\ Range(sem.waiters) = Waiting

\* Only a request that arrived has workers.
ArrivedInv == \A w \in Workers : at[w] # "absent" => parent[w[1]] # "new"

IInv == WorkerTypes /\ ParentTypes /\ QueueInv /\ ArrivedInv

\* The inductive invariant gives the three properties.
LEMMA IInvImplies == IInv => TypeOK /\ PermitsConserved /\ CallLimit
  <1> SUFFICES ASSUME IInv
               PROVE  TypeOK /\ PermitsConserved /\ CallLimit
    OBVIOUS
  <1>1. Accounts(sem, Running) /\ Range(sem.waiters) = Waiting
    BY DEF IInv, QueueInv
  <1>2. /\ sem \in Sems
        /\ sem.granted \subseteq Range(sem.waiters)
        /\ sem.free + Cardinality(sem.granted \cup Running) = MaxCalls
        /\ Cardinality(sem.granted \cup Running) \in Nat
        /\ sem.free \in 0..MaxCalls
    BY <1>1, AccountsParts
  <1>3. TypeOK
    <2>1. sem \in [free : 0..MaxCalls, waiters : Seq(Workers), granted : SUBSET Workers]
      BY <1>2 DEF Sems
    <2> QED
      BY <2>1 DEF IInv, WorkerTypes, ParentTypes, TypedTrace, TypeOK
  <1>4. sem.granted \cap Running = {}
    BY <1>1, <1>2 DEF Waiting, Running
  <1>5. CallLimit
    <2>1. IsFiniteSet(sem.granted \cup Running) /\ Running \subseteq sem.granted \cup Running
      <3>1. sem.granted \cup Running \subseteq Workers
        BY <1>2 DEF Sems, Running
      <3> QED
        BY <3>1, WorkersFinite, FS_Subset
    <2>2. Cardinality(Running) <= Cardinality(sem.granted \cup Running)
      BY <2>1, FS_Subset
    <2>3. Cardinality(Running) \in Nat
      BY CountWorkers DEF Running
    <2>4. sem.free \in Nat /\ MaxCalls \in Nat
      BY <1>2, ConstantsOK DEF Sems
    <2> QED
      BY <1>2, <2>2, <2>3, <2>4 DEF CallLimit
  <1> QED
    BY <1>2, <1>3, <1>4, <1>5 DEF PermitsConserved

\* Moving one worker to another place.
LEMMA MoveWorker ==
    ASSUME WorkerTypes, NEW w \in Workers, NEW place \in Places,
           at' = [at EXCEPT ![w] = place]
    PROVE  /\ at' \in [Workers -> Places]
           /\ place = "running" => Running' = Running \cup {w}
           /\ place # "running" => Running' = Running \ {w}
           /\ place = "waiting" => Waiting' = Waiting \cup {w}
           /\ place # "waiting" => Waiting' = Waiting \ {w}
  <1>1. /\ at' \in [Workers -> Places]
        /\ at'[w] = place
        /\ \A v \in Workers \ {w} : at'[v] = at[v]
    BY DEF WorkerTypes
  <1>2. \A v \in Workers : v = w \/ v \in Workers \ {w}
    OBVIOUS
  <1>3. (place = "running" => Running' = Running \cup {w})
            /\ (place # "running" => Running' = Running \ {w})
    BY <1>1, <1>2 DEF Running
  <1>4. (place = "waiting" => Waiting' = Waiting \cup {w})
            /\ (place # "waiting" => Waiting' = Waiting \ {w})
    BY <1>1, <1>2 DEF Waiting
  <1> QED
    BY <1>1, <1>3, <1>4

\* Writing one entry of the traces keeps their shape.
LEMMA WriteTrace ==
    ASSUME NEW tr, TypedTrace(tr), NEW r \in Requests, NEW c, NEW status \in Statuses
    PROVE  TypedTrace([tr EXCEPT ![r][c] = status])
  BY DEF TypedTrace

\* Writing the status of a worker's current chunk keeps the shape of the traces.
LEMMA SetTraceTyped ==
    ASSUME NEW tr, TypedTrace(tr), NEW w \in Workers, NEW status \in Statuses
    PROVE  TypedTrace(SetTrace(tr, w, status))
  <1>1. w[1] \in Requests
    BY DEF Workers
  <1> QED
    BY <1>1, WriteTrace DEF SetTrace

\* The head of the worker's loop, entered with a semaphore state s that
\* accounts for all permits but w's.
LEMMA TakeNextKeeps ==
    ASSUME WorkerTypes, NEW w \in Workers, at[w] # "waiting",
           NEW s, Accounts(s, Running \ {w}), Range(s.waiters) = Waiting,
           NEW tr, TypedTrace(tr), TakeNext(w, s, tr), asked' = asked
    PROVE  WorkerTypes' /\ QueueInv'
  <1> DEFINE r == w[1]
             c == todo[r]
  <1>1. r \in Requests /\ c \in Nat
    BY DEF Workers, WorkerTypes
  <1>2. /\ w \notin Range(s.waiters) /\ w \notin Running \ {w}
        /\ Waiting \ {w} = Waiting
    BY DEF Waiting
  <1>3. 1 \in 0..MaxAttempts /\ 0 \in 0..MaxAttempts
    BY ConstantsOK
  <1>4. {"returned", "waiting", "running"} \subseteq Places
    BY DEF Places, Ended
  <1>5. {"waiting", "running"} \subseteq Statuses
    BY DEF Statuses
  <1>6. CASE /\ at' = [at EXCEPT ![w] = "returned"]
             /\ sem' = s
             /\ trace' = tr
             /\ attempts' = [attempts EXCEPT ![w] = 0]
             /\ UNCHANGED <<chunk, todo>>
    <2>1. /\ Running' = Running \ {w} /\ Waiting' = Waiting \ {w}
          /\ at' \in [Workers -> Places]
      BY <1>4, <1>6, MoveWorker
    <2>2. WorkerTypes'
      BY <1>3, <1>6, <2>1 DEF WorkerTypes
    <2> QED
      BY <1>2, <1>6, <2>1, <2>2 DEF QueueInv
  <1>7. CASE /\ todo' = [todo EXCEPT ![r] = c + 1]
             /\ chunk' = [chunk EXCEPT ![w] = c]
             /\ at' = [at EXCEPT ![w] = "waiting"]
             /\ sem' = [s EXCEPT !.waiters = Append(@, w)]
             /\ trace' = [tr EXCEPT ![r][c] = "waiting"]
             /\ attempts' = [attempts EXCEPT ![w] = 0]
    <2>1. /\ Running' = Running \ {w} /\ Waiting' = Waiting \cup {w}
          /\ at' \in [Workers -> Places]
      BY <1>4, <1>7, MoveWorker
    <2>2. TypedTrace(trace')
      BY <1>1, <1>5, <1>7, WriteTrace
    <2>3. WorkerTypes'
      BY <1>1, <1>3, <1>7, <2>1, <2>2 DEF WorkerTypes
    <2>4. /\ Accounts([s EXCEPT !.waiters = Append(@, w)], Running \ {w})
          /\ Range(Append(s.waiters, w)) = Range(s.waiters) \cup {w}
      BY <1>2, AppendAccounts
    <2>5. sem'.waiters = Append(s.waiters, w)
      BY <1>7, AccountsParts, SemUpdates
    <2> QED
      BY <1>7, <2>1, <2>3, <2>4, <2>5 DEF QueueInv
  <1>8. CASE /\ todo' = [todo EXCEPT ![r] = c + 1]
             /\ chunk' = [chunk EXCEPT ![w] = c]
             /\ ~Locked(s)
             /\ at' = [at EXCEPT ![w] = "running"]
             /\ sem' = [s EXCEPT !.free = @ - 1]
             /\ trace' = [tr EXCEPT ![r][c] = "running"]
             /\ attempts' = [attempts EXCEPT ![w] = 1]
    <2>1. /\ Running' = Running \cup {w} /\ Waiting' = Waiting \ {w}
          /\ at' \in [Workers -> Places]
      BY <1>4, <1>8, MoveWorker
    <2>7. Running \cup {w} = (Running \ {w}) \cup {w}
      OBVIOUS
    <2>2. TypedTrace(trace')
      BY <1>1, <1>5, <1>8, WriteTrace
    <2>3. WorkerTypes'
      BY <1>1, <1>3, <1>8, <2>1, <2>2 DEF WorkerTypes
    <2>4. s.free # 0
      BY <1>8 DEF Locked
    <2>5. Accounts([s EXCEPT !.free = @ - 1], (Running \ {w}) \cup {w})
      BY <1>2, <2>4, TakeAccounts
    <2>6. sem'.waiters = s.waiters
      BY <1>8, AccountsParts, SemUpdates
    <2> QED
      BY <1>2, <1>8, <2>1, <2>3, <2>5, <2>6, <2>7 DEF QueueInv
  <1> QED
    BY <1>6, <1>7, <1>8 DEF TakeNext

\* A worker that holds a permit gives it back and ends.
LEMMA EndCallKeeps ==
    ASSUME WorkerTypes, QueueInv, NEW w \in Workers, at[w] = "running",
           NEW place \in Ended, NEW status \in Statuses,
           EndCall(w, place, status), asked' \subseteq asked
    PROVE  WorkerTypes' /\ QueueInv'
  <1>1. place \in Places /\ place # "running" /\ place # "waiting"
    BY DEF Places, Ended
  <1>2. /\ Running' = Running \ {w} /\ Waiting' = Waiting
        /\ at' \in [Workers -> Places]
    BY <1>1, MoveWorker DEF EndCall, Waiting
  <1>3. TypedTrace(trace')
    BY SetTraceTyped DEF EndCall, WorkerTypes
  <1>4. WorkerTypes'
    BY <1>2, <1>3, ConstantsOK DEF EndCall, WorkerTypes
  <1>5. w \in Running
    BY DEF Running
  <1>6. Accounts(Release(sem), Running \ {w}) /\ Release(sem).waiters = sem.waiters
    BY <1>5, ReleaseAccounts DEF QueueInv
  <1> QED
    BY <1>2, <1>4, <1>6 DEF QueueInv, EndCall

\* Trying again changes nothing but the count of attempts.
LEMMA RetryKeeps ==
    ASSUME WorkerTypes, QueueInv, NEW w \in Workers, attempts[w] < MaxAttempts,
           Retry(w), asked' \subseteq asked
    PROVE  WorkerTypes' /\ QueueInv'
  <1>1. attempts' \in [Workers -> 0..MaxAttempts]
    BY ConstantsOK DEF WorkerTypes, Retry
  <1>2. WorkerTypes'
    BY <1>1 DEF WorkerTypes, Retry, TypedTrace
  <1>3. Running' = Running /\ Waiting' = Waiting
    BY DEF Running, Waiting, Retry
  <1> QED
    BY <1>2, <1>3 DEF QueueInv, Retry

\* pick_failure picks a failure that some chunk really has: the lowest failed
\* chunk that it looks for exists.
LEMMA PickedFailure ==
    ASSUME NEW r \in Requests, Failed(r, HttpFailures) # {}
    PROVE  /\ PickFailure(r) \in HttpFailures
           /\ Failed(r, {PickFailure(r)}) # {}
           /\ Failed(r, {"429"}) # {} => PickFailure(r) = "429"
  <1>1. Failed(r, HttpFailures) \subseteq Nat
    BY ConstantsOK DEF Failed
  <1>2. PICK n \in Failed(r, HttpFailures) : \A d \in Failed(r, HttpFailures) : n <= d
    BY <1>1, LeastNatural
  <1> DEFINE low == CHOOSE c \in Failed(r, HttpFailures) :
                        \A d \in Failed(r, HttpFailures) : c <= d
  <1>3. low \in Failed(r, HttpFailures)
    BY <1>2
  <1>4. PickFailure(r) = IF Failed(r, {"429"}) # {} THEN "429" ELSE trace[r][low]
    BY DEF PickFailure
  <1> HIDE DEF low
  <1> QED
    BY <1>3, <1>4 DEF Failed, HttpFailures

\* What a request is told is one of the outcomes.
LEMMA OutcomeTypes ==
    ASSUME NEW r \in Requests
    PROVE  CancelOutcome(r) \in Outcomes /\ WorkersOutcome(r) \in Outcomes
  <1>1. Failed(r, HttpFailures) # {} => PickFailure(r) \in HttpFailures
    BY PickedFailure
  <1> QED
    BY <1>1 DEF WorkersOutcome, CancelOutcome, Outcomes, HttpFailures

\* A step of a worker's task keeps the invariant.
LEMMA WorkerStepKeeps ==
    ASSUME IInv, NEW w \in Workers,
           WorkerStep(w) \/ GeminiStep(w) \/ CancelRaises(w)
    PROVE  IInv'
  <1>1. WorkerTypes /\ QueueInv
    BY DEF IInv
  <1>2. ParentTypes' /\ ArrivedInv'
    <2>1. ParentTypes' /\ parent' = parent
      BY DEF IInv, ParentTypes, parentVars, WorkerStep, GeminiStep, CancelRaises,
             WorkerStart, GetSlot, CancelWaiting, CancelRunning, CallSucceeds, CallFails
    <2>2. /\ at[w] # "absent"
          /\ at' = at \/ \E place : at' = [at EXCEPT ![w] = place]
      BY DEF WorkerStep, GeminiStep, CancelRaises, WorkerStart, GetSlot, CancelWaiting,
             CancelRunning, CallSucceeds, CallFails, AttemptFails, TakeNext, EndCall, Retry
    <2>3. \A v \in Workers : at'[v] # "absent" => at[v] # "absent"
      BY <1>1, <2>2 DEF WorkerTypes
    <2> QED
      BY <2>1, <2>3 DEF IInv, ArrivedInv
  <1>3. Accounts(sem, Running) /\ Range(sem.waiters) = Waiting /\ TypedTrace(trace)
    BY <1>1 DEF QueueInv, WorkerTypes
  <1>4. "cancelled" \in Ended /\ "http" \in Ended /\ "bug" \in Ended
    BY DEF Ended
  <1>5. {"running", "ok", "cancelled"} \cup Failures \subseteq Statuses
    BY DEF Statuses
  <1>6. CASE WorkerStart(w)
    <2>1. Running \ {w} = Running
      BY <1>6 DEF WorkerStart, Running
    <2>2. WorkerTypes' /\ QueueInv'
      BY <1>1, <1>3, <1>6, <2>1, TakeNextKeeps DEF WorkerStart
    <2> QED
      BY <1>2, <2>2 DEF IInv
  <1>7. CASE GetSlot(w)
    <2> DEFINE s == Leave(sem, w)
    <2>1. w \in Waiting /\ w \in sem.granted
      BY <1>7 DEF GetSlot, Waiting
    <2>2. Accounts(s, Running \cup {w}) /\ Range(s.waiters) = Waiting \ {w}
      BY <1>3, <2>1, GrantedLeaves
    <2>3. sem' = IF s.free > 0 THEN WakeNext(s) ELSE s
      BY <1>7 DEF GetSlot
    <2> HIDE DEF s
    <2>4. s.free > 0 => /\ Accounts(WakeNext(s), Running \cup {w})
                        /\ WakeNext(s).waiters = s.waiters
      <3>1. s.free > 0 => Accounts(WakeNext(s), Running \cup {w})
        BY <2>2, WakeNextAccounts
      <3>2. WakeNext(s).waiters = s.waiters
        <4>1. s \in Sems
          BY <2>2, AccountsParts
        <4> QED
          BY <4>1 DEF WakeNext, Sems
      <3> QED
        BY <3>1, <3>2
    <2>5. Accounts(sem', Running \cup {w}) /\ sem'.waiters = s.waiters
      BY <2>2, <2>3, <2>4
    <2>6. /\ Running' = Running \cup {w} /\ Waiting' = Waiting \ {w}
          /\ at' \in [Workers -> Places]
      BY <1>1, <1>7, MoveWorker DEF GetSlot, Places
    <2>7. WorkerTypes'
      BY <1>1, <1>3, <1>5, <1>7, <2>6, SetTraceTyped, ConstantsOK DEF WorkerTypes, GetSlot
    <2> QED
      BY <1>2, <2>2, <2>5, <2>6, <2>7 DEF IInv, QueueInv
  <1>8. CASE CancelWaiting(w)
    <2>1. /\ Running' = Running \ {w} /\ Waiting' = Waiting \ {w}
          /\ at' \in [Workers -> Places]
      BY <1>1, <1>8, MoveWorker DEF CancelWaiting, Places, Ended
    <2>2. Running \ {w} = Running /\ w \in Waiting
      BY <1>8 DEF CancelWaiting, Running, Waiting
    <2>3. WorkerTypes'
      BY <1>1, <1>3, <1>5, <1>8, <2>1, SetTraceTyped DEF WorkerTypes, CancelWaiting
    <2>4. CASE w \in sem.granted
      <3>1. /\ Accounts(Leave(sem, w), Running \cup {w})
            /\ Range(Leave(sem, w).waiters) = Waiting \ {w}
        BY <1>3, <2>4, GrantedLeaves
      <3>2. /\ Accounts(Release(Leave(sem, w)), (Running \cup {w}) \ {w})
            /\ Release(Leave(sem, w)).waiters = Leave(sem, w).waiters
        BY <3>1, ReleaseAccounts
      <3>3. (Running \cup {w}) \ {w} = Running
        BY <2>2
      <3>4. sem' = Release(Leave(sem, w))
        BY <1>8, <2>4 DEF CancelWaiting
      <3> QED
        BY <1>2, <2>1, <2>2, <2>3, <3>1, <3>2, <3>3, <3>4 DEF IInv, QueueInv
    <2>5. CASE w \notin sem.granted
      <3>1. /\ Accounts(Leave(sem, w), Running)
            /\ Range(Leave(sem, w).waiters) = Waiting \ {w}
        BY <1>3, <2>2, <2>5, OthersLeave
      <3>2. sem' = Leave(sem, w)
        BY <1>8, <2>5 DEF CancelWaiting
      <3> QED
        BY <1>2, <2>1, <2>2, <2>3, <3>1, <3>2 DEF IInv, QueueInv
    <2> QED
      BY <2>4, <2>5
  <1>9. CASE CancelRunning(w)
    <2>1. WorkerTypes' /\ QueueInv'
      BY <1>1, <1>4, <1>5, <1>9, EndCallKeeps DEF CancelRunning
    <2> QED
      BY <1>2, <2>1 DEF IInv
  <1>10. CASE CallSucceeds(w)
    <2>1. w \in Running
      BY <1>10 DEF CallSucceeds, Running
    <2>2. Accounts(Release(sem), Running \ {w}) /\ Release(sem).waiters = sem.waiters
      BY <1>3, <2>1, ReleaseAccounts
    <2>3. TypedTrace(SetTrace(trace, w, "ok"))
      BY <1>3, <1>5, SetTraceTyped
    <2>4. WorkerTypes' /\ QueueInv'
      BY <1>1, <1>3, <1>10, <2>2, <2>3, TakeNextKeeps DEF CallSucceeds
    <2> QED
      BY <1>2, <2>4 DEF IInv
  <1>11. CASE \E kind \in ErrorKinds : CallFails(w, kind)
    <2>1. PICK kind \in ErrorKinds : CallFails(w, kind)
      BY <1>11
    <2>2. kind \in Statuses
      BY <1>5, ConstantsOK DEF Failures, HttpFailures
    <2>3. WorkerTypes' /\ QueueInv'
      <3>1. CASE kind # "429" /\ attempts[w] < MaxAttempts
        BY <1>1, <2>1, <3>1, RetryKeeps DEF CallFails, AttemptFails
      <3>2. CASE ~(kind # "429" /\ attempts[w] < MaxAttempts)
        BY <1>1, <1>4, <2>1, <2>2, <3>2, EndCallKeeps DEF CallFails, AttemptFails
      <3> QED
        BY <3>1, <3>2
    <2> QED
      BY <1>2, <2>3 DEF IInv
  <1>12. CASE CancelRaises(w)
    <2>1. PICK kind \in ErrorKinds : AttemptFails(w, kind)
      BY <1>12 DEF CancelRaises
    <2>2. kind \in Statuses
      BY <1>5, ConstantsOK DEF Failures, HttpFailures
    <2>3. at[w] = "running"
      BY <1>12 DEF CancelRaises
    <2>4. asked' = asked \ {w}
      BY <1>12 DEF CancelRaises
    <2>5. WorkerTypes' /\ QueueInv'
      <3>1. CASE kind # "429" /\ attempts[w] < MaxAttempts
        BY <1>1, <2>1, <2>3, <2>4, <3>1, RetryKeeps DEF AttemptFails
      <3>2. CASE ~(kind # "429" /\ attempts[w] < MaxAttempts)
        BY <1>1, <1>4, <2>1, <2>2, <2>3, <2>4, <3>2, EndCallKeeps DEF AttemptFails
      <3> QED
        BY <3>1, <3>2
    <2> QED
      BY <1>2, <2>5 DEF IInv
  <1> QED
    BY <1>6, <1>7, <1>8, <1>9, <1>10, <1>11, <1>12 DEF WorkerStep, GeminiStep

\* A step that leaves the workers, the semaphore and the traces alone.
LEMMA QuietForWorkers ==
    ASSUME IInv, UNCHANGED workerVars, asked' \subseteq Workers, ParentTypes',
           \A r \in Requests : parent[r] # "new" => parent'[r] # "new"
    PROVE  IInv'
  <1>1. WorkerTypes'
    BY DEF IInv, WorkerTypes, workerVars, TypedTrace
  <1>2. Running' = Running /\ Waiting' = Waiting /\ sem' = sem
    BY DEF Running, Waiting, workerVars
  <1>3. ArrivedInv'
    BY DEF IInv, ArrivedInv, workerVars, Workers
  <1> QED
    BY <1>1, <1>2, <1>3 DEF IInv, QueueInv

\* A step of a request's task or of its cleanup keeps the invariant.
LEMMA ParentStepKeeps ==
    ASSUME IInv, NEW r \in Requests,
           \/ Arrive(r) \/ ParentStep(r) \/ CleanupStep(r)
           \/ \E by \in {"deadline", "outer"} : CancelParent(r, by)
    PROVE  IInv'
  <1>1. ParentTypes /\ asked \subseteq Workers /\ TypedTrace(trace)
    BY DEF IInv, WorkerTypes
  <1>2. CASE Arrive(r)
    <2>1. /\ ParentTypes'
          /\ \A v \in Workers : v \notin OwnWorkers(r) => at'[v] = at[v]
          /\ \A v \in Workers : v \in OwnWorkers(r) => at'[v] = "created"
          /\ UNCHANGED <<chunk, attempts, asked, sem, todo, trace>>
      BY <1>1, <1>2 DEF ParentTypes, Arrive
    <2>2. \A v \in OwnWorkers(r) : v \in Workers => at[v] = "absent"
      BY <1>2 DEF IInv, ArrivedInv, Arrive, OwnWorkers
    <2>3. Running' = Running /\ Waiting' = Waiting
      BY <2>1, <2>2 DEF Running, Waiting
    <2>4. at' \in [Workers -> Places]
      BY <1>2 DEF IInv, WorkerTypes, Arrive, Places
    <2>5. WorkerTypes'
      BY <2>1, <2>4 DEF IInv, WorkerTypes, TypedTrace
    <2>6. ArrivedInv'
      <3>1. /\ \A q \in Requests : parent[q] # "new" => parent'[q] # "new"
            /\ parent'[r] # "new"
        BY <1>1, <1>2 DEF Arrive, ParentTypes
      <3>2. \A v \in OwnWorkers(r) : v[1] = r
        BY DEF OwnWorkers
      <3> QED
        BY <2>1, <3>1, <3>2 DEF IInv, ArrivedInv, Workers
    <2> QED
      BY <2>1, <2>3, <2>5, <2>6 DEF IInv, QueueInv
  <1>3. CASE WorkersWake(r)
    <2>1. /\ ParentTypes' /\ asked' = asked /\ UNCHANGED workerVars
          /\ \A q \in Requests : parent[q] # "new" => parent'[q] # "new"
      BY <1>1, <1>3 DEF ParentTypes, WorkersWake, EnterCleanup
    <2> QED
      BY <1>1, <2>1, QuietForWorkers
  <1>4. CASE ParentCancelled(r)
    <2>1. /\ ParentTypes' /\ asked' = asked /\ UNCHANGED workerVars
          /\ \A q \in Requests : parent[q] # "new" => parent'[q] # "new"
      BY <1>1, <1>4, OutcomeTypes DEF ParentTypes, ParentCancelled, EnterCleanup, Finish
    <2> QED
      BY <1>1, <2>1, QuietForWorkers
  <1>5. CASE ParentReturns(r)
    <2>1. /\ ParentTypes' /\ asked' = asked /\ UNCHANGED workerVars
          /\ \A q \in Requests : parent[q] # "new" => parent'[q] # "new"
      BY <1>1, <1>5, OutcomeTypes DEF ParentTypes, ParentReturns, Finish
    <2> QED
      BY <1>1, <2>1, QuietForWorkers
  <1>6. CASE StopWorkers(r)
    <2>1. /\ ParentTypes' /\ UNCHANGED workerVars
          /\ \A q \in Requests : parent[q] # "new" => parent'[q] # "new"
      BY <1>1, <1>6 DEF ParentTypes, StopWorkers
    <2>2. OwnWorkers(r) \subseteq Workers
      BY ConstantsOK DEF OwnWorkers, Workers, SmallerOf
    <2>3. asked' \subseteq Workers
      BY <1>1, <1>6, <2>2 DEF StopWorkers
    <2> QED
      BY <2>1, <2>3, QuietForWorkers
  <1>7. CASE WorkersStopped(r)
    <2>1. /\ ParentTypes' /\ asked' = asked /\ UNCHANGED workerVars
          /\ \A q \in Requests : parent[q] # "new" => parent'[q] # "new"
      BY <1>1, <1>7 DEF ParentTypes, WorkersStopped
    <2> QED
      BY <1>1, <2>1, QuietForWorkers
  <1>8. CASE \E by \in {"deadline", "outer"} : CancelParent(r, by)
    <2>1. PICK by \in {"deadline", "outer"} : CancelParent(r, by)
      BY <1>8
    <2>2. /\ ParentTypes' /\ asked' = asked /\ UNCHANGED workerVars
          /\ \A q \in Requests : parent[q] # "new" => parent'[q] # "new"
      BY <1>1, <2>1 DEF ParentTypes, CancelParent
    <2> QED
      BY <1>1, <2>2, QuietForWorkers
  <1> QED
    BY <1>2, <1>3, <1>4, <1>5, <1>6, <1>7, <1>8 DEF ParentStep, CleanupStep

\* The invariant is inductive.
LEMMA IInvInductive ==
    /\ Init => IInv
    /\ IInv /\ [Next]_vars => IInv'
  <1>1. ASSUME Init
        PROVE  IInv
    <2>1. Running = {} /\ Waiting = {}
      BY <1>1 DEF Init, Running, Waiting
    <2>2. WorkerTypes
      BY <1>1, ConstantsOK DEF Init, WorkerTypes, TypedTrace, Places, Statuses
    <2>3. ParentTypes /\ ArrivedInv
      BY <1>1 DEF Init, ParentTypes, ArrivedInv, Outcomes
    <2>4. sem = [free |-> MaxCalls, waiters |-> <<>>, granted |-> {}]
      BY <1>1 DEF Init
    <2>5. Range(<<>>) = {} /\ NoRepeats(<<>>) /\ <<>> \in Seq(Workers)
      BY EmptySeq DEF Range, NoRepeats
    <2>6. MaxCalls \in Nat /\ MaxCalls + Cardinality({} \cup {}) = MaxCalls
      BY ConstantsOK, FS_EmptySet
    <2>7. Accounts([free |-> MaxCalls, waiters |-> <<>>, granted |-> {}], {})
      BY <2>5, <2>6, AccountsIntro
    <2> QED
      BY <2>1, <2>2, <2>3, <2>4, <2>5, <2>7 DEF IInv, QueueInv
  <1>2. ASSUME IInv, [Next]_vars
        PROVE  IInv'
    <2>1. CASE UNCHANGED vars
      BY <1>2, <2>1 DEF vars, IInv, WorkerTypes, TypedTrace, ParentTypes, QueueInv,
                        ArrivedInv, Running, Waiting
    <2>2. CASE Next
      BY <1>2, <2>1, <2>2, WorkerStepKeeps, ParentStepKeeps DEF Next, Quiet
    <2> QED
      BY <1>2, <2>1, <2>2
  <1> QED
    BY <1>1, <1>2

\* Every reachable state satisfies the inductive invariant.
LEMMA Invariance == Spec => []IInv
  BY IInvInductive, PTL DEF Spec

\* Every variable keeps its shape, for any number of requests and chunks.
THEOREM TypeCorrect == Spec => []TypeOK
  BY Invariance, IInvImplies, PTL

\* No interleaving of calls, failures, retries, cancellations and cleanups
\* loses a permit of the process-wide semaphore or hands one out twice.
THEOREM PermitConservation == Spec => []PermitsConserved
  BY Invariance, IInvImplies, PTL

\* No more than MAX_CONCURRENT_CALLS Gemini calls run at the same time, over
\* all the requests of the process.
THEOREM CallsBounded == Spec => []CallLimit
  BY Invariance, IInvImplies, PTL
-----------------------------------------------------------------------------
(***************************************************************************)
(* No wake-up is lost.                                                     *)
(***************************************************************************)
\* After WakeNext nobody can be woken unless somebody just was.
LEMMA WakeNextWakes ==
    ASSUME NEW s \in Sems
    PROVE  Wakeable(WakeNext(s)) # {} => WakeNext(s).granted # {}
  <1>1. CASE Wakeable(s) = {}
    BY <1>1 DEF WakeNext
  <1>2. CASE Wakeable(s) # {}
    <2>1. WakeNext(s).granted = s.granted \cup {FirstWakeable(s)}
      BY <1>2 DEF WakeNext, Sems
    <2> QED
      BY <2>1
  <1> QED
    BY <1>1, <1>2

\* Nor after a release.
LEMMA ReleaseWakes ==
    ASSUME NEW s \in Sems
    PROVE  Wakeable(Release(s)) # {} => Release(s).granted # {}
  <1>1. [s EXCEPT !.free = @ + 1] \in Sems
    BY DEF Sems
  <1> QED
    BY <1>1, WakeNextWakes DEF Release

\* A semaphore state in which no wake-up is lost.
Awake(s) == s.free > 0 /\ Wakeable(s) # {} => s.granted # {}

\* The head of the worker's loop loses none: a worker joins the queue only
\* behind a live waiter, or when no permit is free.
LEMMA TakeNextAwake ==
    ASSUME NEW w \in Workers, NEW s \in Sems, Awake(s),
           NEW tr, TakeNext(w, s, tr), asked' = asked
    PROVE  NoLostWakeup'
  <1>1. CASE sem' = s
    BY <1>1 DEF Awake, NoLostWakeup, Wakeable
  <1>2. CASE sem' = [s EXCEPT !.waiters = Append(@, w)] /\ Locked(s)
    <2>1. sem' = [free |-> s.free, waiters |-> Append(s.waiters, w), granted |-> s.granted]
      BY <1>2, SemUpdates
    <2>2. s.free > 0 => s.granted # {}
      BY <1>2 DEF Locked, Dead, Awake, Wakeable, Sems
    <2> QED
      BY <2>1, <2>2 DEF NoLostWakeup
  <1>3. CASE sem' = [s EXCEPT !.free = @ - 1] /\ ~Locked(s)
    <2>1. Wakeable(s) = {}
      BY <1>3 DEF Locked, Dead, Wakeable
    <2>2. sem' = [free |-> s.free - 1, waiters |-> s.waiters, granted |-> s.granted]
      BY <1>3 DEF Sems
    <2>3. Wakeable(sem)' = Wakeable(s)
      BY <2>2 DEF Wakeable
    <2> QED
      BY <2>1, <2>3 DEF NoLostWakeup
  <1> QED
    BY <1>1, <1>2, <1>3 DEF TakeNext

\* A change of the semaphore by a worker that is not in its queue afterwards;
\* that a cancellation was delivered to it makes nobody wakeable.
LEMMA AwakeAfter ==
    ASSUME Awake(sem'), NEW w, w \notin Range(sem'.waiters),
           asked \ {w} \subseteq asked'
    PROVE  NoLostWakeup'
  <1>1. Wakeable(sem)' \subseteq Wakeable(sem')
    BY DEF Wakeable
  <1> QED
    BY <1>1 DEF Awake, NoLostWakeup

\* A step keeps every wake-up.
LEMMA WakeupsKept == IInv /\ NoLostWakeup /\ [Next]_vars => NoLostWakeup'
  <1> SUFFICES ASSUME IInv, NoLostWakeup, [Next]_vars PROVE NoLostWakeup'
    OBVIOUS
  <1>1. /\ Accounts(sem, Running) /\ Range(sem.waiters) = Waiting /\ sem \in Sems
        /\ sem.granted \subseteq Waiting
    BY AccountsParts DEF IInv, QueueInv
  <1>2. Awake(sem)
    BY DEF Awake, NoLostWakeup
  <1>3. ASSUME sem' = sem, asked \subseteq asked' PROVE NoLostWakeup'
    <2>1. Wakeable(sem)' \subseteq Wakeable(sem)
      BY <1>3 DEF Wakeable
    <2> QED
      BY <1>3, <2>1 DEF NoLostWakeup
  <1>4. ASSUME NEW w \in Workers,
               WorkerStep(w) \/ GeminiStep(w) \/ CancelRaises(w)
        PROVE  NoLostWakeup'
    <2>1. ASSUME w \in Running PROVE /\ Awake(Release(sem)) /\ Release(sem) \in Sems
                                     /\ w \notin Range(Release(sem).waiters)
                                     /\ w \notin Range(sem.waiters)
      <3>1. Accounts(Release(sem), Running \ {w}) /\ Release(sem).waiters = sem.waiters
        BY <1>1, <2>1, ReleaseAccounts
      <3>2. w \notin Waiting
        BY <2>1 DEF Running, Waiting
      <3> QED
        BY <1>1, <3>1, <3>2, AccountsParts, ReleaseWakes DEF Awake
    <2>2. CASE WorkerStart(w)
      BY <1>1, <1>2, <2>2, TakeNextAwake DEF WorkerStart
    <2>3. CASE GetSlot(w)
      <3> DEFINE s == Leave(sem, w)
      <3>1. w \in sem.granted
        BY <2>3 DEF GetSlot
      <3>2. s \in Sems /\ s.free \in Nat /\ Range(s.waiters) = Waiting \ {w}
        BY <1>1, <3>1, GrantedLeaves, AccountsParts
      <3>3. /\ sem' = IF s.free > 0 THEN WakeNext(s) ELSE s
            /\ asked' = asked
        BY <2>3 DEF GetSlot
      <3> HIDE DEF s
      <3>4. WakeNext(s).waiters = s.waiters
        BY <3>2 DEF WakeNext, Sems
      <3>5. Awake(sem') /\ w \notin Range(sem'.waiters)
        BY <3>2, <3>3, <3>4, WakeNextWakes DEF Awake
      <3> QED
        BY <3>3, <3>5, AwakeAfter
    <2>4. CASE CancelWaiting(w)
      <3>1. w \in Waiting /\ asked' = asked \ {w}
        BY <2>4 DEF CancelWaiting, Waiting
      <3>2. CASE w \in sem.granted
        <4>1. /\ Accounts(Leave(sem, w), Running \cup {w})
              /\ Range(Leave(sem, w).waiters) = Waiting \ {w}
          BY <1>1, <3>2, GrantedLeaves
        <4>2. /\ Release(Leave(sem, w)).waiters = Leave(sem, w).waiters
              /\ Leave(sem, w) \in Sems
          <5>1. w \in Running \cup {w}
            OBVIOUS
          <5>2. Release(Leave(sem, w)).waiters = Leave(sem, w).waiters
            BY <4>1, <5>1, ReleaseAccounts
          <5> QED
            BY <4>1, <5>2, AccountsParts
        <4>3. sem' = Release(Leave(sem, w))
          BY <2>4, <3>2 DEF CancelWaiting
        <4>4. Awake(sem') /\ w \notin Range(sem'.waiters)
          BY <4>1, <4>2, <4>3, ReleaseWakes DEF Awake
        <4> QED
          BY <3>1, <4>4, AwakeAfter
      <3>3. CASE w \notin sem.granted
        <4>1. sem' = Leave(sem, w) /\ Range(Leave(sem, w).waiters) = Waiting \ {w}
          BY <1>1, <2>4, <3>1, <3>3, OthersLeave DEF CancelWaiting
        <4>2. sem'.free = sem.free /\ sem'.granted = sem.granted
          BY <3>3, <4>1 DEF Leave
        <4>3. Wakeable(sem') \subseteq Wakeable(sem)
          BY <1>1, <4>1, <4>2 DEF Wakeable
        <4>4. Awake(sem') /\ w \notin Range(sem'.waiters)
          BY <1>2, <4>1, <4>2, <4>3 DEF Awake
        <4> QED
          BY <3>1, <4>4, AwakeAfter
      <3> QED
        BY <3>2, <3>3
    <2>5. ASSUME at[w] = "running", sem' = Release(sem), asked \ {w} \subseteq asked'
          PROVE  NoLostWakeup'
      <3>1. w \in Running
        BY <2>5 DEF Running
      <3> QED
        BY <2>1, <2>5, <3>1, AwakeAfter
    <2>6. ASSUME at[w] = "running", sem' = sem, asked \ {w} \subseteq asked'
          PROVE  NoLostWakeup'
      <3>1. w \in Running
        BY <2>6 DEF Running
      <3> QED
        BY <1>2, <2>1, <2>6, <3>1, AwakeAfter
    <2>7. CASE CallSucceeds(w)
      <3>1. w \in Running
        BY <2>7 DEF CallSucceeds, Running
      <3> QED
        BY <2>1, <2>7, <3>1, TakeNextAwake DEF CallSucceeds
    <2>8. CASE \E kind \in ErrorKinds : CallFails(w, kind)
      BY <2>5, <2>6, <2>8 DEF CallFails, AttemptFails, EndCall, Retry
    <2>9. CASE CancelRunning(w) \/ CancelRaises(w)
      BY <2>5, <2>6, <2>9 DEF CancelRunning, CancelRaises, AttemptFails, EndCall, Retry
    <2> QED
      BY <1>4, <2>2, <2>3, <2>4, <2>7, <2>8, <2>9 DEF WorkerStep, GeminiStep
  <1>5. ASSUME NEW r \in Requests,
               \/ Arrive(r) \/ ParentStep(r) \/ CleanupStep(r)
               \/ \E by \in {"deadline", "outer"} : CancelParent(r, by)
        PROVE  NoLostWakeup'
    <2>1. sem' = sem /\ asked \subseteq asked'
      BY <1>5 DEF Arrive, ParentStep, CleanupStep, CancelParent, WorkersWake,
                  ParentCancelled, ParentReturns, StopWorkers, WorkersStopped,
                  EnterCleanup, Finish, workerVars
    <2> QED
      BY <1>3, <2>1
  <1>6. CASE UNCHANGED vars
    BY <1>3, <1>6 DEF vars
  <1> QED
    BY <1>4, <1>5, <1>6 DEF Next, Quiet

\* While a permit is free, a live waiter is left waiting only when another was
\* just woken: no order of cancellations and releases loses a wake-up.
THEOREM WakeupsReachWaiters == Spec => []NoLostWakeup
  <1>1. Init => NoLostWakeup
    BY EmptySeq DEF Init, NoLostWakeup, Wakeable, Range
  <1> QED
    BY <1>1, Invariance, WakeupsKept, PTL DEF Spec
-----------------------------------------------------------------------------
(***************************************************************************)
(* Chunks and their workers.  Who is on which chunk does not depend on the *)
(* semaphore: a worker's step is one of four moves.                        *)
(***************************************************************************)
Open == {"waiting", "running"}

Active == {w \in Workers : at[w] \in Open}

\* A woken waiter begins its call.
Begins(w) ==
    /\ at[w] = "waiting"
    /\ at' = [at EXCEPT ![w] = "running"]
    /\ trace' = SetTrace(trace, w, "running")
    /\ UNCHANGED <<chunk, todo>>

\* A worker ends on its chunk, for a cause.
Ends(w, place, status) ==
    /\ at[w] \in Open
    /\ at' = [at EXCEPT ![w] = place]
    /\ trace' = SetTrace(trace, w, status)
    /\ \/ place = "cancelled" /\ status = "cancelled" /\ w \in asked
       \/ place = "bug" /\ status = "bug"
       \/ place = "http" /\ status \in HttpFailures
    /\ UNCHANGED <<chunk, todo>>

\* A worker without a chunk finds none left, or takes the next.
Returns(w, tr) ==
    /\ todo[w[1]] > Chunks[w[1]]
    /\ at' = [at EXCEPT ![w] = "returned"]
    /\ trace' = tr
    /\ UNCHANGED <<chunk, todo>>

Takes(w, tr) ==
    /\ todo[w[1]] <= Chunks[w[1]]
    /\ todo' = [todo EXCEPT ![w[1]] = @ + 1]
    /\ chunk' = [chunk EXCEPT ![w] = todo[w[1]]]
    /\ \E p \in Open : /\ at' = [at EXCEPT ![w] = p]
                       /\ trace' = [tr EXCEPT ![w[1]][todo[w[1]]] = p]

\* What the traces are when a worker asks for its next chunk.
Asks(w, tr) ==
    \/ at[w] = "created" /\ tr = trace
    \/ at[w] = "running" /\ tr = SetTrace(trace, w, "ok")

\* The steps of a worker's task are these moves, or change no place, chunk or
\* trace; none of them touches the requests' tasks.
LEMMA WorkerMoves ==
    ASSUME WorkerTypes, NEW w \in Workers,
           WorkerStep(w) \/ GeminiStep(w) \/ CancelRaises(w)
    PROVE  /\ at[w] \in Open \cup {"created"}
           /\ UNCHANGED parentVars
           /\ asked' \subseteq asked
           /\ \/ UNCHANGED <<at, chunk, todo, trace>>
              \/ Begins(w)
              \/ \E place, status : Ends(w, place, status)
              \/ \E tr : Asks(w, tr) /\ (Returns(w, tr) \/ Takes(w, tr))
  <1>1. ASSUME NEW s, NEW tr, TakeNext(w, s, tr)
        PROVE  Returns(w, tr) \/ Takes(w, tr)
    BY <1>1 DEF TakeNext, Returns, Takes, Open
  <1>2. CASE WorkerStart(w)
    BY <1>1, <1>2 DEF WorkerStart, Asks, Open
  <1>3. CASE GetSlot(w)
    BY <1>3 DEF GetSlot, Begins, Open
  <1>4. CASE CancelWaiting(w)
    <2>1. Ends(w, "cancelled", "cancelled")
      BY <1>4 DEF CancelWaiting, Ends, Open
    <2> QED
      BY <1>4, <2>1 DEF CancelWaiting, Open
  <1>5. CASE CancelRunning(w)
    <2>1. Ends(w, "cancelled", "cancelled")
      BY <1>5 DEF CancelRunning, EndCall, Ends, Open
    <2> QED
      BY <1>5, <2>1 DEF CancelRunning, Open
  <1>6. CASE CallSucceeds(w)
    BY <1>1, <1>6 DEF CallSucceeds, Asks, Open
  <1>7. CASE \E kind \in ErrorKinds : CallFails(w, kind)
    <2>1. PICK kind \in ErrorKinds : CallFails(w, kind)
      BY <1>7
    <2>2. CASE Retry(w)
      BY <2>1, <2>2 DEF CallFails, Retry, Open
    <2>3. CASE EndCall(w, IF kind = "bug" THEN "bug" ELSE "http", kind)
      <3>1. Ends(w, IF kind = "bug" THEN "bug" ELSE "http", kind)
        BY <2>1, <2>3, ConstantsOK DEF CallFails, EndCall, Ends, Open, HttpFailures
      <3> QED
        BY <2>1, <3>1 DEF CallFails, Open
    <2> QED
      BY <2>1, <2>2, <2>3 DEF CallFails, AttemptFails
  <1>8. CASE CancelRaises(w)
    <2>1. PICK kind \in ErrorKinds : AttemptFails(w, kind)
      BY <1>8 DEF CancelRaises
    <2>2. CASE Retry(w)
      BY <1>8, <2>2 DEF CancelRaises, Retry, Open
    <2>3. CASE EndCall(w, IF kind = "bug" THEN "bug" ELSE "http", kind)
      <3>1. Ends(w, IF kind = "bug" THEN "bug" ELSE "http", kind)
        BY <1>8, <2>1, <2>3, ConstantsOK DEF CancelRaises, EndCall, Ends, Open, HttpFailures
      <3> QED
        BY <1>8, <3>1 DEF CancelRaises, Open
    <2> QED
      BY <2>1, <2>2, <2>3 DEF AttemptFails
  <1> QED
    BY <1>2, <1>3, <1>4, <1>5, <1>6, <1>7, <1>8 DEF WorkerStep, GeminiStep

\* The workers of A are on the open chunks of the traces tr, one on each, and
\* the chunks from todo on were not started.
Held(A, tr) ==
    /\ \A w \in A : chunk[w] \in 1..Chunks[w[1]] /\ tr[w[1]][chunk[w]] = at[w]
    /\ \A v, w \in A : v[1] = w[1] /\ chunk[v] = chunk[w] => v = w
    /\ \A r \in Requests : todo[r] > 0
    /\ \A r \in Requests : \A c \in 1..Chunks[r] :
          /\ tr[r][c] \in Open => \E w \in A : w[1] = r /\ chunk[w] = c
          /\ tr[r][c] = "not_started" <=> c >= todo[r]

\* No request has more workers than it created.
OwnInv == \A w \in Workers : at[w] # "absent" => w \in OwnWorkers(w[1])

ChunkInv == Held(Active, trace) /\ OwnInv

\* One entry of the traces is written.
Write(tr, q, d, status) == [tr EXCEPT ![q][d] = status]

\* It changes that entry only.
LEMMA WrittenTrace ==
    ASSUME NEW tr, TypedTrace(tr), NEW q \in Requests, NEW d \in 1..Chunks[q],
           NEW status, NEW r \in Requests, NEW c \in 1..Chunks[r]
    PROVE  Write(tr, q, d, status)[r][c]
               = IF r = q /\ c = d THEN status ELSE tr[r][c]
  BY DEF TypedTrace, Write

\* A worker that settles its chunk is no longer on one.
LEMMA SettledChunk ==
    ASSUME WorkerTypes, Held(Active, trace), NEW w \in Active,
           NEW status \in Statuses \ (Open \cup {"not_started"})
    PROVE  Held(Active \ {w}, SetTrace(trace, w, status))
  <1> DEFINE tr == SetTrace(trace, w, status)
  <1>1. /\ w \in Workers /\ w[1] \in Requests /\ chunk[w] \in 1..Chunks[w[1]]
        /\ trace[w[1]][chunk[w]] \in Open /\ TypedTrace(trace)
    BY DEF Held, Active, Workers, WorkerTypes
  <1>2. ASSUME NEW r \in Requests, NEW c \in 1..Chunks[r]
        PROVE  tr[r][c] = IF r = w[1] /\ c = chunk[w] THEN status ELSE trace[r][c]
    <2>1. tr = Write(trace, w[1], chunk[w], status)
      BY DEF SetTrace, Write
    <2> QED
      BY <1>1, <2>1, WrittenTrace
  <1> HIDE DEF tr
  <1>3. ASSUME NEW v \in Active \ {w}
        PROVE  chunk[v] \in 1..Chunks[v[1]] /\ tr[v[1]][chunk[v]] = at[v]
    <2>1. v[1] \in Requests /\ chunk[v] \in 1..Chunks[v[1]] /\ trace[v[1]][chunk[v]] = at[v]
      BY DEF Held, Active, Workers
    <2>2. ~(v[1] = w[1] /\ chunk[v] = chunk[w])
      BY DEF Held
    <2> QED
      BY <1>2, <2>1, <2>2
  <1>4. ASSUME NEW r \in Requests, NEW c \in 1..Chunks[r]
        PROVE  /\ tr[r][c] \in Open => \E v \in Active \ {w} : v[1] = r /\ chunk[v] = c
               /\ tr[r][c] = "not_started" <=> c >= todo[r]
    BY <1>1, <1>2 DEF Held, Open
  <1> QED
    BY <1>3, <1>4 DEF Held, tr

\* A step of a worker's task keeps every open chunk with its one worker.
LEMMA ChunksHeld ==
    ASSUME IInv, ChunkInv, NEW w \in Workers,
           WorkerStep(w) \/ GeminiStep(w) \/ CancelRaises(w)
    PROVE  ChunkInv'
  <1>1. WorkerTypes /\ Held(Active, trace) /\ TypedTrace(trace) /\ w[1] \in Requests
    BY DEF IInv, WorkerTypes, ChunkInv, Workers
  <1>2. OwnInv'
    <2>1. at[w] # "absent" /\ (at' = at \/ \E place : at' = [at EXCEPT ![w] = place])
      BY <1>1, WorkerMoves DEF Open, Begins, Ends, Returns, Takes
    <2> QED
      BY <1>1, <2>1 DEF ChunkInv, OwnInv, WorkerTypes
  <1>3. CASE UNCHANGED <<at, chunk, todo, trace>>
    BY <1>2, <1>3 DEF ChunkInv, Held, Active
  <1>4. CASE Begins(w)
    <2>1. w \in Active /\ Active' = Active
      BY <1>1, <1>4 DEF Begins, Active, Open, WorkerTypes
    <2>2. chunk[w] \in 1..Chunks[w[1]] /\ trace[w[1]][chunk[w]] = "waiting"
      BY <1>1, <1>4, <2>1 DEF Held, Begins
    <2>3. ASSUME NEW r \in Requests, NEW c \in 1..Chunks[r]
          PROVE  trace'[r][c] = IF r = w[1] /\ c = chunk[w] THEN "running" ELSE trace[r][c]
      <3>1. trace' = Write(trace, w[1], chunk[w], "running")
        BY <1>4 DEF Begins, SetTrace, Write
      <3> QED
        BY <1>1, <2>2, <3>1, WrittenTrace
    <2>4. ASSUME NEW v \in Active
          PROVE  chunk[v] \in 1..Chunks[v[1]] /\ trace'[v[1]][chunk[v]] = at'[v]
      <3>1. v[1] \in Requests /\ v \in Workers
            /\ chunk[v] \in 1..Chunks[v[1]] /\ trace[v[1]][chunk[v]] = at[v]
        BY <1>1 DEF Held, Active, Workers
      <3>2. v[1] = w[1] /\ chunk[v] = chunk[w] => v = w
        BY <1>1, <2>1 DEF Held
      <3>3. at'[v] = IF v = w THEN "running" ELSE at[v]
        BY <1>1, <1>4, <3>1 DEF Begins, WorkerTypes
      <3> QED
        BY <2>3, <3>1, <3>2, <3>3
    <2>5. ASSUME NEW r \in Requests, NEW c \in 1..Chunks[r]
          PROVE  /\ trace'[r][c] \in Open => \E v \in Active : v[1] = r /\ chunk[v] = c
                 /\ trace'[r][c] = "not_started" <=> c >= todo[r]
      <3>1. /\ trace[r][c] \in Open => \E v \in Active : v[1] = r /\ chunk[v] = c
            /\ trace[r][c] = "not_started" <=> c >= todo[r]
        BY <1>1 DEF Held
      <3> QED
        BY <2>1, <2>2, <2>3, <3>1 DEF Open
    <2>6. chunk' = chunk /\ todo' = todo
      BY <1>4 DEF Begins
    <2>7. /\ \A u, v \in Active : u[1] = v[1] /\ chunk[u] = chunk[v] => u = v
          /\ \A r \in Requests : todo[r] > 0
      BY <1>1 DEF Held
    <2>8. Held(Active, trace)'
      BY <2>1, <2>4, <2>5, <2>6, <2>7 DEF Held
    <2> QED
      BY <1>2, <2>8 DEF ChunkInv
  <1>5. ASSUME NEW place, NEW status, Ends(w, place, status) PROVE ChunkInv'
    <2>1. w \in Active /\ Active' = Active \ {w}
      BY <1>1, <1>5 DEF Ends, Active, Open, WorkerTypes
    <2>2. status \in Statuses \ (Open \cup {"not_started"})
      BY <1>5 DEF Ends, Statuses, Open, Failures, HttpFailures
    <2>3. Held(Active \ {w}, trace')
      BY <1>1, <1>5, <2>1, <2>2, SettledChunk DEF Ends
    <2>4. /\ chunk' = chunk /\ todo' = todo
          /\ \A v \in Active \ {w} : at'[v] = at[v]
      BY <1>1, <1>5 DEF Ends, WorkerTypes, Active
    <2>5. Held(Active, trace)'
      BY <2>1, <2>3, <2>4 DEF Held
    <2> QED
      BY <1>2, <2>5 DEF ChunkInv
  <1>6. ASSUME NEW tr, Asks(w, tr), Returns(w, tr) \/ Takes(w, tr) PROVE ChunkInv'
    <2> DEFINE A == Active \ {w}
    <2>1. Held(A, tr) /\ TypedTrace(tr)
      <3>1. CASE at[w] = "created" /\ tr = trace
        <4>1. A = Active
          BY <3>1 DEF Active, Open
        <4> QED
          BY <1>1, <3>1, <4>1
      <3>2. CASE at[w] = "running" /\ tr = SetTrace(trace, w, "ok")
        <4>1. w \in Active /\ "ok" \in Statuses \ (Open \cup {"not_started"})
          BY <3>2 DEF Active, Open, Statuses
        <4> QED
          BY <1>1, <3>2, <4>1, SettledChunk, SetTraceTyped
      <3> QED
        BY <1>6, <3>1, <3>2 DEF Asks
    <2> HIDE DEF A
    <2>2. CASE Returns(w, tr)
      <3>1. Active' = A /\ \A v \in A : at'[v] = at[v]
        BY <1>1, <2>2 DEF Returns, Active, Open, WorkerTypes, A
      <3>2. chunk' = chunk /\ todo' = todo /\ trace' = tr
        BY <2>2 DEF Returns
      <3>3. Held(Active, trace)'
        BY <2>1, <3>1, <3>2 DEF Held
      <3> QED
        BY <1>2, <3>3 DEF ChunkInv
    <2>3. CASE Takes(w, tr)
      <3> DEFINE q == w[1]
                 d == todo[q]
      <3>1. PICK p \in Open : /\ at' = [at EXCEPT ![w] = p]
                              /\ trace' = [tr EXCEPT ![q][d] = p]
        BY <2>3 DEF Takes
      <3>2. /\ todo' = [todo EXCEPT ![q] = d + 1]
            /\ chunk' = [chunk EXCEPT ![w] = d]
            /\ d <= Chunks[q]
        BY <2>3 DEF Takes
      <3>3. /\ Active' = A \cup {w} /\ A \subseteq Workers /\ w \notin A
            /\ at'[w] = p /\ \A v \in A : at'[v] = at[v]
        BY <1>1, <3>1 DEF Active, WorkerTypes, A
      <3>4. /\ chunk'[w] = d /\ \A v \in A : chunk'[v] = chunk[v]
        BY <1>1, <3>2, <3>3 DEF WorkerTypes
      <3>5. /\ d \in Nat /\ todo'[q] = d + 1
            /\ \A r \in Requests \ {q} : todo'[r] = todo[r]
        BY <1>1, <3>2 DEF WorkerTypes
      <3>6. d \in 1..Chunks[q]
        <4>1. Chunks[q] \in Nat /\ d > 0
          BY <1>1, <2>1, ConstantsOK DEF Held
        <4> QED
          BY <3>2, <3>5, <4>1
      <3>7. q \in Requests
        BY <1>1
      <3>8. ASSUME NEW r \in Requests, NEW c \in 1..Chunks[r]
            PROVE  trace'[r][c] = IF r = q /\ c = d THEN p ELSE tr[r][c]
        <4>1. trace' = Write(tr, q, d, p)
          BY <3>1 DEF Write
        <4> HIDE DEF q, d
        <4> QED
          BY <1>1, <2>1, <3>6, <3>7, <4>1, WrittenTrace
      <3> HIDE DEF q, d
      <3>9. q \in Requests /\ q = w[1] /\ \A v \in A : v[1] \in Requests
        BY <1>1, <3>3 DEF q, Workers
      <3>10. ASSUME NEW v \in A
            PROVE  /\ chunk[v] \in 1..Chunks[v[1]] /\ tr[v[1]][chunk[v]] = at[v]
                   /\ ~(v[1] = q /\ chunk[v] = d)
        <4>1. chunk[v] \in 1..Chunks[v[1]] /\ tr[v[1]][chunk[v]] = at[v] /\ at[v] \in Open
          BY <2>1, <3>3 DEF Held, Active, A
        <4>2. tr[q][d] = "not_started"
          BY <2>1, <3>5, <3>6, <3>9 DEF Held, q, d
        <4> QED
          BY <4>1, <4>2 DEF Open
      <3>11. \A v \in A \cup {w} : chunk'[v] \in 1..Chunks[v[1]] /\ trace'[v[1]][chunk'[v]] = at'[v]
        BY <3>3, <3>4, <3>6, <3>8, <3>9, <3>10
      <3>12. \A u, v \in A \cup {w} : u[1] = v[1] /\ chunk'[u] = chunk'[v] => u = v
        BY <2>1, <3>4, <3>9, <3>10 DEF Held
      <3>13. ASSUME NEW r \in Requests, NEW c \in 1..Chunks[r]
             PROVE  /\ trace'[r][c] \in Open => \E v \in A \cup {w} : v[1] = r /\ chunk'[v] = c
                    /\ trace'[r][c] = "not_started" <=> c >= todo'[r]
        <4>1. /\ tr[r][c] \in Open => \E v \in A : v[1] = r /\ chunk[v] = c
              /\ tr[r][c] = "not_started" <=> c >= todo[r]
          BY <2>1 DEF Held
        <4>2. CASE r = q /\ c = d
          BY <3>1, <3>4, <3>5, <3>8, <3>9, <4>2 DEF Open
        <4>3. CASE r = q /\ c # d
          <5>1. c >= todo[r] <=> c >= todo'[r]
            BY <3>5, <4>3 DEF d
          <5> QED
            BY <3>4, <3>8, <4>1, <4>3, <5>1
        <4>4. CASE r # q
          BY <3>4, <3>5, <3>8, <4>1, <4>4
        <4> QED
          BY <4>2, <4>3, <4>4
      <3>14. \A r \in Requests : todo'[r] > 0
        BY <2>1, <3>5 DEF Held
      <3>15. Held(Active, trace)'
        BY <3>3, <3>11, <3>12, <3>13, <3>14 DEF Held
      <3> QED
        BY <1>2, <3>15 DEF ChunkInv
    <2> QED
      BY <1>6, <2>2, <2>3
  <1> QED
    BY <1>1, <1>3, <1>4, <1>5, <1>6, WorkerMoves

\* The tasks of the requests change no place but when workers are created.
LEMMA ParentMoves ==
    ASSUME NEW r \in Requests,
           \/ Arrive(r) \/ ParentStep(r) \/ CleanupStep(r)
           \/ \E by \in {"deadline", "outer"} : CancelParent(r, by)
    PROVE  /\ UNCHANGED <<chunk, todo, trace>>
           /\ Arrive(r) \/ UNCHANGED at
  BY DEF Arrive, ParentStep, CleanupStep, CancelParent, WorkersWake, ParentCancelled,
         ParentReturns, StopWorkers, WorkersStopped, EnterCleanup, Finish, workerVars

\* A request that arrives creates workers that are on no chunk yet.
LEMMA Arrival ==
    ASSUME IInv, NEW r \in Requests, Arrive(r)
    PROVE  /\ \A w \in Workers : at'[w] = IF w \in OwnWorkers(r) THEN "created" ELSE at[w]
           /\ \A w \in OwnWorkers(r) : w \in Workers /\ w[1] = r /\ at[w] = "absent"
           /\ Active' = Active
  <1>1. \A w \in OwnWorkers(r) : w \in Workers /\ w[1] = r
    BY ConstantsOK DEF OwnWorkers, Workers, SmallerOf
  <1>2. \A w \in Workers : at'[w] = IF w \in OwnWorkers(r) THEN "created" ELSE at[w]
    BY DEF Arrive
  <1>3. \A w \in OwnWorkers(r) : at[w] = "absent"
    BY <1>1 DEF Arrive, IInv, ArrivedInv
  <1> QED
    BY <1>1, <1>2, <1>3 DEF Active, Open

\* Every step keeps the chunks with their workers.
LEMMA ChunkInvInductive ==
    /\ Init => ChunkInv
    /\ IInv /\ ChunkInv /\ [Next]_vars => ChunkInv'
  <1>1. ASSUME Init PROVE ChunkInv
    <2>1. Active = {}
      BY <1>1 DEF Init, Active, Open
    <2>2. /\ \A r \in Requests : todo[r] = 1
          /\ \A r \in Requests : \A c \in 1..Chunks[r] : trace[r][c] = "not_started"
      BY <1>1 DEF Init
    <2>3. Held(Active, trace)
      BY <2>1, <2>2, ConstantsOK DEF Held, Open
    <2> QED
      BY <1>1, <2>3 DEF Init, ChunkInv, OwnInv
  <1>2. ASSUME IInv, ChunkInv, [Next]_vars PROVE ChunkInv'
    <2>1. ASSUME UNCHANGED <<at, chunk, todo, trace>> PROVE ChunkInv'
      BY <1>2, <2>1 DEF ChunkInv, Held, Active, OwnInv
    <2>2. ASSUME NEW r \in Requests, Arrive(r) PROVE ChunkInv'
      <3>1. UNCHANGED <<chunk, todo, trace>>
        BY <2>2 DEF Arrive
      <3>2. /\ Active' = Active /\ \A w \in Active : at'[w] = at[w]
            /\ \A w \in Workers : at'[w] = IF w \in OwnWorkers(r) THEN "created" ELSE at[w]
            /\ \A w \in OwnWorkers(r) : w[1] = r
        BY <1>2, <2>2, Arrival DEF Active, Open
      <3>3. OwnInv'
        BY <1>2, <3>2 DEF ChunkInv, OwnInv
      <3> QED
        BY <1>2, <3>1, <3>2, <3>3 DEF ChunkInv, Held
    <2>3. CASE UNCHANGED vars
      BY <2>1, <2>3 DEF vars
    <2>4. CASE Next
      BY <1>2, <2>1, <2>2, <2>3, <2>4, ChunksHeld, ParentMoves DEF Next, Quiet
    <2> QED
      BY <1>2, <2>3, <2>4
  <1> QED
    BY <1>1, <1>2

\* The shared iterator never hands out a chunk twice: a chunk that is waiting
\* or running in the traces is the chunk of exactly one worker, which is in
\* that place, and nobody is on any other chunk.
THEOREM ChunkHasOneWorker == Spec => []OneWorkerPerChunk
  <1>1. ChunkInv => OneWorkerPerChunk
    <2> SUFFICES ASSUME ChunkInv, NEW r \in Requests, NEW c \in 1..Chunks[r]
                 PROVE  LET on == {w \in OwnWorkers(r) : at[w] \in Open /\ chunk[w] = c}
                        IN  IF trace[r][c] \in Open
                            THEN \E w \in on : on = {w} /\ at[w] = trace[r][c]
                            ELSE on = {}
      BY DEF OneWorkerPerChunk, Open
    <2> DEFINE on == {w \in OwnWorkers(r) : at[w] \in Open /\ chunk[w] = c}
    <2>1. OwnWorkers(r) \subseteq Workers /\ \A w \in OwnWorkers(r) : w[1] = r
      BY ConstantsOK DEF OwnWorkers, Workers, SmallerOf
    <2>2. \A w \in on : w \in Active /\ w[1] = r /\ chunk[w] = c
      BY <2>1 DEF Active
    <2>3. \A w \in Active : w[1] = r /\ chunk[w] = c => w \in on
      BY DEF Active, ChunkInv, OwnInv, Open
    <2> HIDE DEF on
    <2>4. Held(Active, trace)
      BY DEF ChunkInv
    <2>5. \A v, w \in on : v = w
      BY <2>2, <2>4 DEF Held
    <2>6. \A w \in on : trace[r][c] = at[w] /\ trace[r][c] \in Open
      BY <2>2, <2>4 DEF Held, Active
    <2>7. trace[r][c] \in Open => \E w \in on : TRUE
      BY <2>3, <2>4 DEF Held
    <2>8. IF trace[r][c] \in Open
          THEN \E w \in on : on = {w} /\ at[w] = trace[r][c]
          ELSE on = {}
      BY <2>5, <2>6, <2>7
    <2> QED
      BY <2>8 DEF on
  <1> QED
    BY <1>1, Invariance, ChunkInvInductive, PTL DEF Spec
-----------------------------------------------------------------------------
(***************************************************************************)
(* The tasks of the requests and their cleanups.                           *)
(***************************************************************************)
\* Where a request, its cancellations and its cleanup are belongs together.
ParentInv ==
    \A r \in Requests :
        /\ parent[r] \in {"new", "waiting"} <=> cleanup[r] = "none"
        /\ cleanup[r] = "done" => AllEnded(r)
        /\ parent[r] = "finished" <=> outcome[r] # "none"
        /\ parent[r] # "finished" /\ cancels[r] # {} => r \in pending \cup carrying
        /\ r \in pending \cup carrying => cancels[r] # {}
        /\ parent[r] = "finished" /\ cancels[r] = {} => cleanup[r] = "done"

\* A worker that ended takes no step, so that a request stays wound up.
LEMMA EndedStay ==
    ASSUME IInv, NEW w \in Workers,
           WorkerStep(w) \/ GeminiStep(w) \/ CancelRaises(w)
    PROVE  /\ \A v \in Workers : at[v] \in Ended => at'[v] = at[v]
           /\ \A r \in Requests : AllEnded(r) => AllEnded(r)'
           /\ \A r \in Requests : w[1] = r /\ w \in OwnWorkers(r) => ~AllEnded(r)
  <1>1. WorkerTypes
    BY DEF IInv
  <1>2. at[w] \notin Ended /\ (at' = at \/ \E place : at' = [at EXCEPT ![w] = place])
    BY <1>1, WorkerMoves DEF Open, Ended, Begins, Ends, Returns, Takes
  <1>3. \A v \in Workers : at[v] \in Ended => at'[v] = at[v]
    BY <1>1, <1>2 DEF WorkerTypes
  <1>4. \A r \in Requests : OwnWorkers(r) \subseteq Workers
    BY ConstantsOK DEF OwnWorkers, Workers, SmallerOf
  <1> QED
    BY <1>2, <1>3, <1>4 DEF AllEnded

\* The answers of a request that is not cancelled.
LEMMA OutcomeKinds ==
    ASSUME NEW r \in Requests
    PROVE  /\ WorkersOutcome(r) \in HttpFailures \cup {"200", "500"}
           /\ CancelOutcome(r) \in {"cancelled", "504"}
           /\ CancelOutcome(r) = "cancelled" <=> "outer" \in cancels[r]
  <1>1. Failed(r, HttpFailures) # {} => PickFailure(r) \in HttpFailures
    BY PickedFailure
  <1> QED
    BY <1>1 DEF WorkersOutcome, CancelOutcome

\* Every step keeps requests, cancellations and cleanups together.
LEMMA ParentInvInductive ==
    /\ Init => ParentInv
    /\ IInv /\ ParentInv /\ [Next]_vars => ParentInv'
  <1>1. Init => ParentInv
    BY DEF Init, ParentInv
  <1>2. ASSUME IInv, ParentInv, [Next]_vars PROVE ParentInv'
    <2>1. ParentTypes /\ TypedTrace(trace)
      BY <1>2 DEF IInv, WorkerTypes
    <2>2. ASSUME NEW w \in Workers,
                 WorkerStep(w) \/ GeminiStep(w) \/ CancelRaises(w)
          PROVE  ParentInv'
      <3>1. UNCHANGED parentVars
        BY <1>2, <2>2, WorkerMoves DEF IInv
      <3>2. \A r \in Requests : AllEnded(r) => AllEnded(r)'
        BY <1>2, <2>2, EndedStay
      <3> QED
        BY <1>2, <3>1, <3>2 DEF ParentInv, parentVars
    <2>3. ASSUME NEW r \in Requests, Arrive(r) PROVE ParentInv'
      <3>1. \A q \in Requests : AllEnded(q) /\ q # r => AllEnded(q)'
        <4>1. \A q \in Requests : \A w \in OwnWorkers(q) : w \in Workers /\ w[1] = q
          BY ConstantsOK DEF OwnWorkers, Workers, SmallerOf
        <4> QED
          BY <1>2, <2>3, <4>1, Arrival DEF AllEnded
      <3>2. parent[r] = "new" /\ parent' = [parent EXCEPT ![r] = "waiting"]
            /\ UNCHANGED <<cancels, pending, carrying, cleanup, outcome>>
        BY <2>3 DEF Arrive
      <3> QED
        BY <1>2, <2>1, <3>1, <3>2 DEF ParentInv, ParentTypes
    <2>4. ASSUME NEW r \in Requests, UNCHANGED at PROVE AllEnded(r)' <=> AllEnded(r)
      BY <2>4 DEF AllEnded
    <2>5. ASSUME NEW r \in Requests, WorkersWake(r) PROVE ParentInv'
      BY <1>2, <2>1, <2>4, <2>5 DEF WorkersWake, EnterCleanup, workerVars, ParentInv, ParentTypes
    <2>6. ASSUME NEW r \in Requests, ParentCancelled(r) PROVE ParentInv'
      <3>1. CASE parent[r] = "waiting"
        BY <1>2, <2>1, <2>4, <2>6, <3>1
           DEF ParentCancelled, EnterCleanup, workerVars, ParentInv, ParentTypes
      <3>2. CASE parent[r] = "cleanup"
        <4>1. CancelOutcome(r) # "none"
          BY DEF CancelOutcome
        <4> QED
          BY <1>2, <2>1, <2>4, <2>6, <3>2, <4>1
             DEF ParentCancelled, Finish, workerVars, ParentInv, ParentTypes
      <3> QED
        BY <2>6, <3>1, <3>2 DEF ParentCancelled
    <2>7. ASSUME NEW r \in Requests, ParentReturns(r) PROVE ParentInv'
      <3>1. CancelOutcome(r) # "none" /\ WorkersOutcome(r) # "none"
        BY <2>1, OutcomeKinds DEF HttpFailures
      <3> QED
        BY <1>2, <2>1, <2>4, <2>7, <3>1
           DEF ParentReturns, Finish, workerVars, ParentInv, ParentTypes
    <2>8. ASSUME NEW r \in Requests, CleanupStep(r) PROVE ParentInv'
      BY <1>2, <2>1, <2>4, <2>8
         DEF CleanupStep, StopWorkers, WorkersStopped, workerVars, ParentInv, ParentTypes
    <2>9. ASSUME NEW r \in Requests, NEW by, CancelParent(r, by) PROVE ParentInv'
      BY <1>2, <2>1, <2>4, <2>9 DEF CancelParent, workerVars, ParentInv, ParentTypes
    <2>10. CASE UNCHANGED vars
      BY <1>2, <2>4, <2>10 DEF vars, ParentInv
    <2> QED
      BY <1>2, <2>2, <2>3, <2>5, <2>6, <2>7, <2>8, <2>9, <2>10
         DEF Next, ParentStep, Quiet
  <1> QED
    BY <1>1, <1>2

\* A request that was answered without a cancellation left no worker behind;
\* one that left early has a cleanup task that still looks after them.
THEOREM NoWorkerLeftBehind == Spec => []NoStrayWorker
  <1>1. IInv /\ ParentInv => NoStrayWorker
    BY DEF IInv, ParentTypes, ParentInv, NoStrayWorker
  <1> QED
    BY <1>1, Invariance, ParentInvInductive, PTL DEF Spec
-----------------------------------------------------------------------------
(***************************************************************************)
(* What happened to the chunks, and what the client is told about it.      *)
(***************************************************************************)
\* What a step of w may do to the place of w and to the chunks.
LEMMA StepEffects ==
    ASSUME IInv, ChunkInv, NEW w \in Workers,
           WorkerStep(w) \/ GeminiStep(w) \/ CancelRaises(w)
    PROVE  /\ \A v \in Workers : v # w => at'[v] = at[v]
           /\ \A r \in Requests : todo'[r] >= todo[r]
           /\ \/ at'[w] \in {"created"} \cup Open
              \/ at'[w] = "cancelled" /\ w \in asked
              \/ at'[w] = "returned" /\ todo'[w[1]] > Chunks[w[1]]
              \/ at'[w] = "bug" /\ Failed(w[1], {"bug"})' # {}
              \/ at'[w] = "http" /\ Failed(w[1], HttpFailures)' # {}
           /\ \A r \in Requests : \A c \in 1..Chunks[r] :
                 \/ trace'[r][c] = trace[r][c]
                 \/ /\ r = w[1] /\ trace[r][c] \in Open \cup {"not_started"}
                    /\ \/ trace'[r][c] \in Open \cup {"ok"}
                       \/ trace'[r][c] = "cancelled" /\ w \in asked
                       \/ trace'[r][c] = "bug" /\ at'[w] = "bug"
                       \/ trace'[r][c] \in HttpFailures /\ at'[w] = "http"
  <1> DEFINE q == w[1]
  <1>1. /\ WorkerTypes /\ TypedTrace(trace) /\ q \in Requests /\ Held(Active, trace)
        /\ at[w] \in Open \cup {"created"}
    BY WorkerMoves DEF IInv, WorkerTypes, ChunkInv, Workers
  <1>2. at[w] \in Open => chunk[w] \in 1..Chunks[q] /\ trace[q][chunk[w]] = at[w]
    BY <1>1 DEF Held, Active
  <1>3. ASSUME at[w] \in Open, NEW status, NEW r \in Requests, NEW c \in 1..Chunks[r]
        PROVE  SetTrace(trace, w, status)[r][c]
                   = IF r = q /\ c = chunk[w] THEN status ELSE trace[r][c]
    <2>1. SetTrace(trace, w, status) = Write(trace, q, chunk[w], status)
      BY DEF SetTrace, Write
    <2> HIDE DEF q
    <2> QED
      BY <1>1, <1>2, <1>3, <2>1, WrittenTrace
  <1>4. CASE UNCHANGED <<at, chunk, todo, trace>>
    BY <1>1, <1>4 DEF WorkerTypes
  <1>5. CASE Begins(w)
    <2>1. at[w] \in Open /\ trace' = SetTrace(trace, w, "running") /\ todo' = todo
      BY <1>5 DEF Begins, Open
    <2>2. at'[w] = "running" /\ \A v \in Workers : v # w => at'[v] = at[v]
      BY <1>1, <1>5 DEF Begins, WorkerTypes
    <2>3. \A r \in Requests : todo'[r] >= todo[r]
      BY <1>1, <2>1 DEF WorkerTypes
    <2>4. ASSUME NEW r \in Requests, NEW c \in 1..Chunks[r]
          PROVE  \/ trace'[r][c] = trace[r][c]
                 \/ r = w[1] /\ trace[r][c] \in Open /\ trace'[r][c] \in Open
      BY <1>2, <1>3, <2>1 DEF Open
    <2> QED
      BY <2>2, <2>3, <2>4 DEF Open
  <1>6. ASSUME NEW place, NEW status, Ends(w, place, status)
        PROVE  /\ \A v \in Workers : v # w => at'[v] = at[v]
               /\ todo' = todo
               /\ \/ at'[w] = "cancelled" /\ w \in asked
                  \/ at'[w] = "bug" /\ Failed(w[1], {"bug"})' # {}
                  \/ at'[w] = "http" /\ Failed(w[1], HttpFailures)' # {}
               /\ \A r \in Requests : \A c \in 1..Chunks[r] :
                     \/ trace'[r][c] = trace[r][c]
                     \/ /\ r = w[1] /\ trace[r][c] \in Open
                        /\ \/ trace'[r][c] = "cancelled" /\ w \in asked
                           \/ trace'[r][c] = "bug" /\ at'[w] = "bug"
                           \/ trace'[r][c] \in HttpFailures /\ at'[w] = "http"
    <2>1. at[w] \in Open /\ trace' = SetTrace(trace, w, status) /\ todo' = todo
      BY <1>6 DEF Ends
    <2>2. at'[w] = place /\ \A v \in Workers : v # w => at'[v] = at[v]
      BY <1>1, <1>6 DEF Ends, WorkerTypes
    <2>3. \/ place = "cancelled" /\ status = "cancelled" /\ w \in asked
          \/ place = "bug" /\ status = "bug"
          \/ place = "http" /\ status \in HttpFailures
      BY <1>6 DEF Ends
    <2>4. trace'[q][chunk[w]] = status /\ chunk[w] \in 1..Chunks[q]
      BY <1>1, <1>2, <1>3, <2>1
    <2>5. \A kinds : status \in kinds => Failed(q, kinds)' # {}
      BY <2>4 DEF Failed
    <2>6. \/ at'[w] = "cancelled" /\ w \in asked
          \/ at'[w] = "bug" /\ Failed(q, {"bug"})' # {}
          \/ at'[w] = "http" /\ Failed(q, HttpFailures)' # {}
      BY <2>2, <2>3, <2>5
    <2>7. ASSUME NEW r \in Requests, NEW c \in 1..Chunks[r]
          PROVE  \/ trace'[r][c] = trace[r][c]
                 \/ r = q /\ trace[r][c] \in Open /\ trace'[r][c] = status
      BY <1>2, <1>3, <2>1
    <2> QED
      BY <2>1, <2>2, <2>3, <2>6, <2>7
  <1>7. ASSUME NEW tr, Asks(w, tr), Returns(w, tr) \/ Takes(w, tr)
        PROVE  /\ \A v \in Workers : v # w => at'[v] = at[v]
               /\ \A r \in Requests : todo'[r] >= todo[r]
               /\ \/ at'[w] \in Open
                  \/ at'[w] = "returned" /\ todo'[w[1]] > Chunks[w[1]]
               /\ \A r \in Requests : \A c \in 1..Chunks[r] :
                     \/ trace'[r][c] = trace[r][c]
                     \/ /\ r = w[1] /\ trace[r][c] \in Open \cup {"not_started"}
                        /\ trace'[r][c] \in Open \cup {"ok"}
    <2>1. ASSUME NEW r \in Requests, NEW c \in 1..Chunks[r]
          PROVE  \/ tr[r][c] = trace[r][c]
                 \/ r = q /\ trace[r][c] \in Open /\ tr[r][c] = "ok"
      BY <1>2, <1>3, <1>7 DEF Asks, Open
    <2>2. CASE Returns(w, tr)
      BY <1>1, <2>1, <2>2 DEF Returns, WorkerTypes
    <2>3. CASE Takes(w, tr)
      <3> DEFINE d == todo[q]
      <3>1. PICK p \in Open : /\ at' = [at EXCEPT ![w] = p]
                              /\ trace' = [tr EXCEPT ![q][d] = p]
        BY <2>3 DEF Takes
      <3>2. todo' = [todo EXCEPT ![q] = d + 1] /\ d <= Chunks[q]
        BY <2>3 DEF Takes
      <3>3. d \in Nat /\ d \in 1..Chunks[q]
        <4>1. Chunks[q] \in Nat /\ d \in Nat /\ d > 0
          BY <1>1, ConstantsOK DEF Held, WorkerTypes
        <4> QED
          BY <3>2, <4>1
      <3>4. /\ \A r \in Requests : todo'[r] >= todo[r]
            /\ at'[w] = p /\ \A v \in Workers : v # w => at'[v] = at[v]
        BY <1>1, <3>1, <3>2 DEF WorkerTypes
      <3>5. trace[q][d] = "not_started"
        BY <1>1, <3>3 DEF Held
      <3>6. TypedTrace(tr)
        BY <1>1, <1>7, SetTraceTyped DEF Asks, Statuses
      <3>7. ASSUME NEW r \in Requests, NEW c \in 1..Chunks[r]
            PROVE  trace'[r][c] = IF r = q /\ c = d THEN p ELSE tr[r][c]
        <4>1. trace' = Write(tr, q, d, p)
          BY <3>1 DEF Write
        <4> HIDE DEF q, d
        <4> QED
          BY <1>1, <3>3, <3>6, <4>1, WrittenTrace
      <3> HIDE DEF d
      <3> QED
        BY <2>1, <3>1, <3>4, <3>5, <3>7
    <2> QED
      BY <1>7, <2>2, <2>3
  <1>8. todo' = todo => \A r \in Requests : todo'[r] >= todo[r]
    BY <1>1 DEF WorkerTypes
  <1> HIDE DEF q
  <1>9. CASE \E place, status : Ends(w, place, status)
    <2>1. PICK place, status : Ends(w, place, status)
      BY <1>9
    <2> QED
      BY <1>6, <1>8, <2>1
  <1>10. CASE \E tr : Asks(w, tr) /\ (Returns(w, tr) \/ Takes(w, tr))
    <2>1. PICK tr : Asks(w, tr) /\ (Returns(w, tr) \/ Takes(w, tr))
      BY <1>10
    <2> QED
      BY <1>7, <2>1
  <1> QED
    BY <1>1, <1>4, <1>5, <1>9, <1>10, WorkerMoves

\* A cleanup has told the workers of r to stop.
StoppedOnly(r) == cleanup[r] \in {"stopping", "done"}

\* Places and traces tell the same story: who ended how, on which chunk, and
\* that only a cleanup cancels workers.
BlameInv ==
    /\ \A w \in Workers :
          /\ w \in asked \/ at[w] = "cancelled" => StoppedOnly(w[1])
          /\ at[w] = "returned" => todo[w[1]] > Chunks[w[1]]
          /\ at[w] = "bug" => Failed(w[1], {"bug"}) # {}
          /\ at[w] = "http" => Failed(w[1], HttpFailures) # {}
    /\ \A r \in Requests : \A c \in 1..Chunks[r] :
          /\ trace[r][c] = "cancelled" => StoppedOnly(r)
          /\ trace[r][c] = "bug" => \E w \in OwnWorkers(r) : at[w] = "bug"
          /\ trace[r][c] \in HttpFailures => \E w \in OwnWorkers(r) : at[w] = "http"

\* A step of a worker keeps the story.
LEMMA BlameKept ==
    ASSUME IInv, ChunkInv, BlameInv, NEW w \in Workers,
           WorkerStep(w) \/ GeminiStep(w) \/ CancelRaises(w)
    PROVE  BlameInv'
  <1>1. /\ WorkerTypes /\ asked' \subseteq asked /\ cleanup' = cleanup
        /\ at[w] \in Open \cup {"created"} /\ w[1] \in Requests
    BY WorkerMoves DEF IInv, parentVars, Workers
  <1>2. w \in OwnWorkers(w[1]) /\ \A r \in Requests : OwnWorkers(r) \subseteq Workers
    BY <1>1, ConstantsOK DEF ChunkInv, OwnInv, OwnWorkers, Workers, SmallerOf, Open
  <1>3. ASSUME NEW r \in Requests, NEW kinds, kinds \subseteq Failures,
               Failed(r, kinds) # {}
        PROVE  Failed(r, kinds)' # {}
    <2>1. PICK c \in 1..Chunks[r] : trace[r][c] \in kinds
      BY <1>3 DEF Failed
    <2>2. trace[r][c] \notin Open \cup {"not_started"}
      BY <1>3, <2>1 DEF Failures, HttpFailures, Open
    <2>3. trace'[r][c] = trace[r][c]
      BY <2>2, StepEffects
    <2> QED
      BY <2>1, <2>3 DEF Failed
  <1>4. ASSUME NEW v \in Workers
        PROVE  /\ v \in asked' \/ at'[v] = "cancelled" => StoppedOnly(v[1])'
               /\ at'[v] = "returned" => todo'[v[1]] > Chunks[v[1]]
               /\ at'[v] = "bug" => Failed(v[1], {"bug"})' # {}
               /\ at'[v] = "http" => Failed(v[1], HttpFailures)' # {}
    <2>1. v[1] \in Requests /\ StoppedOnly(v[1])' = StoppedOnly(v[1])
      BY <1>1 DEF Workers, StoppedOnly
    <2>2. CASE v = w
      BY <1>1, <2>1, <2>2, StepEffects DEF BlameInv, Open
    <2>3. CASE v # w
      <3>1. at'[v] = at[v] /\ todo'[v[1]] >= todo[v[1]]
        BY <2>1, <2>3, StepEffects
      <3>2. todo'[v[1]] \in Nat /\ todo[v[1]] \in Nat /\ Chunks[v[1]] \in Nat
        <4>1. WorkerTypes'
          BY WorkerStepKeeps DEF IInv
        <4> QED
          BY <1>1, <2>1, <4>1, ConstantsOK DEF WorkerTypes
      <3>3. {"bug"} \subseteq Failures /\ HttpFailures \subseteq Failures
        BY DEF Failures
      <3>4. todo[v[1]] > Chunks[v[1]] => todo'[v[1]] > Chunks[v[1]]
        BY <3>1, <3>2
      <3> QED
        BY <1>1, <1>3, <2>1, <3>1, <3>3, <3>4 DEF BlameInv
    <2> QED
      BY <2>2, <2>3
  <1>5. ASSUME NEW r \in Requests, NEW c \in 1..Chunks[r]
        PROVE  /\ trace'[r][c] = "cancelled" => StoppedOnly(r)'
               /\ trace'[r][c] = "bug" => \E v \in OwnWorkers(r) : at'[v] = "bug"
               /\ trace'[r][c] \in HttpFailures => \E v \in OwnWorkers(r) : at'[v] = "http"
    <2>1. /\ StoppedOnly(r)' = StoppedOnly(r)
          /\ \A v \in OwnWorkers(r) : at[v] \in Ended => at'[v] = at[v]
      BY <1>1, <1>2, EndedStay DEF StoppedOnly
    <2>2. CASE trace'[r][c] = trace[r][c]
      <3>1. "bug" \in Ended /\ "http" \in Ended
        BY DEF Ended
      <3> QED
        BY <2>1, <2>2, <3>1 DEF BlameInv
    <2>3. CASE trace'[r][c] # trace[r][c]
      <3>1. /\ r = w[1]
            /\ \/ trace'[r][c] \in Open \cup {"ok"}
               \/ trace'[r][c] = "cancelled" /\ w \in asked
               \/ trace'[r][c] = "bug" /\ at'[w] = "bug"
               \/ trace'[r][c] \in HttpFailures /\ at'[w] = "http"
        BY <2>3, StepEffects
      <3> QED
        BY <1>2, <2>1, <3>1 DEF BlameInv, Open, HttpFailures
    <2> QED
      BY <2>2, <2>3
  <1> QED
    BY <1>4, <1>5 DEF BlameInv

\* Every step keeps the story.
LEMMA BlameInvInductive ==
    /\ Init => BlameInv
    /\ IInv /\ ChunkInv /\ ParentInv /\ BlameInv /\ [Next]_vars => BlameInv'
  <1>1. Init => BlameInv
    BY DEF Init, BlameInv, HttpFailures
  <1>2. ASSUME IInv, ChunkInv, ParentInv, BlameInv, [Next]_vars PROVE BlameInv'
    <2>1. ParentTypes /\ \A w \in Workers : w[1] \in Requests
      BY <1>2 DEF IInv, Workers
    <2>2. \A r \in Requests : \A w \in OwnWorkers(r) : w \in Workers /\ w[1] = r
      BY ConstantsOK DEF OwnWorkers, Workers, SmallerOf
    <2>3. ASSUME NEW r \in Requests, Arrive(r) PROVE BlameInv'
      <3>1. UNCHANGED <<todo, trace, asked, cleanup>>
        BY <2>3 DEF Arrive
      <3>2. /\ \A w \in Workers : at'[w] = IF w \in OwnWorkers(r) THEN "created" ELSE at[w]
            /\ \A w \in OwnWorkers(r) : at[w] = "absent"
        BY <1>2, <2>3, Arrival
      <3>3. \A w \in Workers : at'[w] \in Ended => at'[w] = at[w]
        BY <3>2 DEF Ended
      <3>4. \A w \in Workers : at[w] \in Ended => at'[w] = at[w]
        BY <3>2 DEF Ended
      <3>5. {"returned", "http", "bug", "cancelled"} = Ended
        BY DEF Ended
      <3> QED
        BY <1>2, <2>2, <3>1, <3>3, <3>4, <3>5 DEF BlameInv, Failed, StoppedOnly
    <2>4. ASSUME UNCHANGED <<at, todo, trace>>, asked' \subseteq asked,
                 \A r \in Requests : StoppedOnly(r) => StoppedOnly(r)'
          PROVE  BlameInv'
      BY <1>2, <2>1, <2>4 DEF BlameInv, Failed
    <2>5. ASSUME NEW r \in Requests,
                 ParentStep(r) \/ WorkersStopped(r) \/ \E by : CancelParent(r, by)
          PROVE  BlameInv'
      <3>1. UNCHANGED <<at, todo, trace, asked>>
        BY <2>5 DEF ParentStep, WorkersStopped, CancelParent, WorkersWake,
                    ParentCancelled, ParentReturns, EnterCleanup, Finish, workerVars
      <3>2. CASE WorkersWake(r) \/ (ParentCancelled(r) /\ parent[r] = "waiting")
        <4>1. cleanup[r] = "none" /\ cleanup' = [cleanup EXCEPT ![r] = "created"]
          BY <1>2, <3>2 DEF WorkersWake, ParentCancelled, EnterCleanup, ParentInv
        <4>2. \A q \in Requests : StoppedOnly(q) => StoppedOnly(q)'
          BY <2>1, <4>1 DEF StoppedOnly, ParentTypes
        <4> QED
          BY <2>4, <3>1, <4>2
      <3>3. CASE cleanup' = cleanup
        BY <2>4, <3>1, <3>3 DEF StoppedOnly
      <3>4. CASE WorkersStopped(r)
        <4>1. cleanup' = [cleanup EXCEPT ![r] = "done"]
          BY <3>4 DEF WorkersStopped
        <4>2. \A q \in Requests : StoppedOnly(q) => StoppedOnly(q)'
          BY <2>1, <4>1 DEF StoppedOnly, ParentTypes
        <4> QED
          BY <2>4, <3>1, <4>2
      <3>5. \/ WorkersWake(r)
            \/ ParentCancelled(r) /\ parent[r] = "waiting"
            \/ cleanup' = cleanup
            \/ WorkersStopped(r)
        BY <2>5 DEF ParentStep, ParentCancelled, ParentReturns, CancelParent, Finish
      <3> QED
        BY <3>2, <3>3, <3>4, <3>5
    <2>6. ASSUME NEW r \in Requests, StopWorkers(r) PROVE BlameInv'
      <3>1. /\ UNCHANGED <<at, todo, trace>>
            /\ asked' = asked \cup {w \in OwnWorkers(r) : at[w] \notin Ended}
            /\ cleanup' = [cleanup EXCEPT ![r] = "stopping"]
        BY <2>6 DEF StopWorkers, workerVars
      <3>2. /\ \A q \in Requests : StoppedOnly(q) => StoppedOnly(q)'
            /\ StoppedOnly(r)'
        BY <2>1, <3>1 DEF StoppedOnly, ParentTypes
      <3>3. \A w \in asked' : w \in asked \/ w[1] = r
        BY <2>2, <3>1
      <3> QED
        BY <1>2, <2>1, <3>1, <3>2, <3>3 DEF BlameInv, Failed
    <2>7. CASE UNCHANGED vars
      BY <2>4, <2>7 DEF vars, StoppedOnly
    <2> QED
      BY <1>2, <2>3, <2>5, <2>6, <2>7, BlameKept DEF Next, Quiet, CleanupStep, ParentStep
  <1> QED
    BY <1>1, <1>2

\* The request failed, or everything it asked for was written.
Decided(r) ==
    (\E w \in OwnWorkers(r) : at[w] \in {"http", "bug"}) \/ Failed(r, {"ok"}) = 1..Chunks[r]

\* An answer that depends on the chunks is given when they are settled.
AnswerInv ==
    /\ \A r \in Requests : Explained(r)
    /\ OuterCancelPropagates
    /\ \A r \in Requests :
          /\ parent[r] = "cleanup" => r \in carrying \/ Decided(r)
          /\ \/ outcome[r] \in {"none", "cancelled"}
             \/ outcome[r] = "504" /\ "deadline" \in cancels[r]
             \/ cleanup[r] = "done"

\* A request whose workers wake it without a cancellation is decided.
LEMMA WakeDecides ==
    ASSUME IInv, ChunkInv, ParentInv, BlameInv, NEW r \in Requests, WorkersWake(r)
    PROVE  Decided(r)
  <1>1. /\ parent[r] = "waiting" /\ cleanup[r] = "none"
        /\ AllEnded(r) \/ \E w \in OwnWorkers(r) : at[w] \in {"http", "bug"}
    BY DEF WorkersWake, ParentInv
  <1>2. SUFFICES ASSUME AllEnded(r), \A w \in OwnWorkers(r) : at[w] \notin {"http", "bug"}
                 PROVE  Failed(r, {"ok"}) = 1..Chunks[r]
    BY <1>1 DEF Decided
  <1>3. \A w \in OwnWorkers(r) : w \in Workers /\ w[1] = r
    BY ConstantsOK DEF OwnWorkers, Workers, SmallerOf
  <1>4. <<r, 1>> \in OwnWorkers(r) /\ Chunks[r] \in Nat
    BY ConstantsOK DEF OwnWorkers, SmallerOf
  <1>5. \A w \in OwnWorkers(r) : at[w] = "returned"
    BY <1>1, <1>2, <1>3 DEF AllEnded, Ended, BlameInv, StoppedOnly
  <1>6. todo[r] > Chunks[r] /\ todo[r] \in Nat
    <2>1. todo[r] > Chunks[r]
      BY <1>3, <1>4, <1>5 DEF BlameInv
    <2> QED
      BY <2>1 DEF IInv, WorkerTypes
  <1>7. ASSUME NEW c \in 1..Chunks[r] PROVE trace[r][c] = "ok"
    <2>1. trace[r][c] \in Statuses
      BY DEF IInv, WorkerTypes, TypedTrace
    <2>2. trace[r][c] # "not_started"
      BY <1>4, <1>6 DEF ChunkInv, Held
    <2>3. trace[r][c] \notin Open
      <3>1. ASSUME NEW w \in Active, w[1] = r PROVE FALSE
        BY <1>5, <3>1 DEF Active, Open, ChunkInv, OwnInv
      <3> QED
        BY <3>1 DEF ChunkInv, Held
    <2>4. trace[r][c] # "cancelled"
      BY <1>1 DEF BlameInv, StoppedOnly
    <2>5. trace[r][c] # "bug" /\ trace[r][c] \notin HttpFailures
      BY <1>2 DEF BlameInv
    <2> QED
      BY <2>1, <2>2, <2>3, <2>4, <2>5 DEF Statuses, Failures, Open
  <1> QED
    BY <1>7 DEF Failed

\* What the workers' outcome says about the chunks of a decided request.
LEMMA WorkersOutcomeExplained ==
    ASSUME IInv, BlameInv, NEW r \in Requests, AllEnded(r), Decided(r)
    PROVE  LET was(kind) == Failed(r, {kind}) # {}
               result == WorkersOutcome(r)
           IN  /\ result = "200" => Failed(r, {"ok"}) = 1..Chunks[r]
               /\ result = "429" => was("429") /\ ~was("bug")
               /\ result = "502" => was("502") /\ ~was("429") /\ ~was("bug")
               /\ result = "504" => was("504") /\ ~was("429") /\ ~was("bug")
               /\ result = "500" => was("bug")
  <1>1. \A w \in OwnWorkers(r) : w \in Workers /\ w[1] = r
    BY ConstantsOK DEF OwnWorkers, Workers, SmallerOf
  <1>2. CASE \E w \in OwnWorkers(r) : at[w] = "bug"
    <2>1. WorkersOutcome(r) = "500"
      BY <1>2 DEF WorkersOutcome
    <2>2. Failed(r, {"bug"}) # {}
      BY <1>1, <1>2 DEF BlameInv
    <2> QED
      BY <2>1, <2>2
  <1>3. CASE \A w \in OwnWorkers(r) : at[w] # "bug"
    <2>1. Failed(r, {"bug"}) = {}
      BY <1>3 DEF BlameInv, Failed
    <2>2. CASE Failed(r, HttpFailures) # {}
      <3>1. WorkersOutcome(r) = PickFailure(r)
        BY <1>3, <2>2 DEF WorkersOutcome
      <3>2. /\ PickFailure(r) \in HttpFailures
            /\ Failed(r, {PickFailure(r)}) # {}
            /\ Failed(r, {"429"}) # {} => PickFailure(r) = "429"
        BY <2>2, PickedFailure
      <3> QED
        BY <2>1, <3>1, <3>2 DEF HttpFailures
    <2>3. CASE Failed(r, HttpFailures) = {}
      <3>1. \A w \in OwnWorkers(r) : at[w] # "http"
        BY <1>1, <2>3 DEF BlameInv
      <3>2. Failed(r, {"ok"}) = 1..Chunks[r]
        BY <1>3, <3>1 DEF Decided
      <3>3. \A c \in 1..Chunks[r] : trace[r][c] = "ok"
        BY <3>2 DEF Failed
      <3>4. WorkersOutcome(r) = "200"
        BY <1>3, <2>3, <3>3 DEF WorkersOutcome
      <3> QED
        BY <3>2, <3>4
    <2> QED
      BY <2>2, <2>3
  <1> QED
    BY <1>2, <1>3

\* A request that a step does not concern.
LEMMA OthersAnswered ==
    ASSUME NEW r \in Requests,
           Failed(r, {"ok"})' = Failed(r, {"ok"}), Failed(r, {"bug"})' = Failed(r, {"bug"}),
           \A k \in HttpFailures : Failed(r, {k})' = Failed(r, {k}),
           outcome'[r] = outcome[r], cancels'[r] = cancels[r], Explained(r)
    PROVE  Explained(r)'
  BY DEF Explained, HttpFailures

\* The answers stay right, whichever task moves.
LEMMA AnswerInvInductive ==
    /\ Init => AnswerInv
    /\ IInv /\ ChunkInv /\ ParentInv /\ BlameInv /\ AnswerInv /\ [Next]_vars => AnswerInv'
  <1>1. ASSUME Init PROVE AnswerInv
    BY <1>1 DEF Init, AnswerInv, Explained, OuterCancelPropagates
  <1>2. ASSUME IInv, ChunkInv, ParentInv, BlameInv, AnswerInv, [Next]_vars PROVE AnswerInv'
    <2>1. /\ ParentTypes /\ TypedTrace(trace)
          /\ \A r \in Requests : \A w \in OwnWorkers(r) : w \in Workers /\ w[1] = r
      BY <1>2, ConstantsOK DEF IInv, WorkerTypes, OwnWorkers, Workers, SmallerOf
    <2>2. ASSUME NEW w \in Workers,
                 WorkerStep(w) \/ GeminiStep(w) \/ CancelRaises(w)
          PROVE  AnswerInv'
      <3>1. UNCHANGED <<parent, cancels, carrying, cleanup, outcome>>
        BY <1>2, <2>2, WorkerMoves DEF IInv, parentVars
      <3>2. w[1] \in Requests /\ cleanup[w[1]] # "done"
        <4>1. w \in OwnWorkers(w[1])
          BY <1>2, <2>2, WorkerMoves DEF IInv, ChunkInv, OwnInv, Open
        <4>2. ~AllEnded(w[1])
          BY <1>2, <2>2, <4>1, EndedStay DEF Workers
        <4> QED
          BY <1>2, <4>2 DEF ParentInv, Workers
      <3>3. ASSUME NEW r \in Requests PROVE Explained(r)'
        <4>1. CASE r = w[1]
          <5>1. \/ outcome[r] \in {"none", "cancelled"}
                \/ outcome[r] = "504" /\ "deadline" \in cancels[r]
            BY <1>2, <3>2, <4>1 DEF AnswerInv
          <5> QED
            BY <3>1, <5>1 DEF Explained
        <4>2. CASE r # w[1]
          <5>1. \A c \in 1..Chunks[r] : trace'[r][c] = trace[r][c]
            BY <1>2, <2>2, <4>2, StepEffects
          <5>2. \A kinds : Failed(r, kinds)' = Failed(r, kinds)
            BY <5>1 DEF Failed
          <5> QED
            BY <1>2, <3>1, <5>2, OthersAnswered DEF AnswerInv
        <4> QED
          BY <4>1, <4>2
      <3>4. ASSUME NEW r \in Requests, Decided(r) PROVE Decided(r)'
        <4>1. CASE \E v \in OwnWorkers(r) : at[v] \in {"http", "bug"}
          <5>1. PICK v \in OwnWorkers(r) : at[v] \in {"http", "bug"}
            BY <4>1
          <5>2. at'[v] = at[v]
            BY <1>2, <2>1, <2>2, <5>1, EndedStay DEF Ended
          <5> QED
            BY <5>1, <5>2 DEF Decided
        <4>2. CASE Failed(r, {"ok"}) = 1..Chunks[r]
          <5>1. \A c \in 1..Chunks[r] : trace[r][c] = "ok"
            BY <4>2 DEF Failed
          <5>2. \A c \in 1..Chunks[r] : trace'[r][c] = "ok"
            BY <1>2, <2>2, <5>1, StepEffects DEF Open
          <5>3. Failed(r, {"ok"})' = 1..Chunks[r]
            BY <5>2 DEF Failed
          <5> QED
            BY <5>3 DEF Decided
        <4> QED
          BY <3>4, <4>1, <4>2 DEF Decided
      <3>5. OuterCancelPropagates'
        BY <1>2, <3>1 DEF AnswerInv, OuterCancelPropagates
      <3>6. ASSUME NEW r \in Requests
            PROVE  /\ parent'[r] = "cleanup" => r \in carrying' \/ Decided(r)'
                   /\ \/ outcome'[r] \in {"none", "cancelled"}
                      \/ outcome'[r] = "504" /\ "deadline" \in cancels'[r]
                      \/ cleanup'[r] = "done"
        BY <1>2, <3>1, <3>4 DEF AnswerInv
      <3> QED
        BY <3>3, <3>5, <3>6 DEF AnswerInv
    <2>3. ASSUME UNCHANGED trace PROVE \A r \in Requests : \A kinds : Failed(r, kinds)' = Failed(r, kinds)
      BY <2>3 DEF Failed
    <2>4. ASSUME NEW r \in Requests, UNCHANGED <<at, trace>> PROVE Decided(r)' <=> Decided(r)
      BY <2>3, <2>4 DEF Decided
    <2>5. ASSUME UNCHANGED <<at, trace, outcome, cancels>>,
                 \A r \in Requests : cleanup[r] = "done" => cleanup'[r] = "done",
                 \A r \in Requests : parent'[r] = "cleanup" => r \in carrying' \/ Decided(r)
          PROVE  AnswerInv'
      <3>1. \A r \in Requests : Explained(r)'
        BY <1>2, <2>3, <2>5, OthersAnswered DEF AnswerInv
      <3>2. OuterCancelPropagates'
        BY <1>2, <2>5 DEF AnswerInv, OuterCancelPropagates
      <3> QED
        BY <1>2, <2>4, <2>5, <3>1, <3>2 DEF AnswerInv
    <2>6. ASSUME NEW r \in Requests, Arrive(r) PROVE AnswerInv'
      <3>1. /\ UNCHANGED <<trace, outcome, cancels, carrying, cleanup>>
            /\ parent' = [parent EXCEPT ![r] = "waiting"]
        BY <2>6 DEF Arrive
      <3>2. ASSUME NEW q \in Requests, Decided(q) PROVE Decided(q)'
        <4>1. \A w \in OwnWorkers(q) : at[w] # "absent" => at'[w] = at[w]
          BY <1>2, <2>1, <2>6, Arrival
        <4> QED
          BY <2>3, <3>1, <3>2, <4>1 DEF Decided
      <3>3. \A q \in Requests : Explained(q)'
        BY <1>2, <2>3, <3>1, OthersAnswered DEF AnswerInv
      <3>4. OuterCancelPropagates'
        BY <1>2, <3>1 DEF AnswerInv, OuterCancelPropagates
      <3> QED
        BY <1>2, <2>1, <3>1, <3>2, <3>3, <3>4 DEF AnswerInv, ParentTypes
    <2>7. ASSUME NEW r \in Requests, WorkersWake(r) PROVE AnswerInv'
      <3>1. Decided(r)
        BY <1>2, <2>7, WakeDecides
      <3>2. /\ UNCHANGED <<at, trace, outcome, cancels, carrying>>
            /\ parent' = [parent EXCEPT ![r] = "cleanup"]
            /\ cleanup' = [cleanup EXCEPT ![r] = "created"]
            /\ parent[r] = "waiting"
        BY <2>7 DEF WorkersWake, EnterCleanup, workerVars
      <3> QED
        BY <1>2, <2>1, <2>5, <3>1, <3>2 DEF AnswerInv, ParentTypes, ParentInv
    <2>8. ASSUME NEW r \in Requests, CleanupStep(r) PROVE AnswerInv'
      <3>1. /\ UNCHANGED <<at, trace, outcome, cancels, carrying, parent>>
            /\ cleanup[r] # "done"
            /\ \E s : cleanup' = [cleanup EXCEPT ![r] = s]
        BY <2>8 DEF CleanupStep, StopWorkers, WorkersStopped, workerVars
      <3> QED
        BY <1>2, <2>1, <2>5, <3>1 DEF AnswerInv, ParentTypes
    <2>9. ASSUME NEW r \in Requests, NEW by, CancelParent(r, by) PROVE AnswerInv'
      <3>1. /\ UNCHANGED <<at, trace, outcome, carrying, parent, cleanup>>
            /\ cancels' = [cancels EXCEPT ![r] = @ \cup {by}]
            /\ outcome[r] = "none"
        BY <1>2, <2>9 DEF CancelParent, workerVars, ParentInv
      <3>2. \A q \in Requests : q # r => cancels'[q] = cancels[q]
        BY <2>1, <3>1 DEF ParentTypes
      <3>3. ASSUME NEW q \in Requests PROVE Explained(q)'
        <4>1. CASE q = r
          BY <3>1, <4>1 DEF Explained
        <4>2. CASE q # r
          BY <1>2, <2>3, <3>1, <3>2, <4>2, OthersAnswered DEF AnswerInv
        <4> QED
          BY <4>1, <4>2
      <3>4. OuterCancelPropagates'
        BY <1>2, <3>1, <3>2 DEF AnswerInv, OuterCancelPropagates
      <3> QED
        BY <1>2, <2>4, <3>1, <3>2, <3>3, <3>4 DEF AnswerInv
    <2>10. ASSUME NEW r \in Requests, NEW result,
                  parent[r] = "cleanup", Finish(r, result), carrying' = carrying,
                  result = "cancelled" <=> "outer" \in cancels[r],
                  result # "none",
                  \/ result = "cancelled"
                  \/ result = "504" /\ "deadline" \in cancels[r]
                  \/ cleanup[r] = "done" /\ result = WorkersOutcome(r) /\ Decided(r)
           PROVE  AnswerInv'
      <3>1. /\ UNCHANGED <<at, trace, cancels, cleanup>>
            /\ parent' = [parent EXCEPT ![r] = "finished"]
            /\ outcome' = [outcome EXCEPT ![r] = result]
        BY <2>10 DEF Finish, workerVars
      <3>2. outcome'[r] = result /\ \A q \in Requests : q # r => outcome'[q] = outcome[q]
        BY <2>1, <3>1 DEF ParentTypes
      <3>3. ASSUME NEW q \in Requests PROVE Explained(q)'
        <4>1. CASE q = r /\ cleanup[r] = "done" /\ result = WorkersOutcome(r) /\ Decided(r)
          <5>1. AllEnded(r)
            BY <1>2, <4>1 DEF ParentInv
          <5> QED
            BY <1>2, <2>3, <3>1, <3>2, <4>1, <5>1, WorkersOutcomeExplained DEF Explained
        <4>2. CASE q = r /\ (result = "cancelled" \/ (result = "504" /\ "deadline" \in cancels[r]))
          BY <3>1, <3>2, <4>2 DEF Explained
        <4>3. CASE q # r
          BY <1>2, <2>3, <3>1, <3>2, <4>3, OthersAnswered DEF AnswerInv
        <4> QED
          BY <2>10, <4>1, <4>2, <4>3
      <3>4. OuterCancelPropagates'
        BY <1>2, <2>10, <3>1, <3>2 DEF AnswerInv, OuterCancelPropagates
      <3> QED
        BY <1>2, <2>1, <2>4, <2>10, <3>1, <3>2, <3>3, <3>4 DEF AnswerInv, ParentTypes
    <2>11. ASSUME NEW r \in Requests PROVE cancels[r] \subseteq {"deadline", "outer"}
      BY <2>1 DEF ParentTypes
    <2>12. ASSUME NEW r \in Requests, cancels[r] # {}
           PROVE  /\ CancelOutcome(r) = "cancelled" <=> "outer" \in cancels[r]
                  /\ \/ CancelOutcome(r) = "cancelled"
                     \/ CancelOutcome(r) = "504" /\ "deadline" \in cancels[r]
      BY <2>11, <2>12 DEF CancelOutcome
    <2>13. ASSUME NEW r \in Requests, ParentCancelled(r) PROVE AnswerInv'
      <3>1. CASE parent[r] = "waiting"
        <4>1. /\ UNCHANGED <<at, trace, outcome, cancels>>
              /\ carrying' = carrying \cup {r}
              /\ parent' = [parent EXCEPT ![r] = "cleanup"]
              /\ cleanup' = [cleanup EXCEPT ![r] = "created"]
          BY <2>13, <3>1 DEF ParentCancelled, EnterCleanup, workerVars
        <4> QED
          BY <1>2, <2>1, <2>5, <3>1, <4>1 DEF AnswerInv, ParentTypes, ParentInv
      <3>2. CASE parent[r] = "cleanup"
        <4>1. Finish(r, CancelOutcome(r)) /\ carrying' = carrying /\ cancels[r] # {}
          BY <1>2, <2>13, <3>2 DEF ParentCancelled, ParentInv
        <4> QED
          BY <2>10, <2>12, <3>2, <4>1
      <3> QED
        BY <2>13, <3>1, <3>2 DEF ParentCancelled
    <2>14. ASSUME NEW r \in Requests, ParentReturns(r) PROVE AnswerInv'
      <3>1. /\ parent[r] = "cleanup" /\ cleanup[r] = "done" /\ r \notin pending
            /\ carrying' = carrying
        BY <2>14 DEF ParentReturns
      <3>2. CASE r \in carrying
        <4>1. Finish(r, CancelOutcome(r)) /\ cancels[r] # {}
          BY <1>2, <2>14, <3>2 DEF ParentReturns, ParentInv
        <4> QED
          BY <2>10, <2>12, <3>1, <4>1
      <3>3. CASE r \notin carrying
        <4>1. Finish(r, WorkersOutcome(r)) /\ cancels[r] = {} /\ Decided(r)
          BY <1>2, <2>14, <3>1, <3>3 DEF ParentReturns, ParentInv, AnswerInv
        <4>2. WorkersOutcome(r) # "cancelled" /\ WorkersOutcome(r) # "none"
          BY OutcomeKinds DEF HttpFailures
        <4> QED
          BY <2>10, <3>1, <4>1, <4>2
      <3> QED
        BY <3>2, <3>3
    <2>15. CASE UNCHANGED vars
      <3>1. UNCHANGED <<at, trace, outcome, cancels, cleanup, parent, carrying>>
        BY <2>15 DEF vars
      <3> QED
        BY <1>2, <2>5, <3>1 DEF AnswerInv
    <2> QED
      BY <1>2, <2>2, <2>6, <2>7, <2>8, <2>9, <2>13, <2>14, <2>15
         DEF Next, Quiet, ParentStep
  <1> QED
    BY <1>1, <1>2

\* What the client is told agrees with what happened to the chunks, and an
\* outer cancellation is never turned into an HTTP answer.
THEOREM OutcomeTruthful == Spec => []OutcomeRight
  <1>1. AnswerInv => OutcomeRight
    BY DEF AnswerInv, OutcomeRight, OutcomeExplained
  <1> QED
    BY <1>1, Invariance, ChunkInvInductive, ParentInvInductive, BlameInvInductive,
       AnswerInvInductive, PTL DEF Spec
-----------------------------------------------------------------------------
\* A request has its workers when it has arrived; a cleanup has told all that
\* had not ended to stop, and only a request in its cleanup unwinds.
StopInv ==
    \A r \in Requests :
        /\ r \in carrying => parent[r] \in {"cleanup", "finished"}
        /\ parent[r] # "new" => \A w \in OwnWorkers(r) : at[w] # "absent"
        /\ cleanup[r] = "stopping" => \A w \in OwnWorkers(r) :
              at[w] \in Ended \/ (at[w] \in Open /\ w \in asked)

\* A worker that was told to stop ends with its next step.
LEMMA ToldToStop ==
    ASSUME IInv, ~CancelMayRaise, NEW w \in Workers, at[w] \in Open, w \in asked,
           WorkerStep(w) \/ GeminiStep(w) \/ CancelRaises(w)
    PROVE  at' = [at EXCEPT ![w] = "cancelled"]
  BY DEF WorkerStep, GeminiStep, CancelRaises, WorkerStart, GetSlot, CancelWaiting,
         CancelRunning, EndCall, CallSucceeds, CallFails, Open

\* Every step keeps the reach of the cleanups.
LEMMA StopInvInductive ==
    ASSUME ~CancelMayRaise
    PROVE  /\ Init => StopInv
           /\ IInv /\ ChunkInv /\ ParentInv /\ StopInv /\ [Next]_vars => StopInv'
  <1>1. Init => StopInv
    BY DEF Init, StopInv
  <1>2. ASSUME IInv, ChunkInv, ParentInv, StopInv, [Next]_vars PROVE StopInv'
    <2>1. /\ ParentTypes /\ WorkerTypes
          /\ \A r \in Requests : \A w \in OwnWorkers(r) : w \in Workers /\ w[1] = r
      BY <1>2, ConstantsOK DEF IInv, OwnWorkers, Workers, SmallerOf
    <2>2. ASSUME NEW w \in Workers,
                 WorkerStep(w) \/ GeminiStep(w) \/ CancelRaises(w)
          PROVE  StopInv'
      <3>1. UNCHANGED parentVars
        BY <1>2, <2>2, WorkerMoves DEF IInv
      <3>2. \A v \in Workers : v # w => at'[v] = at[v] /\ (v \in asked => v \in asked')
        <4>1. \A v \in Workers : v # w => at'[v] = at[v]
          BY <1>2, <2>2, StepEffects
        <4>2. \A v \in asked : v # w => v \in asked'
          BY <2>2 DEF WorkerStep, GeminiStep, CancelRaises, WorkerStart, GetSlot,
                      CancelWaiting, CancelRunning, CallSucceeds, CallFails
        <4> QED
          BY <4>1, <4>2
      <3>3. at'[w] # "absent" /\ at[w] \notin Ended
        <4>1. at'[w] \in {"created"} \cup Open \cup Ended
          BY <1>2, <2>2, StepEffects DEF Ended
        <4>2. at[w] \in Open \cup {"created"}
          BY <2>1, <2>2, WorkerMoves
        <4> QED
          BY <4>1, <4>2 DEF Open, Ended
      <3>4. at[w] \in Open /\ w \in asked => at'[w] = "cancelled"
        BY <1>2, <2>1, <2>2, ToldToStop DEF WorkerTypes
      <3> QED
        BY <1>2, <2>1, <3>1, <3>2, <3>3, <3>4 DEF StopInv, parentVars, Ended
    <2>3. ASSUME NEW r \in Requests, Arrive(r) PROVE StopInv'
      <3>1. /\ parent[r] = "new" /\ parent' = [parent EXCEPT ![r] = "waiting"]
            /\ UNCHANGED <<asked, carrying, cleanup>>
        BY <2>3 DEF Arrive
      <3>2. \A w \in Workers : at'[w] = IF w \in OwnWorkers(r) THEN "created" ELSE at[w]
        BY <1>2, <2>3, Arrival
      <3>3. cleanup[r] = "none"
        BY <1>2, <3>1 DEF ParentInv
      <3>4. \A q \in Requests : q # r =>
               parent'[q] = parent[q] /\ \A w \in OwnWorkers(q) : at'[w] = at[w]
        BY <2>1, <3>1, <3>2 DEF ParentTypes
      <3>5. parent'[r] = "waiting" /\ \A w \in OwnWorkers(r) : at'[w] = "created"
        BY <2>1, <3>1, <3>2 DEF ParentTypes
      <3> QED
        BY <1>2, <3>1, <3>3, <3>4, <3>5 DEF StopInv
    <2>4. ASSUME NEW r \in Requests, StopWorkers(r) PROVE StopInv'
      <3>1. /\ cleanup' = [cleanup EXCEPT ![r] = "stopping"]
            /\ asked' = asked \cup {w \in OwnWorkers(r) : at[w] \notin Ended}
            /\ cleanup[r] = "created" /\ \A w \in OwnWorkers(r) : at[w] # "created"
            /\ UNCHANGED <<at, parent, carrying>>
        BY <2>4 DEF StopWorkers, workerVars
      <3>2. parent[r] # "new"
        BY <1>2, <3>1 DEF ParentInv
      <3>3. \A w \in OwnWorkers(r) : at[w] \in Ended \cup Open
        BY <1>2, <2>1, <3>1, <3>2 DEF StopInv, WorkerTypes, Places, Open
      <3>4. \A q \in Requests : q # r => cleanup'[q] = cleanup[q]
        BY <2>1, <3>1 DEF ParentTypes
      <3> QED
        BY <1>2, <3>1, <3>3, <3>4 DEF StopInv
    <2>5. ASSUME NEW r \in Requests, WorkersStopped(r) PROVE StopInv'
      BY <1>2, <2>1, <2>5 DEF WorkersStopped, workerVars, StopInv, ParentTypes
    <2>6. ASSUME NEW r \in Requests, ParentStep(r) PROVE StopInv'
      BY <1>2, <2>1, <2>6
         DEF ParentStep, WorkersWake, ParentCancelled, ParentReturns, EnterCleanup, Finish,
             workerVars, StopInv, ParentTypes
    <2>7. ASSUME NEW r \in Requests, NEW by, CancelParent(r, by) PROVE StopInv'
      BY <1>2, <2>7 DEF CancelParent, workerVars, StopInv
    <2>8. CASE UNCHANGED vars
      BY <1>2, <2>8 DEF vars, StopInv
    <2> QED
      BY <1>2, <2>2, <2>3, <2>4, <2>5, <2>6, <2>7, <2>8 DEF Next, CleanupStep, Quiet
  <1> QED
    BY <1>1, <1>2

\* Cancelled while it waits for a slot or for Gemini, a worker is gone with its
\* next step, and no worker of a request is missed (pipeline_generate.py:184):
\* if closing a call raises nothing, a request gets to its end by itself.
THEOREM RequestsNeedNobody ==
    ASSUME ~CancelMayRaise
    PROVE  Spec => []NeedsNobody
  <1>1. IInv /\ ParentInv /\ StopInv => NeedsNobody
    BY DEF ParentInv, StopInv, NeedsNobody, Open
  <1> QED
    BY <1>1, Invariance, ChunkInvInductive, ParentInvInductive, StopInvInductive, PTL DEF Spec
=============================================================================
