--------------------------- MODULE TrainSetProofs ---------------------------
(***************************************************************************)
(* Proofs about the training data, for any photos, travels, quotas and     *)
(* options, and any number of starts: the choice of photos (TrainPhotos),  *)
(* the mission writer (TrainMissions) and the examples (TrainSet).         *)
(***************************************************************************)
EXTENDS TrainSet, SequenceTheorems, FiniteSetTheorems, FunctionTheorems, TLAPS

(***************************************************************************)
(* Sequences whatever their elements are, and rows taken out of them.      *)
(***************************************************************************)
IsSeq(s) == s \in Seq({s[i] : i \in DOMAIN s})

\* A sequence over any set is one.
LEMMA SeqOfAny ==
    ASSUME NEW S, NEW s \in Seq(S)
    PROVE  IsSeq(s)
<1>1. s = [i \in 1..Len(s) |-> s[i]] /\ Len(s) \in Nat /\ DOMAIN s = 1..Len(s)
  OBVIOUS
<1>2. s \in [1..Len(s) -> {s[i] : i \in DOMAIN s}]
  BY <1>1
<1> QED
  BY <1>1, <1>2 DEF IsSeq

\* The domain of a sequence.
LEMMA SeqFacts ==
    ASSUME NEW s, IsSeq(s)
    PROVE  Len(s) \in Nat /\ DOMAIN s = 1..Len(s)
  BY DEF IsSeq

\* The empty sequence.
LEMMA SeqEmpty == IsSeq(<<>>) /\ Len(<<>>) = 0 /\ DOMAIN <<>> = {}
<1>1. <<>> \in Seq({}) /\ Len(<<>>) = 0
  BY EmptySeq
<1>2. DOMAIN <<>> = {}
  BY <1>1
<1> QED
  BY <1>1, <1>2, SeqOfAny

\* What one more element at the end does.
LEMMA SeqAppend ==
    ASSUME NEW s, NEW e, IsSeq(s)
    PROVE  /\ IsSeq(Append(s, e))
           /\ Len(Append(s, e)) = Len(s) + 1
           /\ DOMAIN Append(s, e) = 1..(Len(s) + 1)
           /\ \A i \in 1..Len(s) : Append(s, e)[i] = s[i]
           /\ Append(s, e)[Len(s) + 1] = e
<1> DEFINE S == {s[i] : i \in DOMAIN s} \cup {e}
<1>1. s \in Seq(S)
  <2>1. DOMAIN s = 1..Len(s) /\ Len(s) \in Nat /\ s = [i \in 1..Len(s) |-> s[i]]
    BY DEF IsSeq
  <2>2. s \in [1..Len(s) -> S]
    BY <2>1
  <2> QED
    BY <2>1, <2>2
<1>2. e \in S
  OBVIOUS
<1> HIDE DEF S
<1>3. /\ Append(s, e) \in Seq(S)
      /\ Len(Append(s, e)) = Len(s) + 1
      /\ \A i \in 1..Len(s) : Append(s, e)[i] = s[i]
      /\ Append(s, e)[Len(s) + 1] = e
  BY <1>1, <1>2, AppendProperties
<1>4. DOMAIN Append(s, e) = 1..(Len(s) + 1)
  BY <1>3
<1> QED
  BY <1>3, <1>4, SeqOfAny

\* What joining two sequences does.
LEMMA SeqConcat ==
    ASSUME NEW s, NEW t, IsSeq(s), IsSeq(t)
    PROVE  /\ IsSeq(s \o t)
           /\ Len(s \o t) = Len(s) + Len(t)
           /\ DOMAIN (s \o t) = 1..(Len(s) + Len(t))
           /\ \A i \in 1..Len(s) : (s \o t)[i] = s[i]
           /\ \A i \in 1..Len(t) : (s \o t)[Len(s) + i] = t[i]
           /\ \A i \in DOMAIN (s \o t) :
                (\E j \in DOMAIN s : (s \o t)[i] = s[j]) \/ (\E j \in DOMAIN t : (s \o t)[i] = t[j])
<1> DEFINE S == {s[i] : i \in DOMAIN s} \cup {t[i] : i \in DOMAIN t}
<1>1. s \in Seq(S)
  <2>1. DOMAIN s = 1..Len(s) /\ Len(s) \in Nat /\ s = [i \in 1..Len(s) |-> s[i]]
    BY DEF IsSeq
  <2>2. s \in [1..Len(s) -> S]
    BY <2>1
  <2> QED
    BY <2>1, <2>2
<1>2. t \in Seq(S)
  <2>1. DOMAIN t = 1..Len(t) /\ Len(t) \in Nat /\ t = [i \in 1..Len(t) |-> t[i]]
    BY DEF IsSeq
  <2>2. t \in [1..Len(t) -> S]
    BY <2>1
  <2> QED
    BY <2>1, <2>2
<1> HIDE DEF S
<1>3. /\ s \o t \in Seq(S)
      /\ Len(s \o t) = Len(s) + Len(t)
      /\ \A i \in 1..(Len(s) + Len(t)) : (s \o t)[i] = IF i <= Len(s) THEN s[i] ELSE t[i - Len(s)]
  BY <1>1, <1>2, ConcatProperties
<1>4. Len(s) \in Nat /\ Len(t) \in Nat /\ DOMAIN s = 1..Len(s) /\ DOMAIN t = 1..Len(t)
  BY <1>1, <1>2
<1>5. DOMAIN (s \o t) = 1..(Len(s) + Len(t))
  BY <1>3, <1>4
<1>6. \A i \in 1..Len(s) : (s \o t)[i] = s[i]
  BY <1>3, <1>4
<1>7. \A i \in 1..Len(t) : (s \o t)[Len(s) + i] = t[i]
  BY <1>3, <1>4
<1>8. ASSUME NEW i \in DOMAIN (s \o t)
      PROVE  (\E j \in DOMAIN s : (s \o t)[i] = s[j]) \/ (\E j \in DOMAIN t : (s \o t)[i] = t[j])
  <2>1. CASE i <= Len(s)
    BY <1>4, <1>5, <1>6, <2>1
  <2>2. CASE ~(i <= Len(s))
    <3>1. i - Len(s) \in 1..Len(t) /\ i \in 1..(Len(s) + Len(t))
      BY <1>4, <1>5, <2>2
    <3>2. (s \o t)[i] = t[i - Len(s)]
      BY <1>3, <2>2, <3>1
    <3> QED
      BY <1>4, <3>1, <3>2
  <2> QED
    BY <2>1, <2>2
<1> QED
  BY <1>3, <1>5, <1>6, <1>7, <1>8, SeqOfAny

\* The rows r come from the positions P of s, each position at most once.
TakenFrom(r, s, P) ==
    \E at \in [DOMAIN r -> P] :
        /\ \A n, m \in DOMAIN r : at[n] = at[m] => n = m
        /\ \A n \in DOMAIN r : r[n] = s[at[n]]

\* InOrder takes each position once.
LEMMA InOrderRows ==
    ASSUME NEW s, NEW D, IsFiniteSet(D), NEW key \in [D -> Nat],
           \A i, j \in D : key[i] = key[j] => i = j
    PROVE  /\ Cardinality(D) \in Nat
           /\ DOMAIN InOrder(s, key) = 1..Cardinality(D)
           /\ IsSeq(InOrder(s, key)) /\ Len(InOrder(s, key)) = Cardinality(D)
           /\ TakenFrom(InOrder(s, key), s, D)
<1> DEFINE UpTo(i) == {j \in D : key[j] <= key[i]}
           N == Cardinality(D)
           rank == [i \in D |-> Cardinality(UpTo(i))]
           at == [n \in 1..N |-> CHOOSE i \in D : rank[i] = n]
<1>1. N \in Nat /\ IsFiniteSet(1..N) /\ Cardinality(1..N) = N
  BY FS_CardinalityType, FS_Interval
<1>2. ASSUME NEW i \in D
      PROVE  IsFiniteSet(UpTo(i)) /\ Cardinality(UpTo(i)) \in 1..N /\ Cardinality(UpTo(i)) \in Nat
  <2>1. UpTo(i) \in SUBSET D /\ i \in UpTo(i)
    OBVIOUS
  <2>2. IsFiniteSet(UpTo(i)) /\ Cardinality(UpTo(i)) <= N
    BY <2>1, FS_Subset
  <2>3. Cardinality(UpTo(i)) \in Nat /\ Cardinality(UpTo(i)) # 0
    BY <2>1, <2>2, FS_CardinalityType, FS_EmptySet
  <2> QED
    BY <1>1, <2>2, <2>3
<1>3. ASSUME NEW i \in D, NEW j \in D, key[i] < key[j]
      PROVE  Cardinality(UpTo(i)) # Cardinality(UpTo(j))
  <2>1. UpTo(i) \in SUBSET UpTo(j) /\ j \in UpTo(j) /\ j \notin UpTo(i)
    BY <1>3
  <2>2. IsFiniteSet(UpTo(j))
    BY <1>2
  <2> QED
    BY <2>1, <2>2, FS_Subset
<1>4. rank \in Injection(D, 1..N)
  <2>1. rank \in [D -> 1..N]
    BY <1>2
  <2>2. ASSUME NEW i \in D, NEW j \in D, rank[i] = rank[j]
        PROVE  i = j
    <3>1. key[i] \in Nat /\ key[j] \in Nat
      OBVIOUS
    <3>2. ~(key[i] < key[j]) /\ ~(key[j] < key[i])
      BY <1>3, <2>2
    <3> QED
      BY <3>1, <3>2
  <2> QED
    BY <2>1, <2>2 DEF Injection, IsInjective
<1>5. rank \in Surjection(D, 1..N)
  BY <1>1, <1>4, FS_Injection
<1>6. ASSUME NEW n \in 1..N
      PROVE  \E i \in D : rank[i] = n
  BY <1>5 DEF Surjection
<1>7. at \in [1..N -> D] /\ \A n \in 1..N : rank[at[n]] = n
  BY <1>6
<1>8. \A n \in 1..N : InOrder(s, key)[n] = s[at[n]]
  <2>1. DOMAIN key = D
    OBVIOUS
  <2>2. ASSUME NEW n \in 1..N
        PROVE  (CHOOSE i \in D : Cardinality(UpTo(i)) = n) = at[n]
    <3>1. \A i \in D : rank[i] = Cardinality(UpTo(i))
      OBVIOUS
    <3>2. at[n] = CHOOSE i \in D : rank[i] = n
      OBVIOUS
    <3> HIDE DEF UpTo, rank, at
    <3>3. (CHOOSE i \in D : Cardinality(UpTo(i)) = n) = CHOOSE i \in D : rank[i] = n
      BY <3>1
    <3> QED
      BY <3>2, <3>3
  <2> QED
    BY <2>1, <2>2 DEF InOrder
<1>9. DOMAIN InOrder(s, key) = 1..N
  BY DEF InOrder
<1>10. IsSeq(InOrder(s, key)) /\ Len(InOrder(s, key)) = N
  <2> DEFINE r == InOrder(s, key)
             R == {r[n] : n \in DOMAIN r}
  <2>1. r = [n \in 1..N |-> r[n]]
    BY DEF InOrder
  <2>2. r \in [1..N -> R]
    BY <1>9, <2>1
  <2> HIDE DEF R, r
  <2>3. r \in Seq(R) /\ Len(r) = N
    BY <1>1, <2>2
  <2> QED
    BY <2>3 DEF IsSeq, R, r
<1>11. \A n, m \in 1..N : at[n] = at[m] => n = m
  BY <1>7
<1> HIDE DEF at
<1>12. TakenFrom(InOrder(s, key), s, D)
  <2>1. at \in [DOMAIN InOrder(s, key) -> D]
    BY <1>7, <1>9
  <2>2. \A n, m \in DOMAIN InOrder(s, key) : at[n] = at[m] => n = m
    BY <1>9, <1>11
  <2>3. \A n \in DOMAIN InOrder(s, key) : InOrder(s, key)[n] = s[at[n]]
    BY <1>8, <1>9
  <2> QED
    BY <2>1, <2>2, <2>3, Zenon DEF TakenFrom
<1> QED
  BY <1>1, <1>9, <1>10, <1>12

\* Rows of a sequence at some positions: each position once.
LEMMA KeptRows ==
    ASSUME NEW s, IsSeq(s), NEW P \in SUBSET (DOMAIN s)
    PROVE  /\ IsSeq(Kept(s, P))
           /\ TakenFrom(Kept(s, P), s, P)
<1> DEFINE key == [i \in P |-> i]
<1>1. Len(s) \in Nat /\ P \in SUBSET (1..Len(s))
  BY SeqFacts
<1>2. IsFiniteSet(P)
  BY <1>1, FS_Interval, FS_Subset
<1>3. key \in [P -> Nat] /\ \A i, j \in P : key[i] = key[j] => i = j
  BY <1>1
<1>4. Kept(s, P) = InOrder(s, key)
  BY DEF Kept
<1> HIDE DEF key
<1>5. key \in [P -> Nat]
  BY <1>3
<1>6. \A i, j \in P : key[i] = key[j] => i = j
  BY <1>3
<1>7. IsSeq(InOrder(s, key)) /\ TakenFrom(InOrder(s, key), s, P)
  BY <1>2, <1>5, <1>6, InOrderRows
<1> QED
  BY <1>4, <1>7
-----------------------------------------------------------------------------
(***************************************************************************)
(* The takes of a script and the steps of a take.                          *)
(***************************************************************************)
\* What every take is like: its pools hold photos, of no blocked place unless
\* it is one of the pilot, and only old pairs allow two photos of a visit.
TakeOk(t) ==
    /\ t.group \in {"pilot", "old", "new", "general", "general_spare"}
    /\ t.visitCap \in Nat \ {0} /\ (t.visitCap > 1 => t.group = "old")
    /\ DOMAIN t.pools = 1..Len(t.pools) /\ Len(t.pools) \in Nat \ {0}
    /\ \A i \in DOMAIN t.pools : /\ t.pools[i] \subseteq Photos
                                 /\ t.group # "pilot" => t.pools[i] \cap BlockedPlace = {}

\* The lists of categories, regions and look-alike quotas are not empty.
LEMMA ListsGiven ==
    /\ Len(Categories) \in Nat \ {0} /\ Len(Regions) \in Nat \ {0} /\ Len(LookQuota) \in Nat \ {0}
    /\ DOMAIN Categories = 1..Len(Categories) /\ DOMAIN LookQuota = 1..Len(LookQuota)
<1>1. Categories \in Seq(STRING) /\ Categories # <<>> /\ Regions \in Seq(STRING) /\ Regions # <<>>
  BY PhotosAssumption
<1>2. LookQuota \in Seq([group : {"old", "new"}, place : STRING, n : Nat \ {0}, visitCap : Nat \ {0}])
      /\ LookQuota # <<>>
  BY PhotosAssumption
<1> QED
  BY <1>1, <1>2, EmptySeq

\* A sequence given by its elements.
LEMMA SeqGiven ==
    ASSUME NEW n \in Nat, NEW f, f = [i \in 1..n |-> f[i]]
    PROVE  IsSeq(f) /\ Len(f) = n /\ DOMAIN f = 1..n
<1> DEFINE R == {f[i] : i \in DOMAIN f}
<1>1. DOMAIN f = 1..n
  OBVIOUS
<1>2. f \in [1..n -> R]
  BY <1>1
<1> HIDE DEF R
<1>3. f \in Seq(R) /\ Len(f) = n
  BY <1>2
<1> QED
  BY <1>1, <1>3 DEF IsSeq, R

\* The takes of general photos, one of each category.
LEMMA CategoryTakesOk ==
    ASSUME NEW group \in {"general", "general_spare"}, NEW roles
    PROVE  /\ IsSeq(CategoryTakes(group, roles)) /\ Len(CategoryTakes(group, roles)) = Len(Categories)
           /\ \A c \in DOMAIN CategoryTakes(group, roles) :
                TakeOk(CategoryTakes(group, roles)[c]) /\ CategoryTakes(group, roles)[c].group = group
<1>1. CategoryTakes(group, roles) =
        [c \in 1..Len(Categories) |-> CategoryTakes(group, roles)[c]]
  BY DEF CategoryTakes
<1>2. IsSeq(CategoryTakes(group, roles)) /\ Len(CategoryTakes(group, roles)) = Len(Categories)
      /\ DOMAIN CategoryTakes(group, roles) = 1..Len(Categories)
  BY <1>1, SeqGiven, ListsGiven
<1>3. ASSUME NEW c \in 1..Len(Categories)
      PROVE  TakeOk(CategoryTakes(group, roles)[c]) /\ CategoryTakes(group, roles)[c].group = group
  <2> DEFINE t == CategoryTakes(group, roles)[c]
  <2>1. t.group = group /\ t.visitCap = 1
        /\ t.pools = [r \in 1..Len(Regions) |->
                        {p \in General \ BlockedPlace :
                           Category[p] = Categories[c] /\ Region[p] = Regions[r]}]
    BY DEF CategoryTakes
  <2> HIDE DEF t
  <2>2. t.pools = [r \in 1..Len(Regions) |-> t.pools[r]]
    BY <2>1
  <2>3. DOMAIN t.pools = 1..Len(Regions) /\ Len(t.pools) = Len(Regions)
    BY <2>2, SeqGiven, ListsGiven
  <2>4. \A i \in DOMAIN t.pools : t.pools[i] \subseteq Photos /\ t.pools[i] \cap BlockedPlace = {}
    BY <2>1, <2>3, PhotosAssumption
  <2>5. TakeOk(t)
    BY <2>1, <2>3, <2>4, ListsGiven DEF TakeOk
  <2> QED
    BY <2>1, <2>5 DEF t
<1> QED
  BY <1>2, <1>3

\* The takes of the pilot, one of each category.
LEMMA PilotTakesOk ==
    /\ IsSeq(PilotTakes) /\ Len(PilotTakes) = Len(Categories)
    /\ \A c \in DOMAIN PilotTakes : TakeOk(PilotTakes[c]) /\ PilotTakes[c].group = "pilot"
<1>1. PilotTakes = [c \in 1..Len(Categories) |-> PilotTakes[c]]
  BY DEF PilotTakes
<1>2. IsSeq(PilotTakes) /\ Len(PilotTakes) = Len(Categories) /\ DOMAIN PilotTakes = 1..Len(Categories)
  BY <1>1, SeqGiven, ListsGiven
<1>3. ASSUME NEW c \in 1..Len(Categories)
      PROVE  TakeOk(PilotTakes[c]) /\ PilotTakes[c].group = "pilot"
  <2> DEFINE t == PilotTakes[c]
  <2>1. t.group = "pilot" /\ t.visitCap = 1
        /\ t.pools = [r \in 1..Len(Regions) |->
                        {p \in General : Category[p] = Categories[c] /\ Region[p] = Regions[r]}]
    BY DEF PilotTakes
  <2> HIDE DEF t
  <2>2. t.pools = [r \in 1..Len(Regions) |-> t.pools[r]]
    BY <2>1
  <2>3. DOMAIN t.pools = 1..Len(Regions) /\ Len(t.pools) = Len(Regions)
    BY <2>2, SeqGiven, ListsGiven
  <2>4. \A i \in DOMAIN t.pools : t.pools[i] \subseteq Photos
    BY <2>1, <2>3, PhotosAssumption
  <2>5. TakeOk(t)
    BY <2>1, <2>3, <2>4, ListsGiven DEF TakeOk
  <2> QED
    BY <2>1, <2>5 DEF t
<1> QED
  BY <1>2, <1>3

\* The takes of look-alike places, one of each quota.
LEMMA LookTakesOk ==
    /\ IsSeq(LookTakes) /\ Len(LookTakes) = Len(LookQuota)
    /\ \A i \in DOMAIN LookTakes : TakeOk(LookTakes[i]) /\ LookTakes[i].group \in {"old", "new"}
<1>1. LookTakes = [i \in 1..Len(LookQuota) |-> LookTakes[i]]
  BY DEF LookTakes
<1>2. IsSeq(LookTakes) /\ Len(LookTakes) = Len(LookQuota) /\ DOMAIN LookTakes = 1..Len(LookQuota)
  BY <1>1, SeqGiven, ListsGiven
<1>3. ASSUME NEW i \in 1..Len(LookQuota)
      PROVE  TakeOk(LookTakes[i]) /\ LookTakes[i].group \in {"old", "new"}
  <2> DEFINE t == LookTakes[i]
             q == LookQuota[i]
  <2>1. q \in [group : {"old", "new"}, place : STRING, n : Nat \ {0}, visitCap : Nat \ {0}]
        /\ (q.visitCap > 1 => q.group = "old")
    <3>1. i \in DOMAIN LookQuota
      BY ListsGiven
    <3> DEFINE Q == [group : {"old", "new"}, place : STRING, n : Nat \ {0}, visitCap : Nat \ {0}]
    <3>2. LookQuota \in Seq(Q)
      BY PhotosAssumption
    <3> HIDE DEF Q
    <3>4. LookQuota[i] \in Q
      BY <3>1, <3>2, ElementOfSeq, ListsGiven
    <3>3. \A j \in DOMAIN LookQuota : LookQuota[j].visitCap > 1 => LookQuota[j].group = "old"
      BY PhotosAssumption
    <3> QED
      BY <3>1, <3>3, <3>4 DEF Q
  <2>2. t.group = q.group /\ t.visitCap = q.visitCap
        /\ t.pools = <<{p \in LookItems : Place[p] = q.place}>>
    BY DEF LookTakes
  <2> HIDE DEF t, q
  <2>3. DOMAIN t.pools = {1} /\ Len(t.pools) = 1 /\ t.pools[1] \subseteq LookItems
    BY <2>2
  <2>4. \A j \in DOMAIN t.pools : t.pools[j] \subseteq Photos /\ t.pools[j] \cap BlockedPlace = {}
    BY <2>3, PhotosAssumption
  <2>5. DOMAIN t.pools = 1..Len(t.pools)
    BY <2>3
  <2>6. TakeOk(t)
    BY <2>1, <2>2, <2>3, <2>4, <2>5 DEF TakeOk
  <2> QED
    BY <2>1, <2>2, <2>6 DEF t
<1> QED
  BY <1>2, <1>3

\* The takes of the running script: first the look-alike places, then the
\* general photos, or those of the pilot.
LEMMA TakesOk ==
    /\ IsSeq(Takes) /\ Len(Takes) \in Nat \ {0} /\ DOMAIN Takes = 1..Len(Takes)
    /\ Len(LookTakes) \in Nat \ {0}
    /\ \A i \in 1..Len(Takes) : TakeOk(Takes[i])
    /\ script = "pilot" => \A i \in 1..Len(Takes) : Takes[i].group = "pilot"
    /\ script # "pilot" =>
         /\ Len(LookTakes) < Len(Takes)
         /\ \A i \in 1..Len(Takes) :
              IF i <= Len(LookTakes) THEN Takes[i].group \in {"old", "new"}
              ELSE Takes[i].group \in {"general", "general_spare"}
<1>1. CASE script = "pilot"
  BY <1>1, PilotTakesOk, LookTakesOk, ListsGiven, SeqFacts DEF Takes
<1>2. CASE script # "pilot"
  <2> DEFINE A == LookTakes
             B == CategoryTakes("general", RoleSeq)
             C == CategoryTakes("general_spare", SpareSeq)
  <2>1. /\ IsSeq(A) /\ Len(A) = Len(LookQuota)
        /\ \A i \in DOMAIN A : TakeOk(A[i]) /\ A[i].group \in {"old", "new"}
    BY LookTakesOk
  <2>2. /\ IsSeq(B) /\ Len(B) = Len(Categories)
        /\ \A i \in DOMAIN B : TakeOk(B[i]) /\ B[i].group \in {"general", "general_spare"}
    BY CategoryTakesOk
  <2>3. /\ IsSeq(C) /\ Len(C) = Len(Categories)
        /\ \A i \in DOMAIN C : TakeOk(C[i]) /\ C[i].group \in {"general", "general_spare"}
    BY CategoryTakesOk
  <2>4. Takes = (A \o B) \o C /\ Len(LookTakes) = Len(A)
    BY <1>2 DEF Takes
  <2> HIDE DEF A, B, C
  <2> DEFINE D == A \o B
  <2>5. /\ IsSeq(D) /\ Len(D) = Len(A) + Len(B) /\ DOMAIN D = 1..(Len(A) + Len(B))
        /\ \A i \in 1..Len(A) : D[i] = A[i]
        /\ \A i \in 1..Len(B) : D[Len(A) + i] = B[i]
    BY <2>1, <2>2, SeqConcat, SeqFacts, ListsGiven
  <2> HIDE DEF D
  <2>6. /\ IsSeq(D \o C) /\ Len(D \o C) = Len(D) + Len(C) /\ DOMAIN (D \o C) = 1..(Len(D) + Len(C))
        /\ \A i \in 1..Len(D) : (D \o C)[i] = D[i]
        /\ \A i \in 1..Len(C) : (D \o C)[Len(D) + i] = C[i]
    BY <2>3, <2>5, SeqConcat
  <2>7. Takes = D \o C
    BY <2>4 DEF D
  <2>8. Len(A) \in Nat \ {0} /\ Len(B) \in Nat \ {0} /\ Len(C) \in Nat \ {0}
        /\ DOMAIN A = 1..Len(A) /\ DOMAIN B = 1..Len(B) /\ DOMAIN C = 1..Len(C)
    BY <2>1, <2>2, <2>3, ListsGiven, SeqFacts
  <2>9. Len(Takes) = Len(A) + Len(B) + Len(C) /\ DOMAIN Takes = 1..Len(Takes)
    BY <2>5, <2>6, <2>7
  <2>10. ASSUME NEW i \in 1..Len(Takes)
         PROVE  /\ TakeOk(Takes[i])
                /\ IF i <= Len(LookTakes) THEN Takes[i].group \in {"old", "new"}
                   ELSE Takes[i].group \in {"general", "general_spare"}
    <3>1. CASE i <= Len(A)
      <4>1. i \in 1..Len(A) /\ i \in 1..Len(D)
        BY <2>5, <2>8, <2>9, <3>1
      <4>2. Takes[i] = A[i] /\ i \in DOMAIN A
        BY <2>5, <2>6, <2>7, <2>8, <4>1
      <4> QED
        BY <2>1, <2>4, <3>1, <4>2
    <3>2. CASE Len(A) < i /\ i <= Len(A) + Len(B)
      <4>1. i - Len(A) \in 1..Len(B) /\ Len(A) + (i - Len(A)) = i
        BY <2>8, <3>2
      <4>2. i \in 1..Len(D)
        BY <2>5, <2>8, <3>2
      <4>3. Takes[i] = D[i]
        BY <2>6, <2>7, <4>2
      <4>4. D[Len(A) + (i - Len(A))] = B[i - Len(A)]
        BY <2>5, <4>1
      <4>5. Takes[i] = B[i - Len(A)]
        BY <4>1, <4>3, <4>4
      <4>6. i - Len(A) \in DOMAIN B
        BY <2>8, <4>1
      <4> QED
        BY <2>2, <2>4, <2>8, <3>2, <4>5, <4>6
    <3>3. CASE Len(A) + Len(B) < i
      <4>1. i - Len(D) \in 1..Len(C) /\ Len(D) + (i - Len(D)) = i
        BY <2>5, <2>8, <2>9, <3>3
      <4>2. (D \o C)[Len(D) + (i - Len(D))] = C[i - Len(D)]
        BY <2>6, <4>1
      <4>3. Takes[i] = C[i - Len(D)] /\ i - Len(D) \in DOMAIN C
        BY <2>7, <2>8, <4>1, <4>2
      <4> QED
        BY <2>3, <2>4, <2>8, <2>9, <3>3, <4>3
    <3> QED
      BY <2>8, <2>9, <3>1, <3>2, <3>3
  <2> QED
    BY <1>2, <2>4, <2>6, <2>7, <2>8, <2>9, <2>10
<1> QED
  BY <1>1, <1>2

\* The steps of a take: never more than MaxPerTravel photos of a travel, and
\* two of a visit only where the take allows it.
LEMMA StepRules ==
    ASSUME NEW t, TakeOk(t)
    PROVE  /\ Len(Steps(t)) \in Nat \ {0} /\ DOMAIN Steps(t) = 1..Len(Steps(t))
           /\ \A i \in 1..Len(Steps(t)) :
                /\ Steps(t)[i].cap \in 1..MaxPerTravel
                /\ Steps(t)[i].visits \in Nat \ {0}
                /\ Steps(t)[i].visits > 1 => t.group = "old"
<1>0. MaxPerTravel \in Nat \ {0}
  BY PhotosAssumption
<1>1. CASE t.group = "pilot"
  <2>1. Steps(t) = <<[cap |-> 1, visits |-> 1]>>
    BY <1>1 DEF Steps
  <2>2. Len(Steps(t)) = 1 /\ DOMAIN Steps(t) = {1} /\ Steps(t)[1] = [cap |-> 1, visits |-> 1]
    BY <2>1
  <2> QED
    BY <1>0, <2>2
<1>2. CASE t.group # "pilot"
  <2> DEFINE A == [i \in 1..MaxPerTravel |-> [cap |-> i, visits |-> 1]]
             n == t.visitCap - 1
             B == [v \in 1..n |-> [cap |-> MaxPerTravel, visits |-> v + 1]]
  <2>1. Steps(t) = A \o B
    BY <1>2 DEF Steps
  <2>2. n \in Nat /\ (n > 0 => t.group = "old")
    BY DEF TakeOk
  <2>3. IsSeq(A) /\ Len(A) = MaxPerTravel /\ DOMAIN A = 1..MaxPerTravel
    <3>1. A = [i \in 1..MaxPerTravel |-> A[i]]
      OBVIOUS
    <3> HIDE DEF A
    <3> QED
      BY <1>0, <3>1, SeqGiven
  <2>4. IsSeq(B) /\ Len(B) = n /\ DOMAIN B = 1..n
    <3>1. B = [i \in 1..n |-> B[i]]
      OBVIOUS
    <3> HIDE DEF B, n
    <3> QED
      BY <2>2, <3>1, SeqGiven
  <2>5. \A i \in 1..MaxPerTravel : A[i] = [cap |-> i, visits |-> 1]
    OBVIOUS
  <2>6. \A v \in 1..n : B[v] = [cap |-> MaxPerTravel, visits |-> v + 1]
    OBVIOUS
  <2> HIDE DEF A, B, n
  <2>7. /\ IsSeq(A \o B) /\ Len(A \o B) = MaxPerTravel + n /\ DOMAIN (A \o B) = 1..(MaxPerTravel + n)
        /\ \A i \in DOMAIN (A \o B) :
             (\E j \in 1..MaxPerTravel : (A \o B)[i] = A[j]) \/ (\E j \in 1..n : (A \o B)[i] = B[j])
    <3>1. /\ IsSeq(A \o B) /\ Len(A \o B) = MaxPerTravel + n
          /\ \A i \in DOMAIN (A \o B) :
               (\E j \in DOMAIN A : (A \o B)[i] = A[j]) \/ (\E j \in DOMAIN B : (A \o B)[i] = B[j])
      BY <2>3, <2>4, SeqConcat
    <3> QED
      BY <2>3, <2>4, <3>1, SeqConcat
  <2>8. Len(Steps(t)) = MaxPerTravel + n /\ DOMAIN Steps(t) = 1..Len(Steps(t))
    BY <2>1, <2>7
  <2>9. ASSUME NEW i \in 1..Len(Steps(t))
        PROVE  /\ Steps(t)[i].cap \in 1..MaxPerTravel
               /\ Steps(t)[i].visits \in Nat \ {0}
               /\ Steps(t)[i].visits > 1 => t.group = "old"
    <3>1. CASE \E j \in 1..MaxPerTravel : Steps(t)[i] = A[j]
      <4>1. PICK j \in 1..MaxPerTravel : Steps(t)[i] = A[j]
        BY <3>1
      <4>2. Steps(t)[i] = [cap |-> j, visits |-> 1]
        BY <2>5, <4>1
      <4> QED
        BY <4>2
    <3>2. CASE \E j \in 1..n : Steps(t)[i] = B[j]
      <4>1. PICK j \in 1..n : Steps(t)[i] = B[j]
        BY <3>2
      <4>2. Steps(t)[i] = [cap |-> MaxPerTravel, visits |-> j + 1]
        BY <2>6, <4>1
      <4> QED
        BY <1>0, <2>2, <4>2
    <3> QED
      BY <2>1, <2>7, <2>8, <3>1, <3>2
  <2> QED
    BY <1>0, <2>2, <2>8, <2>9
<1> QED
  BY <1>1, <1>2
-----------------------------------------------------------------------------
(***************************************************************************)
(* The choice of photos.                                                   *)
(***************************************************************************)
\* The shape of the state, and where the chosen photos are kept.
PhotoTypes ==
    /\ script \in {"pilot", "label", "idle", "run550"}
    /\ script = "pilot" => stage \in {"take", "check"}
    /\ script = "run550" => stage \in {"reuse", "take", "reserve", "check", "open", "fill"}
    /\ script \in {"label", "idle"} => stage = "off"
    /\ k \in Nat /\ step \in Nat /\ turn \in Nat /\ got \in Nat /\ runs \in Nat
    /\ pilot \subseteq Photos /\ rows \subseteq Photos /\ IsFiniteSet(rows)
    /\ IsSeq(picked)
    /\ IF stage = "reuse" THEN picked = <<>> /\ reuse = {} ELSE rows = Chosen

\* Where the script is in its takes.
TakeInv ==
    /\ stage = "reuse" => k = 1 /\ step = 1 /\ turn = 1
    /\ stage = "reserve" => script = "run550" /\ k = Len(LookTakes) + 1 /\ step = 1 /\ turn = 1
    /\ stage = "take" => /\ k \in 1..Len(Takes)
                         /\ step \in 1..Len(Steps(Now)) /\ turn \in 1..Len(Now.pools)

\* What SpreadOverSources says, of the counts the sources share.
SpreadInv ==
    script = "run550" =>
      /\ \A t \in {Travel[p] : p \in Photos} : Cardinality({p \in rows : Travel[p] = t}) <= MaxPerTravel
      /\ \A p, q \in rows : p # q =>
           /\ Hash[p] # Hash[q]
           /\ Travel[p] = Travel[q] /\ Visit[p] = Visit[q] =>
                \E i \in DOMAIN picked : /\ picked[i].photo \in {p, q}
                                         /\ picked[i].group = "old" /\ picked[i].second

\* Nothing barred is counted, and travels are reserved after the look-alike
\* places and before the general photos.
BarredInv ==
    script = "run550" =>
      /\ \A p \in rows : /\ Travel[p] \notin Excluded \cup reserved /\ p \notin BlockedPlace
                         /\ Hash[p] \notin EvalHashes \cup DiagHashes
      /\ stage \in {"reuse", "reserve"} \/ (stage = "take" /\ k <= Len(LookTakes)) => reserved = {}

ChoiceInv == PhotoTypes /\ TakeInv /\ SpreadInv /\ BarredInv /\ FreshTravelsFirst

\* The photos of a set that are of one travel, of one visit.
InTravel(R, t) == {q \in R : Travel[q] = t}
InVisit(R, p) == {q \in InTravel(R, Travel[p]) : Visit[q] = Visit[p]}

\* The photos on file, and the travels on file as reserved.
Lists == {"manifest", "general_spare", "lookalike"}
FilePhotos ==
    {p \in Photos :
       \/ "pilot_reuse" \in DOMAIN files /\ p \in files["pilot_reuse"].rows
       \/ \E n \in Lists \cap DOMAIN files : \E i \in DOMAIN files[n].rows : files[n].rows[i].photo = p}
KeptTravels == IF "reserve" \in DOMAIN files THEN files["reserve"].rows ELSE {}

\* Photos that may go to training together, when the travels T are reserved.
Clean(F, T) ==
    /\ IsFiniteSet(F)
    /\ \A p \in F : Travel[p] \notin Excluded \cup T /\ Hash[p] \notin EvalHashes \cup DiagHashes
    /\ \A p, q \in F : p # q => Hash[p] # Hash[q]
    /\ \A t \in {Travel[p] : p \in Photos} : Cardinality(InTravel(F, t)) <= MaxPerTravel

\* The files of a run are opened in one order, the first decides.
OrderInv ==
    /\ OneRunPerFolder
    /\ DOMAIN files # {} => "pilot_reuse" \in DOMAIN files
    /\ stage \in {"open", "fill"} => k \in 1..Len(Outputs)
    /\ stage = "fill" \/ (stage = "open" /\ k > 1) =>
         /\ "pilot_reuse" \in DOMAIN files
         /\ \A n \in DOMAIN files : files[n].run = runs

\* What is on file was chosen by the run that wrote it, so it is clean.
ContentInv ==
    /\ "pilot_reuse" \in DOMAIN files => files["pilot_reuse"].rows \subseteq Photos
    /\ \A n \in Lists \cap DOMAIN files :
         IsSeq(files[n].rows) /\ \A i \in DOMAIN files[n].rows : files[n].rows[i].photo \in Photos
    /\ stage = "fill" \/ (stage = "open" /\ k > 1) => FilePhotos \subseteq rows /\ KeptTravels \subseteq reserved
    /\ Clean(FilePhotos, KeptTravels)

FilesInv == OrderInv /\ ContentInv
-----------------------------------------------------------------------------
(***************************************************************************)
(* The mission writer.                                                     *)
(***************************************************************************)
Pw == {"pw", "pw_plain"}

\* A record with all its fields.
RecOk(r) ==
    /\ r = [photo |-> r.photo, kind |-> r.kind, cond |-> r.cond, parent |-> r.parent, usable |-> r.usable]
    /\ r.kind \in Pw \cup {"swap", "gen"} /\ r.cond \in BOOLEAN /\ r.usable \in BOOLEAN
    /\ r.photo \in FilePhotos

WriterTypes ==
    /\ phase \in {"off", "pw", "swap", "gen"}
    /\ starts \in Nat /\ pos \in Nat \ {0}
    /\ starts = 0 => phase = "off" /\ log = <<>>
    /\ phase = "off" => asked = <<>> /\ source = <<>> /\ genLeft = {}
    /\ IsSeq(source) /\ \A i \in DOMAIN source : source[i].photo \in FilePhotos
    /\ IsSeq(asked) /\ \A i \in DOMAIN asked : RecOk(asked[i])
    /\ IsSeq(log) /\ \A i \in DOMAIN log : RecOk(log[i])
    /\ genLeft \subseteq FilePhotos /\ IsFiniteSet(genLeft)

\* The parent of a swapped mission is on file before it, of the same photo.
SwapInv ==
    \A i \in DOMAIN log : log[i].kind = "swap" =>
      \E j \in 1..(i - 1) :
        /\ log[j].kind \in Pw /\ log[j].usable /\ log[j].photo = log[i].photo
        /\ Id(log[j]) = log[i].parent
        /\ log[j].cond \/ Id(log[j]) \in Success

\* No start asks for more than the most any start asked for.
QuotaTypes ==
    /\ quota = [cond |-> quota.cond, plain |-> quota.plain,
                mostCond |-> quota.mostCond, mostPlain |-> quota.mostPlain]
    /\ quota.cond \in Nat /\ quota.plain \in Nat /\ quota.mostCond \in Nat /\ quota.mostPlain \in Nat
    /\ quota.cond <= quota.mostCond /\ quota.plain <= quota.mostPlain

LogInv == OneRecordPerMission /\ QuotaTypes /\ QuotaKept /\ SwapInv

\* What is on file was tried, and is not asked again.
TriedInv ==
    phase # "off" =>
      \A i \in DOMAIN log : /\ log[i].kind \in Pw => Id(log[i]) \in tried
                            /\ log[i].kind = "gen" => log[i].photo \notin genLeft

\* The call in flight, in each of the phases.
AskInv ==
    Asking =>
      /\ phase = "pw" =>
           LET r == asked[1]
           IN  /\ Len(asked) = 1 /\ r.kind \in Pw /\ Id(r) \in tried
               /\ \A i \in DOMAIN log : Id(log[i]) # Id(r)
               /\ IF r.cond THEN Cardinality(Written(Category[r.photo], TRUE)) < quota.cond
                  ELSE Cardinality(Written(Category[r.photo], FALSE)) < quota.plain
               /\ r.kind = "pw_plain" => ForcedInVain(r.photo) /\ ~r.cond
      /\ phase = "swap" =>
           /\ pos \in DOMAIN targets
           /\ asked = <<Record(targets[pos].photo, "swap", TRUE, Id(targets[pos]))>>
      /\ phase = "gen" =>
           /\ \A i \in DOMAIN asked : /\ asked[i].kind = "gen" /\ asked[i].photo \notin genLeft
                                      /\ \A j \in DOMAIN log : Id(log[j]) # Id(asked[i])
           /\ \A i, j \in DOMAIN asked : asked[i].photo = asked[j].photo => i = j

\* The missions to swap: each photo once, and none of those to come is on file.
TargetInv ==
    phase = "swap" =>
      /\ IsSeq(targets)
      /\ \A t \in DOMAIN targets :
           /\ \E i \in DOMAIN log : log[i] = targets[t]
           /\ targets[t].kind \in Pw /\ targets[t].usable
           /\ targets[t].cond \/ Id(targets[t]) \in Success
           /\ t >= pos => <<targets[t].photo, "swap">> \notin {Id(log[i]) : i \in DOMAIN log}
      /\ \A t, u \in DOMAIN targets : targets[t].photo = targets[u].photo => t = u

\* Nothing is left to write for the photo.
Settled(p) ==
    \/ pw_mode(Category[p]) = "full"
    \/ /\ <<p, "pw">> \in tried
       /\ ForcedInVain(p) /\ Cardinality(Written(Category[p], FALSE)) < quota.plain => <<p, "pw_plain">> \in tried

\* A start without a limit leaves only settled photos behind it.
SettledInv ==
    cap = 0 =>
      /\ phase = "pw" =>
           \A i \in DOMAIN PwRows : i < pos =>
             /\ Settled(PwRows[i].photo)
             /\ Asking /\ asked[1].kind = "pw" => PwRows[i].photo # asked[1].photo
      /\ FullOrUsedUp

WriterInv == WriterTypes /\ LogInv /\ TriedInv /\ AskInv /\ TargetInv /\ SettledInv

\* The examples are made of photos on file.
ExamplesInv == \A e \in examples : e.photo \in FilePhotos

TrainInv == ChoiceInv /\ FilesInv /\ WriterInv /\ ExamplesInv
-----------------------------------------------------------------------------
(***************************************************************************)
(* Proofs about the choice of photos.                                      *)
(***************************************************************************)
\* What the take and its rule say while photos are drawn.
LEMMA TakingFacts ==
    ASSUME PhotoTypes, TakeInv, stage = "take"
    PROVE  /\ script \in {"pilot", "run550"} /\ k \in 1..Len(Takes) /\ Len(Takes) \in Nat
           /\ TakeOk(Now) /\ turn \in DOMAIN Now.pools
           /\ step \in 1..Len(Steps(Now)) /\ Len(Steps(Now)) \in Nat
           /\ Rule.cap \in 1..MaxPerTravel /\ Rule.visits \in Nat \ {0}
           /\ Rule.visits > 1 => Now.group = "old"
           /\ script = "run550" =>
                IF k <= Len(LookTakes) THEN Now.group \in {"old", "new"}
                ELSE Now.group \in {"general", "general_spare"}
<1>1. script \in {"pilot", "run550"} /\ k \in 1..Len(Takes)
      /\ step \in 1..Len(Steps(Now)) /\ turn \in 1..Len(Now.pools)
  BY DEF PhotoTypes, TakeInv
<1>2. Len(Takes) \in Nat /\ TakeOk(Takes[k])
      /\ (script = "run550" => IF k <= Len(LookTakes) THEN Takes[k].group \in {"old", "new"}
                               ELSE Takes[k].group \in {"general", "general_spare"})
  BY <1>1, TakesOk
<1>3. TakeOk(Now) /\ turn \in DOMAIN Now.pools
  BY <1>1, <1>2 DEF Now, TakeOk
<1>4. /\ Len(Steps(Now)) \in Nat
      /\ Rule.cap \in 1..MaxPerTravel /\ Rule.visits \in Nat \ {0}
      /\ Rule.visits > 1 => Now.group = "old"
  BY <1>1, <1>3, StepRules DEF Rule
<1> QED
  BY <1>1, <1>2, <1>3, <1>4 DEF Now

\* The takes only depend on the script.
LEMMA TakesSame ==
    ASSUME script' = script
    PROVE  Takes' = Takes
  BY DEF Takes, PilotTakes, LookTakes, CategoryTakes

\* A take that starts is in range.
LEMMA FirstStep ==
    ASSUME NEW i \in 1..Len(Takes)
    PROVE  1 \in 1..Len(Steps(Takes[i])) /\ 1 \in 1..Len(Takes[i].pools)
<1>1. TakeOk(Takes[i])
  BY TakesOk
<1> QED
  BY <1>1, StepRules DEF TakeOk

\* The end of a take leads to the next one, to the reserve or to the check.
LEMMA TakeEnds ==
    ASSUME PhotoTypes, TakeInv, stage = "take", EndTake, script' = script
    PROVE  /\ TakeInv'
           /\ stage' \in {"take", "reserve", "check"} /\ (stage' = "reserve" => script = "run550")
           /\ k' \in Nat /\ step' = 1 /\ turn' = 1 /\ got' = 0
           /\ script = "run550" /\ (stage' = "reserve" \/ (stage' = "take" /\ k' <= Len(LookTakes)))
                => k <= Len(LookTakes)
<1>1. /\ script \in {"pilot", "run550"} /\ k \in 1..Len(Takes) /\ Len(Takes) \in Nat
      /\ Len(LookTakes) \in Nat /\ Takes' = Takes /\ LookTakes' = LookTakes
  BY TakingFacts, TakesSame, TakesOk DEF LookTakes
<1>2. /\ k' = k + 1 /\ step' = 1 /\ turn' = 1 /\ got' = 0
      /\ stage' = IF k = Len(Takes) THEN "check"
                  ELSE IF script = "run550" /\ k = Len(LookTakes) THEN "reserve" ELSE "take"
  BY DEF EndTake
<1>3. stage' = "take" => k' \in 1..Len(Takes')
  BY <1>1, <1>2
<1>4. stage' = "take" => step' \in 1..Len(Steps(Takes[k'])) /\ turn' \in 1..Len(Takes[k'].pools)
  BY <1>1, <1>2, <1>3, FirstStep
<1>5. Now' = Takes[k']
  BY <1>1 DEF Now
<1>6. stage' = "take" => step' \in 1..Len(Steps(Now)') /\ turn' \in 1..Len(Now'.pools)
  BY <1>4, <1>5 DEF Steps
<1>7. stage' = "reserve" => script' = "run550" /\ k' = Len(LookTakes') + 1
  BY <1>1, <1>2
<1> QED
  BY <1>1, <1>2, <1>3, <1>6, <1>7 DEF TakeInv

\* One more photo of a set, counted by travel.
LEMMA CountOneMore ==
    ASSUME NEW R, IsFiniteSet(R), NEW p, NEW t
    PROVE  /\ Cardinality(InTravel(R, t)) \in Nat /\ Cardinality(InTravel(R \cup {p}, t)) \in Nat
           /\ Cardinality(InTravel(R \cup {p}, t)) <= Cardinality(InTravel(R, t)) + 1
<1> DEFINE S == InTravel(R, t)
           T == InTravel(R \cup {p}, t)
<1>1. IsFiniteSet(S) /\ Cardinality(S) \in Nat
  BY FS_Subset, FS_CardinalityType DEF InTravel
<1>2. T \in {S, S \cup {p}}
  BY DEF InTravel
<1> HIDE DEF S, T
<1>3. IsFiniteSet(S \cup {p}) /\ Cardinality(S \cup {p}) <= Cardinality(S) + 1
  <2>1. /\ IsFiniteSet(S \cup {p})
        /\ Cardinality(S \cup {p}) = IF p \in S THEN Cardinality(S) ELSE Cardinality(S) + 1
    BY <1>1, FS_AddElement
  <2> QED
    BY <1>1, <2>1
<1>4. Cardinality(T) \in Nat /\ Cardinality(T) <= Cardinality(S) + 1
  <2>1. CASE T = S
    BY <1>1, <2>1
  <2>2. CASE T = S \cup {p}
    BY <1>3, <2>2, FS_CardinalityType
  <2> QED
    BY <1>2, <2>1, <2>2
<1> QED
  BY <1>1, <1>2, <1>4 DEF S, T

\* More photos leave less room.
LEMMA CountsGrow ==
    ASSUME NEW R, NEW Q, IsFiniteSet(Q), R \subseteq Q, NEW p
    PROVE  /\ Cardinality(InTravel(R, Travel[p])) \in Nat
           /\ Cardinality(InTravel(Q, Travel[p])) \in Nat
           /\ Cardinality(InTravel(R, Travel[p])) <= Cardinality(InTravel(Q, Travel[p]))
           /\ Cardinality(InVisit(R, p)) \in Nat /\ Cardinality(InVisit(Q, p)) \in Nat
           /\ Cardinality(InVisit(R, p)) <= Cardinality(InVisit(Q, p))
<1> DEFINE A == InTravel(R, Travel[p])
           B == InTravel(Q, Travel[p])
           C == InVisit(R, p)
           D == InVisit(Q, p)
<1>1. IsFiniteSet(B) /\ A \in SUBSET B /\ C \in SUBSET D /\ D \in SUBSET B
  BY FS_Subset DEF InTravel, InVisit
<1> HIDE DEF A, B, C, D
<1>2. IsFiniteSet(A) /\ Cardinality(A) <= Cardinality(B) /\ IsFiniteSet(D)
  BY <1>1, FS_Subset
<1>3. IsFiniteSet(C) /\ Cardinality(C) <= Cardinality(D)
  BY <1>1, <1>2, FS_Subset
<1>4. Cardinality(A) \in Nat /\ Cardinality(B) \in Nat /\ Cardinality(C) \in Nat /\ Cardinality(D) \in Nat
  BY <1>1, <1>2, <1>3, FS_CardinalityType
<1> QED
  BY <1>2, <1>3, <1>4 DEF A, B, C, D

\* The next pool is a pool.
LEMMA NextInRange ==
    ASSUME NEW n \in Nat \ {0}, NEW i \in Nat
    PROVE  (i % n) + 1 \in 1..n
  OBVIOUS

\* What the rules of a take say of the photo drawn.
LEMMA DrawnPhoto ==
    ASSUME PhotoTypes, TakeInv, stage = "take", NEW p \in Drawable(Now, turn, Rule)
    PROVE  /\ p \in Photos /\ p \notin rows
           /\ Cardinality(OfTravel(p)) < MaxPerTravel
           /\ OfVisit(p) # {} => Now.group = "old"
           /\ script = "run550" =>
                /\ p \notin BlockedPlace /\ Travel[p] \notin Excluded
                /\ k > Len(LookTakes) => Travel[p] \notin reserved
                /\ Hash[p] \notin EvalHashes \cup DiagHashes
                /\ \A q \in rows : Hash[q] # Hash[p]
<1>1. /\ script \in {"pilot", "run550"} /\ TakeOk(Now) /\ turn \in DOMAIN Now.pools
      /\ Rule.cap \in 1..MaxPerTravel /\ Rule.visits \in Nat \ {0}
      /\ Rule.visits > 1 => Now.group = "old"
      /\ script = "run550" =>
           IF k <= Len(LookTakes) THEN Now.group \in {"old", "new"}
           ELSE Now.group \in {"general", "general_spare"}
  BY TakingFacts
<1>2. p \in Now.pools[turn] /\ Travel[p] \notin Barred(Now) /\ Fits(p, Rule) /\ ~SameFile(p)
  BY DEF Drawable
<1>3. p \in Photos /\ (Now.group # "pilot" => p \notin BlockedPlace)
  BY <1>1, <1>2 DEF TakeOk
<1>4. p \notin rows /\ Cardinality(OfTravel(p)) < Rule.cap /\ Cardinality(OfVisit(p)) < Rule.visits
  BY <1>2 DEF Fits, Used
<1>5. Cardinality(OfTravel(p)) \in Nat /\ Cardinality(OfVisit(p)) \in Nat
      /\ (OfVisit(p) # {} => Cardinality(OfVisit(p)) # 0)
  <2>1. IsFiniteSet(rows)
    BY DEF PhotoTypes
  <2>2. IsFiniteSet(OfTravel(p))
    BY <2>1, FS_Subset DEF OfTravel
  <2>3. IsFiniteSet(OfVisit(p))
    BY <2>2, FS_Subset DEF OfVisit
  <2> QED
    BY <2>2, <2>3, FS_CardinalityType, FS_EmptySet
<1>6. Cardinality(OfTravel(p)) < MaxPerTravel /\ (OfVisit(p) # {} => Now.group = "old")
  BY <1>1, <1>4, <1>5, PhotosAssumption
<1>7. ASSUME script = "run550"
      PROVE  /\ Now.group # "pilot" /\ Travel[p] \notin Excluded
             /\ k > Len(LookTakes) => Travel[p] \notin reserved
  <2>1. Len(LookTakes) \in Nat /\ k \in Nat
    BY TakesOk DEF PhotoTypes
  <2> QED
    BY <1>1, <1>2, <1>7, <2>1 DEF Barred
<1>8. script = "run550" =>
        Hash[p] \notin EvalHashes \cup DiagHashes /\ \A q \in rows : Hash[q] # Hash[p]
  BY <1>2 DEF SameFile
<1> QED
  BY <1>3, <1>4, <1>6, <1>7, <1>8

\* A photo counted with the others: the counts and the hashes stay right.
LEMMA OneMoreSpreads ==
    ASSUME PhotoTypes, SpreadInv, script = "run550", script' = script,
           NEW p \in Photos, rows' = rows \cup {p},
           Cardinality(OfTravel(p)) < MaxPerTravel,
           \A q \in rows : Hash[q] # Hash[p],
           \A i \in DOMAIN picked : i \in DOMAIN picked' /\ picked'[i] = picked[i],
           OfVisit(p) # {} => \E i \in DOMAIN picked' :
                                picked'[i].photo = p /\ picked'[i].group = "old" /\ picked'[i].second
    PROVE  SpreadInv'
<1>0. IsFiniteSet(rows) /\ MaxPerTravel \in Nat
  BY PhotosAssumption DEF PhotoTypes
<1>1. ASSUME NEW t \in {Travel[q] : q \in Photos}
      PROVE  Cardinality({q \in rows' : Travel[q] = t}) <= MaxPerTravel
  <2> DEFINE old == Cardinality(InTravel(rows, t))
             new == Cardinality(InTravel(rows \cup {p}, t))
  <2>1. old \in Nat /\ new \in Nat /\ new <= old + 1 /\ (Travel[p] # t => new = old)
    <3>1. /\ old \in Nat /\ new \in Nat /\ new <= old + 1
          /\ Travel[p] # t => InTravel(rows \cup {p}, t) = InTravel(rows, t)
      <4>1. IsFiniteSet(rows)
        BY <1>0
      <4>2. old \in Nat /\ new \in Nat
        BY <4>1, CountOneMore, Zenon
      <4>3. new <= old + 1
        BY <4>1, CountOneMore, Zenon
      <4>4. Travel[p] # t => InTravel(rows \cup {p}, t) = InTravel(rows, t)
        BY DEF InTravel
      <4> QED
        BY <4>2, <4>3, <4>4
    <3> QED
      BY <3>1
  <2>2. old <= MaxPerTravel
    BY DEF SpreadInv, InTravel
  <2>3. Travel[p] = t => old < MaxPerTravel
    BY DEF OfTravel, InTravel
  <2> HIDE DEF old, new
  <2>4. new <= MaxPerTravel
    BY <1>0, <2>1, <2>2, <2>3
  <2> QED
    BY <2>4 DEF new, InTravel
<1>2. ASSUME NEW q \in rows', NEW r \in rows', q # r
      PROVE  /\ Hash[q] # Hash[r]
             /\ Travel[q] = Travel[r] /\ Visit[q] = Visit[r] =>
                  \E i \in DOMAIN picked' : /\ picked'[i].photo \in {q, r}
                                            /\ picked'[i].group = "old" /\ picked'[i].second
  <2>1. CASE q \in rows /\ r \in rows
    BY <1>2, <2>1 DEF SpreadInv
  <2>2. CASE q = p /\ r \in rows
    BY <2>2 DEF OfVisit, OfTravel
  <2>3. CASE q \in rows /\ r = p
    BY <2>3 DEF OfVisit, OfTravel
  <2> QED
    BY <1>2, <2>1, <2>2, <2>3
<1> QED
  BY <1>1, <1>2 DEF SpreadInv

\* Under a rule that no photo of a pool passed, no photo passes with more chosen.
LEMMA FewerFit ==
    ASSUME IsFiniteSet(rows'), rows \subseteq rows',
           script = "run550", script' = script, stage = "take", stage' = "take",
           pilot' = pilot, reserved' = reserved,
           NEW t, NEW pool, NEW rule, rule.cap \in Nat, rule.visits \in Nat,
           NEW p, p \in t.pools[pool], Travel[p] \notin Barred(t)', Fits(p, rule)', ~SameFile(p)'
    PROVE  p \in Drawable(t, pool, rule)
<1>1. PICK R, Q : R = rows /\ Q = rows'
  OBVIOUS
<1>2. /\ Cardinality(InTravel(R, Travel[p])) \in Nat
      /\ Cardinality(InTravel(Q, Travel[p])) \in Nat
      /\ Cardinality(InTravel(R, Travel[p])) <= Cardinality(InTravel(Q, Travel[p]))
      /\ Cardinality(InVisit(R, p)) \in Nat /\ Cardinality(InVisit(Q, p)) \in Nat
      /\ Cardinality(InVisit(R, p)) <= Cardinality(InVisit(Q, p))
  BY <1>1, CountsGrow
<1>3. /\ p \notin Used'
      /\ Cardinality(InTravel(Q, Travel[p])) < rule.cap
      /\ Cardinality(InVisit(Q, p)) < rule.visits
  BY <1>1 DEF Fits, OfTravel, OfVisit, InTravel, InVisit
<1>4. p \notin Used
  BY <1>3 DEF Used
<1>5. Cardinality(OfTravel(p)) < rule.cap
  <2>1. OfTravel(p) = InTravel(R, Travel[p])
    BY <1>1 DEF OfTravel, InTravel
  <2> QED
    BY <1>2, <1>3, <2>1
<1>6. Cardinality(OfVisit(p)) < rule.visits
  <2>1. OfVisit(p) = InVisit(R, p)
    BY <1>1 DEF OfVisit, OfTravel, InTravel, InVisit
  <2> QED
    BY <1>2, <1>3, <2>1
<1>7. ~SameFile(p)
  BY DEF SameFile
<1>8. Travel[p] \notin Barred(t)
  BY DEF Barred
<1> QED
  BY <1>4, <1>5, <1>6, <1>7, <1>8 DEF Drawable, Fits

\* A photo drawn keeps the choice fair.
LEMMA DrawKeeps ==
    ASSUME ChoiceInv, Draw
    PROVE  ChoiceInv'
<1> USE DEF ChoiceInv
<1>0. /\ stage = "take" /\ script \in {"pilot", "run550"}
      /\ UNCHANGED <<pilot, grade, script, reserved, reuse, files, runs>>
  BY DEF Draw, Taking
<1>1. PICK p \in Drawable(Now, turn, Rule) :
        /\ rows' = rows \cup {p}
        /\ picked' = Append(picked, [photo |-> p, group |-> Now.group,
                                     role |-> Now.roles[got + 1], second |-> OfVisit(p) # {}])
  BY DEF Draw
<1>2. /\ p \in Photos /\ p \notin rows
      /\ Cardinality(OfTravel(p)) < MaxPerTravel
      /\ OfVisit(p) # {} => Now.group = "old"
      /\ script = "run550" =>
           /\ p \notin BlockedPlace /\ Travel[p] \notin Excluded
           /\ k > Len(LookTakes) => Travel[p] \notin reserved
           /\ Hash[p] \notin EvalHashes \cup DiagHashes
           /\ \A q \in rows : Hash[q] # Hash[p]
  BY <1>0, DrawnPhoto
<1> DEFINE e == [photo |-> p, group |-> Now.group, role |-> Now.roles[got + 1], second |-> OfVisit(p) # {}]
<1>3. e.photo = p /\ e.group = Now.group /\ (OfVisit(p) # {} => e.second)
  OBVIOUS
<1> HIDE DEF e
<1>4. /\ Len(picked) \in Nat /\ DOMAIN picked = 1..Len(picked)
      /\ IsSeq(picked') /\ DOMAIN picked' = 1..(Len(picked) + 1)
      /\ \A i \in 1..Len(picked) : picked'[i] = picked[i]
      /\ picked'[Len(picked) + 1] = e
  BY <1>1, SeqAppend, SeqFacts DEF PhotoTypes, e
<1>5. rows' = Chosen'
  <2>1. rows = reuse \cup {picked[i].photo : i \in DOMAIN picked}
    BY <1>0 DEF PhotoTypes, Chosen
  <2>2. {picked'[i].photo : i \in DOMAIN picked'} = {picked[i].photo : i \in DOMAIN picked} \cup {p}
    BY <1>3, <1>4
  <2> QED
    BY <1>0, <1>1, <2>1, <2>2 DEF Chosen
<1>6. /\ TakeInv' /\ stage' \in {"take", "reserve", "check"} /\ (stage' = "reserve" => script = "run550")
      /\ k' \in Nat /\ step' \in Nat /\ turn' \in Nat /\ got' \in Nat
      /\ stage' = "take" /\ step' > 1 => k' = k /\ step' = step
      /\ script = "run550" /\ (stage' = "reserve" \/ (stage' = "take" /\ k' <= Len(LookTakes)))
           => k <= Len(LookTakes)
  <2>1. CASE got + 1 = Len(Now.roles)
    <3>1. EndTake
      BY <2>1 DEF Draw
    <3> QED
      BY <1>0, <3>1, TakeEnds
  <2>2. CASE got + 1 # Len(Now.roles)
    <3>1. got' = got + 1 /\ turn' = NextTurn /\ UNCHANGED <<k, step, stage>>
      BY <2>2 DEF Draw
    <3>2. k \in 1..Len(Takes) /\ step \in 1..Len(Steps(Now)) /\ Len(Now.pools) \in Nat \ {0}
          /\ turn \in Nat /\ k \in Nat /\ step \in Nat /\ got \in Nat
      BY <1>0, TakingFacts DEF TakeOk, PhotoTypes
    <3>3. NextTurn \in 1..Len(Now.pools) /\ NextTurn \in Nat
      <4>1. PICK n \in Nat \ {0} : n = Len(Now.pools)
        BY <3>2
      <4>2. (turn % n) + 1 \in 1..n
        BY <3>2, NextInRange
      <4> QED
        BY <4>1, <4>2 DEF NextTurn
    <3>4. Takes' = Takes /\ Now' = Now
      BY <1>0, <3>1, TakesSame DEF Now
    <3>5. Steps(Now)' = Steps(Now)
      BY <3>4 DEF Steps
    <3>6. TakeInv'
      BY <1>0, <3>1, <3>2, <3>3, <3>4, <3>5 DEF TakeInv
    <3> QED
      BY <1>0, <3>1, <3>2, <3>3, <3>6
  <2> QED
    BY <2>1, <2>2
<1>7. PhotoTypes'
  <2>1. IsFiniteSet(rows') /\ rows' \subseteq Photos /\ pilot' \subseteq Photos
    BY <1>0, <1>1, <1>2, FS_AddElement DEF PhotoTypes
  <2> QED
    BY <1>0, <1>4, <1>5, <1>6, <2>1 DEF PhotoTypes
<1>8. SpreadInv'
  <2>1. CASE script = "run550"
    <3>1. \A i \in DOMAIN picked : i \in DOMAIN picked' /\ picked'[i] = picked[i]
      BY <1>4
    <3>2. OfVisit(p) # {} => \E i \in DOMAIN picked' :
                               picked'[i].photo = p /\ picked'[i].group = "old" /\ picked'[i].second
      <4> SUFFICES ASSUME OfVisit(p) # {}
                   PROVE  \E i \in DOMAIN picked' :
                            picked'[i].photo = p /\ picked'[i].group = "old" /\ picked'[i].second
        OBVIOUS
      <4>1. e.photo = p /\ e.group = "old" /\ e.second
        BY <1>2, <1>3, <2>1
      <4>2. Len(picked) + 1 \in DOMAIN picked' /\ picked'[Len(picked) + 1] = e
        BY <1>4
      <4> QED
        BY <4>1, <4>2
    <3> QED
      BY <1>0, <1>1, <1>2, <2>1, <3>1, <3>2, OneMoreSpreads
  <2>2. CASE script # "run550"
    BY <1>0, <2>2 DEF SpreadInv
  <2> QED
    BY <2>1, <2>2
<1>9. BarredInv'
  <2> SUFFICES ASSUME script = "run550"
               PROVE  BarredInv'
    BY <1>0 DEF BarredInv
  <2>1. Excluded' = Excluded /\ Len(LookTakes) \in Nat /\ k \in Nat /\ LookTakes' = LookTakes
    BY TakesOk DEF PhotoTypes, Excluded, LookTakes
  <2>2. k <= Len(LookTakes) => reserved = {}
    BY <1>0 DEF BarredInv
  <2>3. Travel[p] \notin reserved
    BY <1>2, <2>1, <2>2
  <2>4. stage' \in {"reuse", "reserve"} \/ (stage' = "take" /\ k' <= Len(LookTakes)) => reserved' = {}
    BY <1>0, <1>6, <2>2
  <2> QED
    BY <1>0, <1>1, <1>2, <2>1, <2>3, <2>4 DEF BarredInv
<1>10. FreshTravelsFirst'
  <2> SUFFICES ASSUME stage' = "take", script = "run550", step' > 1,
                      NEW i \in 1..Len(Now'.pools), NEW q \in Drawable(Now, i, Steps(Now)[step - 1])'
               PROVE  FALSE
    BY <1>0 DEF FreshTravelsFirst, Taking
  <2>1. k' = k /\ step' = step /\ step \in 1..Len(Steps(Now)) /\ Len(Steps(Now)) \in Nat
    BY <1>0, <1>6, TakingFacts
  <2>2. Now' = Now /\ Steps(Now)' = Steps(Now)
    BY <1>0, <2>1, TakesSame DEF Now, Steps
  <2>3. PICK t : t = Now
    OBVIOUS
  <2>4. PICK rule : rule = Steps(Now)[step - 1]
    OBVIOUS
  <2>5. rule.cap \in Nat /\ rule.visits \in Nat
    <3>1. step - 1 \in 1..Len(Steps(Now))
      BY <2>1, <2>2, PhotosAssumption DEF PhotoTypes
    <3>2. TakeOk(Now)
      BY <1>0, TakingFacts
    <3>3. rule.cap \in 1..MaxPerTravel /\ rule.visits \in Nat \ {0}
      BY <2>4, <3>1, <3>2, StepRules
    <3> QED
      BY <3>3, PhotosAssumption
  <2>6. q \in t.pools[i] /\ Travel[q] \notin Barred(t)' /\ Fits(q, rule)' /\ ~SameFile(q)'
    BY <2>1, <2>2, <2>3, <2>4 DEF Drawable, Barred, Fits, SameFile
  <2>7. IsFiniteSet(rows') /\ rows \subseteq rows'
    BY <1>1, <1>7 DEF PhotoTypes
  <2>8. q \in Drawable(t, i, rule)
    BY <1>0, <2>5, <2>6, <2>7, FewerFit
  <2>9. Drawable(Now, i, Steps(Now)[step - 1]) = {}
    BY <1>0, <2>1, <2>2 DEF FreshTravelsFirst, Taking
  <2> QED
    BY <2>3, <2>4, <2>8, <2>9
<1> QED
  BY <1>6, <1>7, <1>8, <1>9, <1>10

\* A pool used up passes its turn, and a step used up leaves no fresh travel.
LEMMA PassTurnKeeps ==
    ASSUME ChoiceInv, PassTurn
    PROVE  ChoiceInv'
<1> USE DEF ChoiceInv
<1>0. /\ stage = "take" /\ script \in {"pilot", "run550"}
      /\ UNCHANGED <<pilot, grade, script, rows, picked, reserved, reuse, files, runs>>
  BY DEF PassTurn, Taking
<1>1. CASE ~StepOver
  <2>1. turn' = NextTurn /\ UNCHANGED <<k, step, got, stage>>
    BY <1>1 DEF PassTurn
  <2>2. k \in 1..Len(Takes) /\ step \in 1..Len(Steps(Now)) /\ Len(Now.pools) \in Nat \ {0} /\ turn \in Nat
    BY <1>0, TakingFacts DEF TakeOk, PhotoTypes
  <2>3. NextTurn \in 1..Len(Now.pools) /\ NextTurn \in Nat
    <3>1. PICK n \in Nat \ {0} : n = Len(Now.pools)
      BY <2>2
    <3>2. (turn % n) + 1 \in 1..n
      BY <2>2, NextInRange
    <3> QED
      BY <3>1, <3>2 DEF NextTurn
  <2>4. Takes' = Takes /\ Now' = Now /\ Steps(Now)' = Steps(Now)
    BY <1>0, <2>1, TakesSame DEF Now, Steps
  <2>5. TakeInv'
    BY <1>0, <2>1, <2>2, <2>3, <2>4 DEF TakeInv
  <2>6. PhotoTypes' /\ SpreadInv' /\ BarredInv'
    <3>1. Chosen' = Chosen /\ LookTakes' = LookTakes
      BY <1>0 DEF Chosen, LookTakes
    <3> QED
      BY <1>0, <2>1, <2>3, <3>1 DEF PhotoTypes, SpreadInv, BarredInv, Excluded
  <2>7. FreshTravelsFirst'
    BY <1>0, <2>1, <2>4 DEF FreshTravelsFirst, Taking, Drawable, Barred, Fits, Used, SameFile,
                            OfTravel, OfVisit, Excluded
  <2> QED
    BY <2>5, <2>6, <2>7
<1>2. CASE StepOver /\ step < Len(Steps(Now))
  <2>1. step' = step + 1 /\ turn' = 1 /\ UNCHANGED <<k, got, stage>>
    BY <1>2 DEF PassTurn
  <2>2. /\ k \in 1..Len(Takes) /\ step \in 1..Len(Steps(Now)) /\ Len(Steps(Now)) \in Nat
        /\ Len(Now.pools) \in Nat \ {0} /\ step \in Nat
    BY <1>0, TakingFacts DEF TakeOk, PhotoTypes
  <2>3. Takes' = Takes /\ Now' = Now /\ Steps(Now)' = Steps(Now)
    BY <1>0, <2>1, TakesSame DEF Now, Steps
  <2>4. TakeInv'
    BY <1>0, <1>2, <2>1, <2>2, <2>3 DEF TakeInv
  <2>5. PhotoTypes' /\ SpreadInv' /\ BarredInv'
    <3>1. Chosen' = Chosen /\ LookTakes' = LookTakes
      BY <1>0 DEF Chosen, LookTakes
    <3> QED
      <4>1. PhotoTypes'
        BY <1>0, <2>1, <2>2, <3>1 DEF PhotoTypes
      <4>2. SpreadInv' /\ BarredInv'
        BY <1>0, <2>1, <3>1 DEF SpreadInv, BarredInv, Excluded
      <4> QED
        BY <4>1, <4>2
  <2>6. FreshTravelsFirst'
    <3>1. step' - 1 = step
      BY <2>1, <2>2
    <3>2. \A i \in 1..Len(Now.pools) : Drawable(Now, i, Steps(Now)[step]) = {}
      BY <1>2 DEF StepOver, Rule
    <3> QED
      BY <1>0, <2>1, <2>3, <3>1, <3>2
         DEF FreshTravelsFirst, Taking, Drawable, Barred, Fits, Used, SameFile, OfTravel, OfVisit, Excluded
  <2> QED
    BY <2>4, <2>5, <2>6
<1>3. CASE StepOver /\ ~(step < Len(Steps(Now)))
  <2>1. EndTake
    BY <1>3 DEF PassTurn
  <2>2. /\ TakeInv' /\ stage' \in {"take", "reserve", "check"} /\ (stage' = "reserve" => script = "run550")
        /\ k' \in Nat /\ step' = 1 /\ turn' = 1 /\ got' = 0
        /\ script = "run550" /\ (stage' = "reserve" \/ (stage' = "take" /\ k' <= Len(LookTakes)))
             => k <= Len(LookTakes)
    BY <1>0, <2>1, TakeEnds
  <2>3. Chosen' = Chosen /\ LookTakes' = LookTakes
    BY <1>0 DEF Chosen, LookTakes
  <2>4. PhotoTypes' /\ SpreadInv'
    BY <1>0, <2>2, <2>3 DEF PhotoTypes, SpreadInv
  <2>5. BarredInv'
    BY <1>0, <2>2, <2>3 DEF BarredInv, Excluded
  <2>6. FreshTravelsFirst'
    BY <2>2 DEF FreshTravelsFirst
  <2> QED
    BY <2>2, <2>4, <2>5, <2>6
<1> QED
  BY <1>1, <1>2, <1>3

\* A photo of the pilot is reused only when it fits.
LEMMA ReuseKeeps ==
    ASSUME ChoiceInv, Reuse
    PROVE  ChoiceInv'
<1> USE DEF ChoiceInv
<1> DEFINE fit == {p \in PilotKeep : Fits(p, [cap |-> MaxPerTravel, visits |-> 1]) /\ ~SameFile(p)}
<1>0. /\ script = "run550" /\ stage = "reuse" /\ picked = <<>> /\ reuse = {} /\ reserved = {}
      /\ UNCHANGED <<pilot, grade, script, k, step, turn, got, picked, reserved, files, runs>>
  BY DEF Reuse, PhotoTypes, BarredInv
<1>1. CASE fit # {}
  <2>1. PICK p \in fit : rows' = rows \cup {p}
    BY <1>1 DEF Reuse
  <2>2. stage' = stage /\ reuse' = reuse
    BY <1>1 DEF Reuse
  <2>3. /\ p \in Photos /\ p \notin rows /\ Cardinality(OfTravel(p)) < MaxPerTravel
        /\ OfVisit(p) = {} /\ p \notin BlockedPlace /\ Travel[p] \notin Excluded
        /\ Hash[p] \notin EvalHashes \cup DiagHashes
        /\ \A q \in rows : Hash[q] # Hash[p]
    <3>1. p \in PilotKeep /\ Fits(p, [cap |-> MaxPerTravel, visits |-> 1]) /\ ~SameFile(p)
      OBVIOUS
    <3>2. IsFiniteSet(OfVisit(p)) /\ Cardinality(OfVisit(p)) < 1
      <4>1. IsFiniteSet(rows)
        BY DEF PhotoTypes
      <4>2. IsFiniteSet(OfTravel(p))
        BY <4>1, FS_Subset DEF OfTravel
      <4> QED
        BY <3>1, <4>2, FS_Subset DEF OfVisit, Fits
    <3>3. OfVisit(p) = {}
      BY <3>2, FS_CardinalityType, FS_EmptySet
    <3> QED
      BY <1>0, <3>1, <3>3 DEF PilotKeep, Fits, Used, SameFile, PhotoTypes
  <2> HIDE DEF fit
  <2>4. PhotoTypes' /\ TakeInv'
    <3>1. IsFiniteSet(rows') /\ rows' \subseteq Photos
      BY <2>1, <2>3, FS_AddElement DEF PhotoTypes
    <3> QED
      BY <1>0, <2>2, <3>1 DEF PhotoTypes, TakeInv
  <2>5. SpreadInv'
    <3>1. \A i \in DOMAIN picked : i \in DOMAIN picked' /\ picked'[i] = picked[i]
      BY <1>0
    <3> QED
      BY <1>0, <2>1, <2>3, <3>1, OneMoreSpreads
  <2>6. BarredInv'
    BY <1>0, <2>1, <2>2, <2>3 DEF BarredInv, Excluded
  <2>7. FreshTravelsFirst'
    BY <1>0, <2>2 DEF FreshTravelsFirst, Taking
  <2> QED
    BY <2>4, <2>5, <2>6, <2>7
<1>2. CASE fit = {}
  <2>1. stage' = "take" /\ reuse' = rows /\ rows' = rows
    BY <1>2 DEF Reuse
  <2>2. Takes' = Takes /\ LookTakes' = LookTakes
    BY <1>0, TakesSame DEF LookTakes
  <2>3. k' = 1 /\ step' = 1 /\ turn' = 1
    BY <1>0 DEF TakeInv
  <2>4. 1 \in 1..Len(Takes)
    BY TakesOk
  <2>5. Now' = Takes[1]
    BY <2>2, <2>3 DEF Now
  <2>6. TakeInv'
    BY <1>0, <2>1, <2>2, <2>3, <2>4, <2>5, FirstStep DEF TakeInv, Steps
  <2>7. rows' = Chosen'
    <3>1. DOMAIN picked' = {}
      BY <1>0, SeqEmpty
    <3> QED
      BY <1>0, <2>1, <3>1 DEF Chosen
  <2>8. PhotoTypes' /\ SpreadInv' /\ BarredInv'
    BY <1>0, <2>1, <2>2, <2>7 DEF PhotoTypes, SpreadInv, BarredInv, Excluded
  <2>9. FreshTravelsFirst'
    BY <2>3 DEF FreshTravelsFirst
  <2> QED
    BY <2>6, <2>8, <2>9
<1> QED
  BY <1>1, <1>2

\* The travels reserved are of no photo chosen before.
LEMMA ReserveKeeps ==
    ASSUME ChoiceInv, Reserve
    PROVE  ChoiceInv'
<1> USE DEF ChoiceInv
<1>0. /\ script = "run550" /\ stage = "reserve" /\ stage' = "take" /\ reserved' \subseteq Reservable
      /\ UNCHANGED <<pilot, grade, script, k, step, turn, rows, got, picked, reuse, files, runs>>
  BY DEF Reserve
<1>1. /\ Takes' = Takes /\ LookTakes' = LookTakes /\ k = Len(LookTakes) + 1 /\ step = 1 /\ turn = 1
      /\ Len(LookTakes) \in Nat /\ Len(LookTakes) < Len(Takes) /\ Len(Takes) \in Nat
  BY <1>0, TakesSame, TakesOk DEF TakeInv, LookTakes
<1>2. k \in 1..Len(Takes) /\ Now' = Takes[k]
  BY <1>0, <1>1 DEF Now
<1>3. TakeInv'
  BY <1>0, <1>1, <1>2, FirstStep DEF TakeInv, Steps
<1>4. PhotoTypes' /\ SpreadInv'
  <2>1. Chosen' = Chosen
    BY <1>0 DEF Chosen
  <2>2. PhotoTypes'
    BY <1>0, <2>1 DEF PhotoTypes
  <2>3. SpreadInv'
    BY <1>0 DEF SpreadInv
  <2> QED
    BY <2>2, <2>3
<1>5. BarredInv'
  BY <1>0, <1>1 DEF BarredInv, Excluded, Reservable
<1>6. FreshTravelsFirst'
  BY <1>0, <1>1 DEF FreshTravelsFirst
<1> QED
  BY <1>3, <1>4, <1>5, <1>6

\* A script that is not drawing photos.
LEMMA FreshKeeps ==
    ASSUME PhotoTypes, Fresh, pilot' \subseteq Photos, runs' \in Nat,
           \/ script' \in {"label", "idle"} /\ stage' = "off"
           \/ script' = "run550" /\ stage' = "reuse"
    PROVE  ChoiceInv'
<1>1. /\ k' = 1 /\ step' = 1 /\ turn' = 1 /\ got' = 0
      /\ rows' = {} /\ picked' = <<>> /\ reserved' = {} /\ reuse' = {}
  BY DEF Fresh, OnFirstTake
<1>2. IsFiniteSet({}) /\ Cardinality({}) = 0 /\ IsSeq(<<>>) /\ DOMAIN <<>> = {} /\ MaxPerTravel \in Nat
  BY FS_EmptySet, SeqEmpty, PhotosAssumption
<1>3. Chosen' = {}
  BY <1>1, <1>2 DEF Chosen
<1>4. PhotoTypes' /\ TakeInv' /\ BarredInv' /\ FreshTravelsFirst'
  BY <1>1, <1>2, <1>3 DEF PhotoTypes, TakeInv, BarredInv, FreshTravelsFirst
<1>5. SpreadInv'
  <2>1. \A t : {p \in rows' : Travel[p] = t} = {}
    BY <1>1
  <2> QED
    BY <1>1, <1>2, <2>1 DEF SpreadInv
<1> QED
  BY <1>4, <1>5 DEF ChoiceInv

\* A step that leaves the choice alone, after the last take.
LEMMA WritingKeeps ==
    ASSUME ChoiceInv, stage \in {"check", "open", "fill"}, script' = script, script = "run550",
           stage' \in {"open", "fill"}, k' \in Nat,
           UNCHANGED <<step, turn, rows, got, picked, reserved, reuse, pilot, runs>>
    PROVE  ChoiceInv'
<1>1. PhotoTypes' /\ TakeInv' /\ SpreadInv' /\ FreshTravelsFirst'
  <2>1. Chosen' = Chosen
    BY DEF Chosen
  <2>2. PhotoTypes'
    BY <2>1 DEF ChoiceInv, PhotoTypes
  <2>3. TakeInv' /\ FreshTravelsFirst'
    BY DEF TakeInv, FreshTravelsFirst, Taking
  <2>4. SpreadInv'
    BY DEF ChoiceInv, SpreadInv
  <2> QED
    BY <2>2, <2>3, <2>4
<1>2. BarredInv'
  BY DEF ChoiceInv, BarredInv, Excluded
<1> QED
  BY <1>1, <1>2 DEF ChoiceInv

\* A step of other scripts and people leaves the choice alone.
LEMMA ChoiceSame ==
    ASSUME ChoiceInv, UNCHANGED photoVars
    PROVE  ChoiceInv'
<1>0. UNCHANGED <<pilot, script, stage, k, step, turn, rows, got, picked, reserved, reuse, files, runs>>
  BY DEF photoVars, selVars
<1>1. Takes' = Takes /\ LookTakes' = LookTakes /\ Now' = Now /\ Steps(Now)' = Steps(Now)
      /\ Chosen' = Chosen
  BY <1>0, TakesSame DEF LookTakes, Now, Steps, Chosen
<1>2. PhotoTypes' /\ TakeInv' /\ SpreadInv' /\ BarredInv'
  BY <1>0, <1>1 DEF ChoiceInv, PhotoTypes, TakeInv, SpreadInv, BarredInv, Excluded
<1>3. FreshTravelsFirst'
  BY <1>0, <1>1 DEF ChoiceInv, FreshTravelsFirst, Taking, Drawable, Barred, Fits, Used, SameFile,
                    OfTravel, OfVisit, Excluded
<1> QED
  BY <1>2, <1>3 DEF ChoiceInv

\* Every step of the choice keeps its invariant.
LEMMA ChoiceKept ==
    ASSUME ChoiceInv, PhotoNext
    PROVE  ChoiceInv'
<1> USE DEF ChoiceInv
<1>1. CASE Draw
  BY <1>1, DrawKeeps
<1>2. CASE PassTurn
  BY <1>2, PassTurnKeeps
<1>3. CASE PilotDrawn
  BY <1>3, FreshKeeps DEF PilotDrawn, PhotoTypes
<1>4. CASE LabelPilot
  <2>1. script' = "idle" /\ script = "label" /\ UNCHANGED <<pilot, selVars, files, runs>>
    BY <1>4 DEF LabelPilot
  <2>2. stage = "off"
    BY <2>1 DEF PhotoTypes
  <2> QED
    BY <2>1, <2>2 DEF PhotoTypes, TakeInv, SpreadInv, BarredInv, FreshTravelsFirst, Taking, selVars, Chosen
<1>5. CASE Start550
  BY <1>5, FreshKeeps DEF Start550, PhotoTypes
<1>6. CASE Reuse
  BY <1>6, ReuseKeeps
<1>7. CASE Reserve
  BY <1>7, ReserveKeeps
<1>8. CASE FinalCheck
  <2>1. CASE Bad
    BY <1>8, <2>1, FreshKeeps DEF FinalCheck, PhotoTypes
  <2>2. CASE ~Bad
    BY <1>8, <2>2, WritingKeeps DEF FinalCheck
  <2> QED
    BY <2>1, <2>2
<1>9. CASE OpenFile
  <2>1. CASE Taken(Outputs[k])
    BY <1>9, <2>1, FreshKeeps DEF OpenFile, PhotoTypes
  <2>2. CASE ~Taken(Outputs[k])
    BY <1>9, <2>2, WritingKeeps DEF OpenFile, PhotoTypes
  <2> QED
    BY <2>1, <2>2
<1>10. CASE FillFile
  <2>1. CASE k = Len(Outputs)
    BY <1>10, <2>1, FreshKeeps DEF FillFile, PhotoTypes
  <2>2. CASE k # Len(Outputs)
    <3>1. k + 1 \in Nat
      BY DEF PhotoTypes
    <3> QED
      BY <1>10, <2>2, <3>1, WritingKeeps DEF FillFile
  <2> QED
    BY <2>1, <2>2
<1>11. CASE Crash550
  BY <1>11, FreshKeeps DEF Crash550, PhotoTypes
<1> QED
  BY <1>1, <1>2, <1>3, <1>4, <1>5, <1>6, <1>7, <1>8, <1>9, <1>10, <1>11 DEF PhotoNext

\* It holds before the pilot is drawn.
LEMMA ChoiceStarts ==
    ASSUME PhotoInit
    PROVE  ChoiceInv
<1>1. /\ pilot = {} /\ script = "pilot" /\ stage = "take" /\ k = 1 /\ step = 1 /\ turn = 1 /\ got = 0
      /\ rows = {} /\ picked = <<>> /\ reuse = {} /\ runs = 0
  BY DEF PhotoInit
<1>2. IsFiniteSet({}) /\ IsSeq(<<>>) /\ DOMAIN <<>> = {}
  BY FS_EmptySet, SeqEmpty
<1>3. Chosen = {}
  BY <1>1, <1>2 DEF Chosen
<1>4. PhotoTypes /\ SpreadInv /\ BarredInv /\ FreshTravelsFirst
  BY <1>1, <1>2, <1>3 DEF PhotoTypes, SpreadInv, BarredInv, FreshTravelsFirst
<1>5. 1 \in 1..Len(Takes)
  BY TakesOk
<1>6. TakeInv
  BY <1>1, <1>5, FirstStep DEF TakeInv, Now
<1> QED
  BY <1>4, <1>6 DEF ChoiceInv
-----------------------------------------------------------------------------
(***************************************************************************)
(* Proofs about the files of the chosen photos.                            *)
(***************************************************************************)
\* What may go to training together may do so in part.
LEMMA CleanPart ==
    ASSUME NEW F, NEW G, NEW T, NEW U, Clean(G, U), F \subseteq G, T \subseteq U, MaxPerTravel \in Nat
    PROVE  Clean(F, T)
<1>1. IsFiniteSet(F)
  BY FS_Subset DEF Clean
<1>2. ASSUME NEW t \in {Travel[p] : p \in Photos}
      PROVE  Cardinality(InTravel(F, t)) <= MaxPerTravel
  <2>1. IsFiniteSet(InTravel(G, t))
    BY FS_Subset DEF Clean, InTravel
  <2>2. InTravel(F, t) \in SUBSET InTravel(G, t)
    BY DEF InTravel
  <2>3. IsFiniteSet(InTravel(F, t)) /\ Cardinality(InTravel(F, t)) <= Cardinality(InTravel(G, t))
    BY <2>1, <2>2, FS_Subset
  <2>4. Cardinality(InTravel(F, t)) \in Nat /\ Cardinality(InTravel(G, t)) \in Nat
    BY <2>1, <2>3, FS_CardinalityType
  <2>5. Cardinality(InTravel(G, t)) <= MaxPerTravel
    BY DEF Clean
  <2> QED
    BY <2>3, <2>4, <2>5
<1> QED
  BY <1>1, <1>2 DEF Clean

\* What a run chose may go to training together.
LEMMA ChosenClean ==
    ASSUME ChoiceInv, script = "run550"
    PROVE  Clean(rows, reserved)
  BY DEF ChoiceInv, PhotoTypes, SpreadInv, BarredInv, Clean, InTravel

\* The rows of a list were picked.
LEMMA ContentPicked ==
    ASSUME NEW n \in Lists, IsSeq(picked)
    PROVE  /\ IsSeq(Content(n))
           /\ \A i \in DOMAIN Content(n) : \E j \in DOMAIN picked : Content(n)[i] = picked[j]
<1>1. PICK groups : Content(n) = OfGroups(groups)
  BY DEF Content, Lists
<1> DEFINE P == {i \in DOMAIN picked : picked[i].group \in groups}
<1>2. Content(n) = Kept(picked, P) /\ P \in SUBSET (DOMAIN picked)
  BY <1>1 DEF OfGroups
<1> HIDE DEF P
<1>3. IsSeq(Kept(picked, P)) /\ TakenFrom(Kept(picked, P), picked, P)
  BY <1>2, KeptRows
<1> QED
  BY <1>2, <1>3 DEF TakenFrom

\* A step that opens and fills no file.
LEMMA FilesSame ==
    ASSUME FilesInv, files' = files,
           stage' \notin {"open", "fill"} \/ (stage' = "open" /\ k' = 1)
    PROVE  FilesInv'
<1>1. FilePhotos' = FilePhotos /\ KeptTravels' = KeptTravels
  BY DEF FilePhotos, KeptTravels
<1>2. Clean(FilePhotos, KeptTravels)'
  BY <1>1 DEF FilesInv, ContentInv, Clean, Excluded, InTravel
<1>3. OrderInv'
  BY DEF FilesInv, OrderInv, OneRunPerFolder, Outputs
<1>4. ContentInv'
  BY <1>1, <1>2 DEF FilesInv, ContentInv
<1> QED
  BY <1>3, <1>4 DEF FilesInv

\* A file opened is empty and of the run that opened it.
LEMMA OpenKeeps ==
    ASSUME ChoiceInv, FilesInv, OpenFile
    PROVE  FilesInv'
<1>1. CASE Taken(Outputs[k])
  BY <1>1, FilesSame DEF OpenFile
<1>2. CASE ~Taken(Outputs[k])
  <2> DEFINE n0 == Outputs[k]
  <2>1. /\ script = "run550" /\ stage = "open" /\ stage' = "fill" /\ runs' = runs
        /\ UNCHANGED <<script, k, step, turn, rows, got, picked, reserved, reuse>>
        /\ files' = [n \in DOMAIN files \cup {n0} |->
                       IF n = n0 THEN [run |-> runs, rows |-> Empty(n0)] ELSE files[n]]
    BY <1>2 DEF OpenFile
  <2>2. k \in 1..Len(Outputs) /\ n0 \notin DOMAIN files
    BY <1>2, <2>1 DEF FilesInv, OrderInv, Taken
  <2>3. k \in 1..5 /\ n0 = <<"pilot_reuse", "manifest", "general_spare", "lookalike", "reserve">>[k]
    BY <2>2 DEF Outputs
  <2>4. n0 \in Lists \cup {"pilot_reuse", "reserve"} /\ (n0 = "pilot_reuse" <=> k = 1)
    BY <2>3 DEF Lists
  <2>5. Empty(n0) = IF n0 \in Lists THEN <<>> ELSE {}
    BY <2>4 DEF Empty, Lists
  <2> HIDE DEF n0
  <2>6. /\ DOMAIN files' = DOMAIN files \cup {n0} /\ files'[n0].run = runs /\ files'[n0].rows = Empty(n0)
        /\ \A n \in DOMAIN files : files'[n] = files[n]
    BY <2>1, <2>2
  <2>7. \A n \in DOMAIN files : files[n].run = runs
    BY <2>1, <2>2, <2>4, <2>3 DEF FilesInv, OrderInv
  <2>8. OrderInv'
    <3>1. "pilot_reuse" \in DOMAIN files'
      BY <2>1, <2>3, <2>4, <2>6 DEF FilesInv, OrderInv
    <3>2. \A n \in DOMAIN files' : files'[n].run = runs
      BY <2>6, <2>7
    <3> QED
      BY <2>1, <2>2, <3>1, <3>2 DEF OrderInv, OneRunPerFolder, Outputs
  <2>9. FilePhotos' = FilePhotos
    <3>1. \A p : ("pilot_reuse" \in DOMAIN files' /\ p \in files'["pilot_reuse"].rows)
                   <=> ("pilot_reuse" \in DOMAIN files /\ p \in files["pilot_reuse"].rows)
      BY <2>2, <2>5, <2>6 DEF Lists
    <3>2. \A p : (\E n \in Lists \cap DOMAIN files' : \E i \in DOMAIN files'[n].rows : files'[n].rows[i].photo = p)
                   <=> (\E n \in Lists \cap DOMAIN files : \E i \in DOMAIN files[n].rows : files[n].rows[i].photo = p)
      BY <2>2, <2>5, <2>6, SeqEmpty
    <3> QED
      BY <3>1, <3>2 DEF FilePhotos
  <2>10. KeptTravels' = KeptTravels
    BY <2>2, <2>5, <2>6 DEF KeptTravels, Lists
  <2>11. ContentInv'
    <3>1. Clean(FilePhotos, KeptTravels)'
      BY <2>9, <2>10 DEF FilesInv, ContentInv, Clean, Excluded, InTravel
    <3>2. FilePhotos \subseteq rows /\ KeptTravels \subseteq reserved
      <4>1. CASE k = 1
        <5>1. DOMAIN files = {}
          BY <2>2, <2>4, <4>1 DEF FilesInv, OrderInv
        <5> QED
          BY <5>1 DEF FilePhotos, KeptTravels
      <4>2. CASE k # 1
        BY <2>1, <2>3, <4>2 DEF FilesInv, ContentInv
      <4> QED
        BY <4>1, <4>2
    <3>3. "pilot_reuse" \in DOMAIN files' => files'["pilot_reuse"].rows \subseteq Photos
      BY <2>2, <2>5, <2>6 DEF FilesInv, ContentInv, Lists
    <3>4. \A n \in Lists \cap DOMAIN files' :
            IsSeq(files'[n].rows) /\ \A i \in DOMAIN files'[n].rows : files'[n].rows[i].photo \in Photos
      BY <2>5, <2>6, SeqEmpty DEF FilesInv, ContentInv
    <3> QED
      BY <2>1, <2>9, <2>10, <3>1, <3>2, <3>3, <3>4 DEF ContentInv
  <2> QED
    BY <2>8, <2>11 DEF FilesInv
<1> QED
  BY <1>1, <1>2

\* A file filled holds what the run chose.
LEMMA FillKeeps ==
    ASSUME ChoiceInv, FilesInv, FillFile
    PROVE  FilesInv'
<1> DEFINE n0 == Outputs[k]
<1>1. /\ script = "run550" /\ stage = "fill" /\ runs' = runs
      /\ files' = [files EXCEPT ![n0] = [run |-> runs, rows |-> Content(n0)]]
      /\ stage' = "off" \/ (stage' = "open" /\ k' = k + 1 /\ k # Len(Outputs)
                            /\ UNCHANGED <<rows, picked, reserved, reuse>>)
  BY DEF FillFile
<1>2. k \in 1..Len(Outputs) /\ "pilot_reuse" \in DOMAIN files /\ (\A n \in DOMAIN files : files[n].run = runs)
      /\ FilePhotos \subseteq rows /\ KeptTravels \subseteq reserved
  BY <1>1 DEF FilesInv, OrderInv, ContentInv
<1>3. k \in 1..5 /\ Len(Outputs) = 5
  BY <1>2 DEF Outputs
<1>4. rows = Chosen /\ rows \subseteq Photos /\ IsSeq(picked)
  BY <1>1 DEF ChoiceInv, PhotoTypes
<1>5. reuse \subseteq rows /\ \A i \in DOMAIN picked : picked[i].photo \in rows
  BY <1>4 DEF Chosen
<1>6. Content("pilot_reuse") = reuse /\ Content("reserve") = reserved
  BY DEF Content
<1> HIDE DEF n0
<1>7. /\ DOMAIN files' = DOMAIN files
      /\ \A n \in DOMAIN files : files'[n] = IF n = n0 THEN [run |-> runs, rows |-> Content(n0)] ELSE files[n]
  BY <1>1
<1>8. OrderInv'
  <2>1. \A n \in DOMAIN files' : files'[n].run = runs
    BY <1>2, <1>7
  <2>2. stage' = "open" => k' \in 1..5 /\ k' > 1
    BY <1>1, <1>3
  <2> QED
    BY <1>1, <1>2, <1>3, <1>7, <2>1, <2>2 DEF OrderInv, OneRunPerFolder, Outputs
<1>9. ASSUME NEW n \in Lists \cap DOMAIN files'
      PROVE  IsSeq(files'[n].rows) /\ \A i \in DOMAIN files'[n].rows : files'[n].rows[i].photo \in rows
  <2>1. CASE n = n0
    <3>1. files'[n].rows = Content(n)
      BY <1>7, <1>9, <2>1
    <3>2. /\ IsSeq(Content(n))
          /\ \A i \in DOMAIN Content(n) : \E j \in DOMAIN picked : Content(n)[i] = picked[j]
      BY <1>4, <1>9, ContentPicked
    <3> QED
      BY <1>5, <3>1, <3>2
  <2>2. CASE n # n0
    <3>1. files'[n] = files[n] /\ n \in Lists \cap DOMAIN files
      BY <1>7, <1>9, <2>2
    <3>2. IsSeq(files[n].rows) /\ \A i \in DOMAIN files[n].rows : files[n].rows[i].photo \in Photos
      BY <3>1 DEF FilesInv, ContentInv
    <3>3. \A i \in DOMAIN files[n].rows : files[n].rows[i].photo \in FilePhotos
      BY <3>1, <3>2 DEF FilePhotos
    <3> QED
      BY <1>2, <3>1, <3>2, <3>3
  <2> QED
    BY <2>1, <2>2
<1>10. files'["pilot_reuse"].rows \subseteq rows
  <2>1. CASE n0 = "pilot_reuse"
    BY <1>2, <1>5, <1>6, <1>7, <2>1
  <2>2. CASE n0 # "pilot_reuse"
    BY <1>2, <1>7, <2>2 DEF FilePhotos, FilesInv, ContentInv
  <2> QED
    BY <2>1, <2>2
<1>11. FilePhotos' \subseteq rows
  BY <1>9, <1>10 DEF FilePhotos
<1>12. KeptTravels' \subseteq reserved
  BY <1>2, <1>6, <1>7 DEF KeptTravels
<1>13. Clean(FilePhotos', KeptTravels')
  <2>1. Clean(rows, reserved) /\ MaxPerTravel \in Nat
    BY <1>1, ChosenClean, PhotosAssumption
  <2>2. PICK F, T : F = FilePhotos' /\ T = KeptTravels'
    OBVIOUS
  <2>3. Clean(F, T)
    BY <1>11, <1>12, <2>1, <2>2, CleanPart
  <2> QED
    BY <2>2, <2>3
<1>14. ContentInv'
  <2>1. Clean(FilePhotos, KeptTravels)'
    BY <1>13 DEF Clean, Excluded, InTravel
  <2>2. stage' = "open" => rows' = rows /\ reserved' = reserved
    BY <1>1
  <2> QED
    BY <1>1, <1>4, <1>9, <1>10, <1>11, <1>12, <2>1, <2>2 DEF ContentInv
<1> QED
  BY <1>8, <1>14 DEF FilesInv

\* Every step of the choice keeps the files in order.
LEMMA FilesKept ==
    ASSUME ChoiceInv, FilesInv, PhotoNext
    PROVE  FilesInv'
<1>1. CASE OpenFile
  BY <1>1, OpenKeeps
<1>2. CASE FillFile
  BY <1>2, FillKeeps
<1>3. CASE Draw \/ PassTurn
  <2>1. files' = files /\ stage' \notin {"open", "fill"}
    <3>1. stage = "take"
      BY <1>3 DEF Draw, PassTurn, Taking
    <3> QED
      BY <1>3, <3>1 DEF Draw, PassTurn, EndTake
  <2> QED
    BY <2>1, FilesSame
<1>4. CASE LabelPilot
  <2>1. files' = files /\ stage' = stage /\ stage = "off"
    BY <1>4 DEF LabelPilot, selVars, ChoiceInv, PhotoTypes
  <2> QED
    BY <2>1, FilesSame
<1>5. CASE PilotDrawn \/ Start550 \/ Reuse \/ Reserve \/ FinalCheck \/ Crash550
  <2>1. files' = files /\ (stage' \notin {"open", "fill"} \/ (stage' = "open" /\ k' = 1))
    BY <1>5 DEF PilotDrawn, Start550, Reuse, Reserve, FinalCheck, Crash550
  <2> QED
    BY <2>1, FilesSame
<1> QED
  BY <1>1, <1>2, <1>3, <1>4, <1>5 DEF PhotoNext

\* No file is there at first.
LEMMA FilesStart ==
    ASSUME PhotoInit
    PROVE  FilesInv
<1>1. files = <<>> /\ stage = "take" /\ DOMAIN files = {}
  BY SeqEmpty DEF PhotoInit
<1>2. FilePhotos = {} /\ KeptTravels = {}
  BY <1>1 DEF FilePhotos, KeptTravels
<1>3. Clean({}, {})
  <2>1. \A t : InTravel({}, t) = {}
    BY DEF InTravel
  <2>2. IsFiniteSet({}) /\ Cardinality({}) = 0 /\ MaxPerTravel \in Nat
    BY FS_EmptySet, PhotosAssumption
  <2>3. \A t : Cardinality(InTravel({}, t)) <= MaxPerTravel
    BY <2>1, <2>2
  <2> QED
    BY <2>2, <2>3 DEF Clean
<1> QED
  BY <1>1, <1>2, <1>3 DEF FilesInv, OrderInv, ContentInv, OneRunPerFolder
-----------------------------------------------------------------------------
(***************************************************************************)
(* Proofs about the mission writer: what one more record does.             *)
(***************************************************************************)
\* The lines of a sequence at some positions are finitely many.
LEMMA LinesFinite ==
    ASSUME NEW s, IsSeq(s), NEW P \in SUBSET (DOMAIN s)
    PROVE  IsFiniteSet(P) /\ Cardinality(P) \in Nat
<1>1. Len(s) \in Nat /\ P \in SUBSET (1..Len(s))
  BY SeqFacts
<1>2. IsFiniteSet(1..Len(s))
  BY <1>1, FS_Interval
<1> QED
  BY <1>1, <1>2, FS_Subset, FS_CardinalityType

\* Joining one element, or none, to a sequence.
LEMMA JoinOne ==
    ASSUME NEW s, IsSeq(s), NEW e
    PROVE  s \o <<e>> = Append(s, e) /\ s \o <<>> = s
<1> DEFINE S == {s[i] : i \in DOMAIN s} \cup {e}
<1>1. s \in Seq(S) /\ e \in S
  <2>1. DOMAIN s = 1..Len(s) /\ Len(s) \in Nat /\ s = [i \in 1..Len(s) |-> s[i]]
    BY DEF IsSeq
  <2>2. s \in [1..Len(s) -> S]
    BY <2>1
  <2> QED
    BY <2>1, <2>2
<1> HIDE DEF S
<1>2. s \o <<e>> = Append(s, e)
  BY <1>1, AppendIsConcat
<1>3. s \o <<>> = s
  BY <1>1, ConcatEmptySeq
<1> QED
  BY <1>2, <1>3

\* The record r is saved.
Saved(r) == RecOk(r) /\ log' = Append(log, r)

\* What a record saved changes in what is read from the file.
LEMMA SavedFacts ==
    ASSUME NEW r, IsSeq(log), Saved(r)
    PROVE  /\ IsSeq(log') /\ Len(log) \in Nat /\ DOMAIN log = 1..Len(log)
           /\ DOMAIN log' = 1..(Len(log) + 1)
           /\ \A i \in DOMAIN log : log'[i] = log[i]
           /\ log'[Len(log) + 1] = r
           /\ \A i \in DOMAIN log' : i \in DOMAIN log \/ i = Len(log) + 1
<1>1. Len(log) \in Nat /\ DOMAIN log = 1..Len(log)
  BY SeqFacts
<1>2. PICK new : new = log'
  OBVIOUS
<1>3. new = Append(log, r)
  BY <1>2 DEF Saved
<1>4. /\ IsSeq(new) /\ DOMAIN new = 1..(Len(log) + 1)
      /\ \A i \in 1..Len(log) : new[i] = log[i]
      /\ new[Len(log) + 1] = r
  BY <1>3, SeqAppend
<1>5. IsSeq(new)' = IsSeq(new)
  BY <1>2 DEF IsSeq
<1>6. IsSeq(log')
  BY <1>2, <1>4
<1> QED
  BY <1>1, <1>2, <1>4, <1>6

\* The missions written of a category, of one kind, are a finite count.
LEMMA WrittenCounts ==
    ASSUME IsSeq(log), NEW c, NEW cond
    PROVE  IsFiniteSet(Written(c, cond)) /\ Cardinality(Written(c, cond)) \in Nat
  BY LinesFinite DEF Written

\* A record counts for its own category and kind, if it is usable.
CountsFor(r, c, cond) == r.kind \in Pw /\ r.usable /\ Category[r.photo] = c /\ r.cond = cond

\* What a record saved adds to the missions written.
LEMMA SavedWritten ==
    ASSUME NEW r, IsSeq(log), Saved(r), NEW c, NEW cond
    PROVE  /\ Cardinality(Written(c, cond)) \in Nat
           /\ Cardinality(Written(c, cond))' \in Nat
           /\ CountsFor(r, c, cond) =>
                Cardinality(Written(c, cond))' = Cardinality(Written(c, cond)) + 1
           /\ ~CountsFor(r, c, cond) =>
                Cardinality(Written(c, cond))' = Cardinality(Written(c, cond))
<1> DEFINE n == Len(log) + 1
<1>1. /\ DOMAIN log = 1..Len(log) /\ Len(log) \in Nat
      /\ \A i \in DOMAIN log : log'[i] = log[i] /\ i \in DOMAIN log'
      /\ n \in DOMAIN log' /\ log'[n] = r /\ n \notin DOMAIN log
      /\ \A i \in DOMAIN log' : i \in DOMAIN log \/ i = n
  BY SavedFacts
<1> HIDE DEF n
<1>2. PICK W : W = Written(c, cond)'
  OBVIOUS
<1>3. W = Written(c, cond) \cup (IF CountsFor(r, c, cond) THEN {n} ELSE {})
  BY <1>1, <1>2 DEF Written, CountsFor, Pw
<1>4. IsFiniteSet(Written(c, cond)) /\ Cardinality(Written(c, cond)) \in Nat /\ n \notin Written(c, cond)
  <2>1. IsFiniteSet(Written(c, cond)) /\ Cardinality(Written(c, cond)) \in Nat
    BY WrittenCounts
  <2>2. n \notin Written(c, cond)
    BY <1>1 DEF Written
  <2> QED
    BY <2>1, <2>2
<1>5. CASE CountsFor(r, c, cond)
  <2>1. W = Written(c, cond) \cup {n}
    BY <1>3, <1>5
  <2>2. Cardinality(W) = Cardinality(Written(c, cond)) + 1
    BY <1>4, <2>1, FS_AddElement
  <2> QED
    BY <1>2, <1>4, <1>5, <2>2
<1>6. CASE ~CountsFor(r, c, cond)
  <2>1. W = Written(c, cond)
    BY <1>3, <1>6
  <2> QED
    BY <1>2, <1>4, <1>6, <2>1
<1> QED
  BY <1>5, <1>6

\* The two counts a quota is about.
ForcedOf(c) == Cardinality(Written(c, TRUE))
PlainOf(c) == Cardinality(Written(c, FALSE))

\* What a record saved adds to either count.
LEMMA SavedCounts ==
    ASSUME NEW r, IsSeq(log), Saved(r), NEW c
    PROVE  /\ ForcedOf(c) \in Nat /\ PlainOf(c) \in Nat /\ ForcedOf(c)' \in Nat /\ PlainOf(c)' \in Nat
           /\ CountsFor(r, c, TRUE) => ForcedOf(c)' = ForcedOf(c) + 1
           /\ ~CountsFor(r, c, TRUE) => ForcedOf(c)' = ForcedOf(c)
           /\ CountsFor(r, c, FALSE) => PlainOf(c)' = PlainOf(c) + 1
           /\ ~CountsFor(r, c, FALSE) => PlainOf(c)' = PlainOf(c)
<1>1. PICK yes, no : yes = TRUE /\ no = FALSE
  OBVIOUS
<1>2. /\ Cardinality(Written(c, yes)) \in Nat /\ Cardinality(Written(c, yes))' \in Nat
      /\ CountsFor(r, c, yes) => Cardinality(Written(c, yes))' = Cardinality(Written(c, yes)) + 1
      /\ ~CountsFor(r, c, yes) => Cardinality(Written(c, yes))' = Cardinality(Written(c, yes))
  BY SavedWritten
<1>3. /\ Cardinality(Written(c, no)) \in Nat /\ Cardinality(Written(c, no))' \in Nat
      /\ CountsFor(r, c, no) => Cardinality(Written(c, no))' = Cardinality(Written(c, no)) + 1
      /\ ~CountsFor(r, c, no) => Cardinality(Written(c, no))' = Cardinality(Written(c, no))
  BY SavedWritten
<1>4. Cardinality(Written(c, yes)) = ForcedOf(c) /\ Cardinality(Written(c, yes))' = ForcedOf(c)'
  BY <1>1 DEF Written, ForcedOf
<1>5. Cardinality(Written(c, no)) = PlainOf(c) /\ Cardinality(Written(c, no))' = PlainOf(c)'
  BY <1>1 DEF Written, PlainOf
<1>6. (CountsFor(r, c, yes) <=> CountsFor(r, c, TRUE)) /\ (CountsFor(r, c, no) <=> CountsFor(r, c, FALSE))
  BY <1>1 DEF CountsFor
<1>7. /\ ForcedOf(c) \in Nat /\ ForcedOf(c)' \in Nat
      /\ CountsFor(r, c, TRUE) => ForcedOf(c)' = ForcedOf(c) + 1
      /\ ~CountsFor(r, c, TRUE) => ForcedOf(c)' = ForcedOf(c)
  BY <1>2, <1>4, <1>6
<1>8. /\ PlainOf(c) \in Nat /\ PlainOf(c)' \in Nat
      /\ CountsFor(r, c, FALSE) => PlainOf(c)' = PlainOf(c) + 1
      /\ ~CountsFor(r, c, FALSE) => PlainOf(c)' = PlainOf(c)
  BY <1>3, <1>5, <1>6
<1> QED
  BY <1>7, <1>8

\* A photo is forced in vain when its forced call is on file as unusable.
LEMMA SavedForced ==
    ASSUME NEW r, IsSeq(log), Saved(r), NEW p
    PROVE  ForcedInVain(p)' <=> (ForcedInVain(p) \/ (Id(r) = <<p, "pw">> /\ r.cond /\ ~r.usable))
<1> DEFINE n == Len(log) + 1
<1>1. /\ \A i \in DOMAIN log : log'[i] = log[i] /\ i \in DOMAIN log'
      /\ n \in DOMAIN log' /\ log'[n] = r
      /\ \A i \in DOMAIN log' : i \in DOMAIN log \/ i = n
  BY SavedFacts
<1> HIDE DEF n
<1> QED
  BY <1>1 DEF ForcedInVain, Id

\* Two usable missions written from one photo are one: the plain one is only
\* asked for when the forced one is unusable.
LEMMA OneUsable ==
    ASSUME LogInv, \A i \in DOMAIN log : RecOk(log[i]),
           NEW i \in DOMAIN log, NEW j \in DOMAIN log,
           log[i].kind \in Pw, log[j].kind \in Pw, log[i].usable, log[j].usable,
           log[i].photo = log[j].photo
    PROVE  i = j
<1>1. ASSUME NEW a \in DOMAIN log, NEW b \in DOMAIN log, log[a].kind = "pw", log[b].kind = "pw_plain",
             log[a].usable, log[a].photo = log[b].photo
      PROVE  FALSE
  <2>1. ForcedInVain(log[b].photo)
    BY <1>1 DEF LogInv, QuotaKept
  <2>2. PICK m \in DOMAIN log : Id(log[m]) = <<log[b].photo, "pw">> /\ ~log[m].usable
    BY <2>1 DEF ForcedInVain
  <2>3. Id(log[m]) = Id(log[a])
    BY <1>1, <2>2 DEF Id
  <2>4. m = a
    BY <2>3 DEF LogInv, OneRecordPerMission
  <2> QED
    BY <1>1, <2>2, <2>4
<1>2. log[i].kind = log[j].kind
  BY <1>1 DEF Pw
<1>3. Id(log[i]) = Id(log[j])
  BY <1>2 DEF Id
<1> QED
  BY <1>3 DEF LogInv, OneRecordPerMission

\* A new record that fits what is on file keeps the file in order.
LEMMA SavedKeeps ==
    ASSUME NEW r, IsSeq(log), LogInv, Saved(r), label' = label, quota' = quota,
           \A i \in DOMAIN log : Id(log[i]) # Id(r),
           r.kind \in Pw /\ r.usable =>
             Cardinality(Written(Category[r.photo], r.cond)) < (IF r.cond THEN quota.cond ELSE quota.plain),
           r.kind = "pw_plain" => ForcedInVain(r.photo),
           r.kind = "swap" =>
             \E j \in DOMAIN log : /\ log[j].kind \in Pw /\ log[j].usable /\ log[j].photo = r.photo
                                   /\ Id(log[j]) = r.parent
                                   /\ log[j].cond \/ Id(log[j]) \in Success
    PROVE  LogInv'
<1> DEFINE n == Len(log) + 1
<1>0. /\ Len(log) \in Nat /\ DOMAIN log = 1..Len(log) /\ DOMAIN log' = 1..n
      /\ \A i \in DOMAIN log : log'[i] = log[i] /\ i \in DOMAIN log'
      /\ log'[n] = r /\ n \notin DOMAIN log
      /\ \A i \in DOMAIN log' : i \in DOMAIN log \/ i = n
  BY SavedFacts
<1> HIDE DEF n
<1>1. OneRecordPerMission'
  <2>1. ASSUME NEW i \in DOMAIN log', NEW j \in DOMAIN log', Id(log'[i]) = Id(log'[j])
        PROVE  i = j
    <3>1. CASE i \in DOMAIN log /\ j \in DOMAIN log
      BY <1>0, <2>1, <3>1 DEF LogInv, OneRecordPerMission
    <3>2. CASE i \in DOMAIN log /\ j = n
      BY <1>0, <2>1, <3>2
    <3>3. CASE i = n /\ j \in DOMAIN log
      BY <1>0, <2>1, <3>3
    <3> QED
      BY <1>0, <3>1, <3>2, <3>3
  <2> QED
    BY <2>1 DEF OneRecordPerMission, Id
<1>2. QuotaKept'
  <2>1. ASSUME NEW c \in {Category[x] : x \in General}
        PROVE  ForcedOf(c)' <= quota.mostCond /\ PlainOf(c)' <= quota.mostPlain
    <3>1. ForcedOf(c) <= quota.mostCond /\ PlainOf(c) <= quota.mostPlain
      BY DEF LogInv, QuotaKept, ForcedOf, PlainOf
    <3>2. CountsFor(r, c, TRUE) => ForcedOf(c) < quota.cond
      BY DEF CountsFor, ForcedOf
    <3>3. CountsFor(r, c, FALSE) => PlainOf(c) < quota.plain
      BY DEF CountsFor, PlainOf
    <3>4. PICK qc, qp, mc, mp :
            qc = quota.cond /\ qp = quota.plain /\ mc = quota.mostCond /\ mp = quota.mostPlain
      OBVIOUS
    <3>5. PICK a, b, a1, b1 : a = ForcedOf(c) /\ b = PlainOf(c) /\ a1 = ForcedOf(c)' /\ b1 = PlainOf(c)'
      OBVIOUS
    <3>6. a \in Nat /\ a <= mc /\ (a1 = a \/ (a1 = a + 1 /\ a < qc))
      BY <3>1, <3>2, <3>4, <3>5, SavedCounts
    <3>7. b \in Nat /\ b <= mp /\ (b1 = b \/ (b1 = b + 1 /\ b < qp))
      BY <3>1, <3>3, <3>4, <3>5, SavedCounts
    <3>8. qc \in Nat /\ qp \in Nat /\ mc \in Nat /\ mp \in Nat /\ qc <= mc /\ qp <= mp
      BY <3>4 DEF LogInv, QuotaTypes
    <3>9. a1 <= mc /\ b1 <= mp
      BY <3>6, <3>7, <3>8
    <3> QED
      BY <3>4, <3>5, <3>9
  <2>2. ASSUME NEW i \in DOMAIN log', log'[i].kind = "pw_plain"
        PROVE  ForcedInVain(log[i].photo)'
    <3>1. PICK p : p = log'[i].photo
      OBVIOUS
    <3>2. ForcedInVain(p)
      BY <1>0, <2>2, <3>1 DEF LogInv, QuotaKept
    <3>3. ForcedInVain(p)'
      BY <3>2, SavedForced
    <3> QED
      BY <3>1, <3>3 DEF ForcedInVain, Id
  <2> QED
    BY <2>1, <2>2 DEF QuotaKept, ForcedOf, PlainOf
<1>3. SwapInv' /\ QuotaTypes'
  <2>0. QuotaTypes'
    BY DEF LogInv, QuotaTypes
  <2>1. Success' = Success
    BY DEF Success
  <2>2. ASSUME NEW i \in DOMAIN log', log'[i].kind = "swap"
        PROVE  \E j \in 1..(i - 1) :
                 /\ log'[j].kind \in Pw /\ log'[j].usable /\ log'[j].photo = log'[i].photo
                 /\ Id(log'[j]) = log'[i].parent
                 /\ log'[j].cond \/ Id(log'[j]) \in Success
    <3>1. CASE i \in DOMAIN log
      <4>1. PICK j \in 1..(i - 1) :
              /\ log[j].kind \in Pw /\ log[j].usable /\ log[j].photo = log[i].photo
              /\ Id(log[j]) = log[i].parent
              /\ log[j].cond \/ Id(log[j]) \in Success
        BY <1>0, <2>2, <3>1 DEF LogInv, SwapInv
      <4>2. j \in DOMAIN log
        BY <1>0, <3>1
      <4> QED
        BY <1>0, <3>1, <4>1, <4>2
    <3>2. CASE i = n
      <4>1. PICK j \in DOMAIN log : /\ log[j].kind \in Pw /\ log[j].usable /\ log[j].photo = r.photo
                                    /\ Id(log[j]) = r.parent
                                    /\ log[j].cond \/ Id(log[j]) \in Success
        BY <1>0, <2>2, <3>2
      <4>2. j \in 1..(i - 1)
        BY <1>0, <3>2 DEF n
      <4> QED
        BY <1>0, <3>2, <4>1, <4>2
    <3> QED
      BY <1>0, <3>1, <3>2
  <2> QED
    BY <2>0, <2>1, <2>2 DEF SwapInv, Id
<1> QED
  BY <1>1, <1>2, <1>3 DEF LogInv
-----------------------------------------------------------------------------
(***************************************************************************)
(* Proofs about the mission writer: its rows, and what stays.              *)
(***************************************************************************)
\* Rows numbered category after category keep apart.
LEMMA NumbersApart ==
    ASSUME NEW L \in Nat, NEW a \in Nat, NEW b \in Nat, NEW i \in 1..L, NEW j \in 1..L,
           a * L + i = b * L + j
    PROVE  i = j
<1>1. ASSUME NEW x \in Nat, NEW y \in Nat, NEW m \in 1..L, NEW n \in 1..L, x < y
      PROVE  x * L + m < y * L + n
  <2>1. PICK d \in Nat : y = (x + 1) + d
    <3>1. y - (x + 1) \in Nat /\ y = (x + 1) + (y - (x + 1))
      BY <1>1
    <3> QED
      BY <3>1
  <2>2. d * L \in Nat /\ x * L \in Nat
    OBVIOUS
  <2>3. y * L = x * L + L + d * L
    BY <2>1
  <2> QED
    BY <2>2, <2>3
<1>2. ~(a < b) /\ ~(b < a)
  <2>1. a * L \in Nat /\ b * L \in Nat
    OBVIOUS
  <2>2. a < b => a * L + i < b * L + j
    BY <1>1
  <2>3. b < a => b * L + j < a * L + i
    BY <1>1
  <2> QED
    BY <2>1, <2>2, <2>3
<1>3. a = b
  BY <1>2
<1> QED
  BY <1>3

\* The rows to write for are rows of the lists read at the start.
LEMMA PwRowsFacts ==
    ASSUME IsSeq(source), \A i \in DOMAIN source : source[i].photo \in FilePhotos
    PROVE  /\ IsSeq(PwRows) /\ Len(PwRows) \in Nat /\ DOMAIN PwRows = 1..Len(PwRows)
           /\ \A i \in DOMAIN PwRows : PwRows[i].photo \in FilePhotos
<1> DEFINE wanted == {i \in DOMAIN source : /\ source[i].role = "photo_written"
                                            /\ \E c \in DOMAIN Categories : Categories[c] = Category[source[i].photo]}
           key == [i \in wanted |-> CategoryNo(source[i].photo) * Len(source) + i]
<1>1. PwRows = InOrder(source, key)
  BY DEF PwRows
<1>2. Len(source) \in Nat /\ DOMAIN source = 1..Len(source)
  BY SeqFacts
<1>3. wanted \in SUBSET (DOMAIN source)
  OBVIOUS
<1>4. IsFiniteSet(wanted)
  BY <1>3, LinesFinite
<1>5. ASSUME NEW i \in wanted
      PROVE  CategoryNo(source[i].photo) \in Nat
  <2>1. CategoryNo(source[i].photo) \in DOMAIN Categories
    BY DEF CategoryNo
  <2> QED
    BY <2>1, ListsGiven
<1>6. ASSUME NEW i \in wanted
      PROVE  key[i] \in Nat /\ i \in 1..Len(source)
  <2>1. PICK a \in Nat : a = CategoryNo(source[i].photo)
    BY <1>5
  <2>2. a * Len(source) \in Nat /\ i \in Nat
    BY <1>2, <1>3, <2>1
  <2> QED
    BY <1>2, <1>3, <2>1, <2>2
<1>7. ASSUME NEW i \in wanted, NEW j \in wanted, key[i] = key[j]
      PROVE  i = j
  <2>1. PICK a \in Nat, b \in Nat : a = CategoryNo(source[i].photo) /\ b = CategoryNo(source[j].photo)
    BY <1>5
  <2>2. i \in 1..Len(source) /\ j \in 1..Len(source) /\ a * Len(source) + i = b * Len(source) + j
    BY <1>6, <1>7, <2>1
  <2> QED
    BY <1>2, <2>2, NumbersApart
<1>8. key \in [wanted -> Nat]
  <2>1. key = [i \in wanted |-> key[i]]
    OBVIOUS
  <2> HIDE DEF key
  <2> QED
    BY <1>6, <2>1
<1>9. \A i, j \in wanted : key[i] = key[j] => i = j
  BY <1>7
<1> HIDE DEF key, wanted
<1>10. IsSeq(PwRows) /\ TakenFrom(PwRows, source, wanted)
  BY <1>1, <1>4, <1>8, <1>9, InOrderRows
<1>11. Len(PwRows) \in Nat /\ DOMAIN PwRows = 1..Len(PwRows)
  BY <1>10, SeqFacts
<1>12. \A i \in DOMAIN PwRows : \E j \in wanted : PwRows[i] = source[j]
  BY <1>10 DEF TakenFrom
<1> QED
  BY <1>3, <1>10, <1>11, <1>12

\* The rows to write for only depend on the lists read.
LEMMA PwRowsSame ==
    ASSUME source' = source
    PROVE  PwRows' = PwRows
  BY DEF PwRows, CategoryNo, InOrder

\* The photos on file only depend on the files.
LEMMA FilePhotosSame ==
    ASSUME UNCHANGED photoVars
    PROVE  files' = files /\ FilePhotos' = FilePhotos /\ script' = script
  BY DEF photoVars, FilePhotos

\* A step that saves nothing leaves the file in order; labels given stay, and
\* the most ever asked for does not fall.
LEMMA LogAsked ==
    ASSUME LogInv, log' = log, \A m \in Success : m \in Success', IsSeq(log), QuotaTypes',
           quota.mostCond <= quota'.mostCond, quota.mostPlain <= quota'.mostPlain
    PROVE  LogInv'
<1>1. OneRecordPerMission'
  BY DEF LogInv, OneRecordPerMission, Id
<1>2. QuotaKept'
  <2>1. ASSUME NEW c \in {Category[x] : x \in General}
        PROVE  ForcedOf(c)' <= quota'.mostCond /\ PlainOf(c)' <= quota'.mostPlain
    <3>1. PICK a, b, m, n, m1, n1 :
            /\ a = ForcedOf(c) /\ b = PlainOf(c) /\ m = quota.mostCond /\ n = quota.mostPlain
            /\ m1 = quota'.mostCond /\ n1 = quota'.mostPlain
      OBVIOUS
    <3>2. a \in Nat /\ b \in Nat
      BY <3>1, WrittenCounts DEF ForcedOf, PlainOf
    <3>3. a <= m /\ b <= n
      BY <3>1 DEF LogInv, QuotaKept, ForcedOf, PlainOf
    <3>4. m \in Nat /\ n \in Nat /\ m1 \in Nat /\ n1 \in Nat /\ m <= m1 /\ n <= n1
      BY <3>1 DEF LogInv, QuotaTypes
    <3>5. a <= m1 /\ b <= n1
      BY <3>2, <3>3, <3>4
    <3>6. a = ForcedOf(c)' /\ b = PlainOf(c)'
      BY <3>1 DEF ForcedOf, PlainOf, Written
    <3> QED
      BY <3>1, <3>5, <3>6
  <2>2. \A i \in DOMAIN log' : log'[i].kind = "pw_plain" => ForcedInVain(log[i].photo)'
    BY DEF LogInv, QuotaKept, ForcedInVain, Id
  <2> QED
    BY <2>1, <2>2 DEF QuotaKept, ForcedOf, PlainOf
<1>3. SwapInv'
  BY DEF LogInv, SwapInv, Id
<1> QED
  BY <1>1, <1>2, <1>3 DEF LogInv

\* The same while the quota is as it was.
LEMMA LogSame ==
    ASSUME LogInv, log' = log, \A m \in Success : m \in Success', quota' = quota
    PROVE  LogInv'
<1>1. OneRecordPerMission' /\ QuotaKept' /\ QuotaTypes'
  BY DEF LogInv, OneRecordPerMission, QuotaKept, QuotaTypes, Written, ForcedInVain, Id
<1>2. SwapInv'
  BY DEF LogInv, SwapInv, Id
<1> QED
  BY <1>1, <1>2 DEF LogInv

\* Labels that stay leave the successes.
LEMMA SuccessSame ==
    ASSUME label' = label
    PROVE  Success' = Success
  BY DEF Success

\* A photo that is settled stays settled while nothing is saved.
LEMMA SettledSame ==
    ASSUME log' = log, quota' = quota, \A m \in tried : m \in tried', NEW p, Settled(p)
    PROVE  Settled(p)'
  BY DEF Settled, pw_mode, Written, ForcedInVain, Id

\* Nothing is settled or unsettled by a record that is no written mission.
LEMMA SettledOther ==
    ASSUME NEW r, IsSeq(log), Saved(r), r.kind \notin Pw, tried' = tried, quota' = quota, NEW p, Settled(p)
    PROVE  Settled(p)'
<1> DEFINE c == Category[p]
<1>1. ForcedOf(c)' = ForcedOf(c) /\ PlainOf(c)' = PlainOf(c)
  BY SavedCounts DEF CountsFor
<1>2. ForcedInVain(p)' <=> ForcedInVain(p)
  <2>1. Id(r) # <<p, "pw">>
    BY DEF Id, Pw
  <2> QED
    BY <2>1, SavedForced
<1> QED
  BY <1>1, <1>2 DEF Settled, pw_mode, ForcedOf, PlainOf

\* The settled photos stay settled when a mission is written, but for the one
\* it was written for.
LEMMA SettledWritten ==
    ASSUME NEW r, IsSeq(log), Saved(r), tried' = tried, QuotaTypes, quota' = quota, NEW p, Settled(p),
           r.kind = "pw" => r.photo # p
    PROVE  Settled(p)'
<1> DEFINE c == Category[p]
<1>1. PICK a, b, a1, b1 : a = ForcedOf(c) /\ b = PlainOf(c) /\ a1 = ForcedOf(c)' /\ b1 = PlainOf(c)'
  OBVIOUS
<1>2. a \in Nat /\ a1 \in Nat /\ a <= a1 /\ b \in Nat /\ b1 \in Nat /\ b <= b1
  <2>1. a \in Nat /\ (a1 = a \/ a1 = a + 1)
    BY <1>1, SavedCounts
  <2>2. b \in Nat /\ (b1 = b \/ b1 = b + 1)
    BY <1>1, SavedCounts
  <2> QED
    BY <2>1, <2>2
<1>3. ForcedInVain(p)' <=> ForcedInVain(p)
  <2>1. Id(r) # <<p, "pw">>
    BY DEF Id, Pw
  <2> QED
    BY <2>1, SavedForced
<1>4. PICK qc, qp : qc = quota.cond /\ qp = quota.plain /\ qc \in Nat /\ qp \in Nat
  BY DEF QuotaTypes
<1>5. (pw_mode(c) = "full" <=> (~(a < qc) /\ ~(b < qp)))
      /\ (pw_mode(c)' = "full" <=> (~(a1 < qc) /\ ~(b1 < qp)))
  BY <1>1, <1>4 DEF pw_mode, ForcedOf, PlainOf
<1>6. CASE pw_mode(c) = "full"
  <2>1. pw_mode(c)' = "full"
    BY <1>2, <1>4, <1>5, <1>6
  <2> QED
    BY <2>1 DEF Settled
<1>7. CASE pw_mode(c) # "full"
  <2>1. <<p, "pw">> \in tried /\ (ForcedInVain(p) /\ b < qp => <<p, "pw_plain">> \in tried)
    BY <1>1, <1>4, <1>7 DEF Settled, PlainOf
  <2>2. b1 < qp => b < qp
    BY <1>2, <1>4
  <2>3. <<p, "pw">> \in tried' /\ (ForcedInVain(p)' /\ b1 < qp => <<p, "pw_plain">> \in tried')
    BY <1>3, <2>1, <2>2
  <2> QED
    BY <1>1, <1>4, <2>3 DEF Settled, PlainOf
<1> QED
  BY <1>6, <1>7
-----------------------------------------------------------------------------
(***************************************************************************)
(* Proofs about the mission writer: its steps.                             *)
(***************************************************************************)
\* What a start asks for is within the most ever asked for, which grows.
LEMMA QuotaAsked ==
    ASSUME QuotaTypes, NEW n \in Nat, quota' = QuotaOf(n)
    PROVE  /\ QuotaTypes'
           /\ quota.mostCond <= quota'.mostCond /\ quota.mostPlain <= quota'.mostPlain
<1>1. PICK h : h = n \div 2 /\ h \in Nat /\ h <= n
  OBVIOUS
<1>2. n - h \in Nat
  BY <1>1
<1>3. PICK a, b : a = quota.mostCond /\ b = quota.mostPlain /\ a \in Nat /\ b \in Nat
  BY DEF QuotaTypes
<1>4. PICK x, y : x = Larger(a, h) /\ y = Larger(b, n - h)
  OBVIOUS
<1>5. x \in Nat /\ y \in Nat /\ h <= x /\ a <= x /\ n - h <= y /\ b <= y
  BY <1>1, <1>2, <1>3, <1>4 DEF Larger
<1>6. quota' = [cond |-> h, plain |-> n - h, mostCond |-> x, mostPlain |-> y]
  BY <1>1, <1>3, <1>4 DEF QuotaOf
<1>7. quota'.cond = h /\ quota'.plain = n - h /\ quota'.mostCond = x /\ quota'.mostPlain = y
  BY <1>6
<1>8. QuotaTypes'
  BY <1>1, <1>2, <1>5, <1>6, <1>7 DEF QuotaTypes
<1> QED
  BY <1>3, <1>5, <1>7, <1>8

\* A start reads the lists and the file, and asks nothing yet.
LEMMA StartKeeps ==
    ASSUME ContentInv, WriterInv, StartWriter
    PROVE  WriterInv'
<1> USE DEF WriterInv
<1>0. /\ phase = "off" /\ phase' = "pw" /\ pos' = 1 /\ starts' = starts + 1 /\ "manifest" \in DOMAIN files
      /\ log' = log /\ asked' = asked /\ label' = label /\ tried' = done_ids
      /\ UNCHANGED photoVars
  BY DEF StartWriter
<1>1. asked' = <<>> /\ starts \in Nat /\ IsSeq(log) /\ FilePhotos' = FilePhotos
  BY <1>0, FilePhotosSame DEF WriterTypes
<1>2. PICK src, left : src = source' /\ left = genLeft'
  OBVIOUS
<1>3. PICK c \in Commands :
        /\ c.spare => "general_spare" \in DOMAIN files
        /\ src = files["manifest"].rows \o (IF c.spare THEN files["general_spare"].rows ELSE <<>>)
        /\ quota' = QuotaOf(c.per_category)
  BY <1>2 DEF StartWriter
<1>4. IsSeq(src) /\ \A i \in DOMAIN src : src[i].photo \in FilePhotos
  <2> DEFINE A == files["manifest"].rows
             B == IF c.spare THEN files["general_spare"].rows ELSE <<>>
  <2>1. IsSeq(A) /\ \A i \in DOMAIN A : A[i].photo \in FilePhotos
    BY <1>0 DEF ContentInv, FilePhotos, Lists
  <2>2. IsSeq(B) /\ \A i \in DOMAIN B : B[i].photo \in FilePhotos
    <3>1. CASE c.spare
      <4>1. B = files["general_spare"].rows /\ "general_spare" \in Lists \cap DOMAIN files
        BY <1>3, <3>1 DEF Lists
      <4> HIDE DEF B
      <4> QED
        BY <4>1 DEF ContentInv, FilePhotos
    <3>2. CASE ~c.spare
      <4>1. B = <<>>
        BY <3>2
      <4> HIDE DEF B
      <4> QED
        BY <4>1, SeqEmpty
    <3> QED
      BY <3>1, <3>2
  <2>3. src = A \o B
    BY <1>3
  <2> HIDE DEF A, B
  <2>4. /\ IsSeq(A \o B)
        /\ \A i \in DOMAIN (A \o B) :
             (\E j \in DOMAIN A : (A \o B)[i] = A[j]) \/ (\E j \in DOMAIN B : (A \o B)[i] = B[j])
    BY <2>1, <2>2, SeqConcat
  <2> QED
    BY <2>1, <2>2, <2>3, <2>4
<1> DEFINE P == {j \in DOMAIN src : src[j].role = "service_generate" /\ <<src[j].photo, "gen">> \notin done_ids}
<1>5. left = {src[i].photo : i \in P}
  BY <1>0, <1>2 DEF StartWriter
<1>6. IsFiniteSet(left) /\ left \subseteq FilePhotos /\ \A p \in left : <<p, "gen">> \notin done_ids
  <2>1. IsFiniteSet(P)
    BY <1>4, LinesFinite
  <2>2. \A i \in P : src[i].photo \in FilePhotos /\ <<src[i].photo, "gen">> \notin done_ids
    BY <1>4
  <2> HIDE DEF P
  <2>3. IsFiniteSet({src[i].photo : i \in P})
    <3> DEFINE R == {src[i].photo : i \in P}
               f == [i \in P |-> src[i].photo]
    <3>1. f \in Surjection(P, R)
      BY DEF Surjection
    <3> HIDE DEF f, R
    <3>2. IsFiniteSet(R)
      BY <2>1, <3>1, FS_Surjection
    <3> QED
      BY <3>2 DEF R
  <2> QED
    BY <1>5, <2>2, <2>3
<1>7. WriterTypes'
  <2>1. \A i \in DOMAIN log : RecOk(log[i])'
    BY <1>0, <1>1 DEF WriterTypes, RecOk
  <2>2. IsSeq(source') /\ \A i \in DOMAIN source' : source'[i].photo \in FilePhotos'
    BY <1>1, <1>2, <1>4
  <2>3. genLeft' \subseteq FilePhotos' /\ IsFiniteSet(genLeft')
    BY <1>1, <1>2, <1>6
  <2>4. DOMAIN asked' = {} /\ IsSeq(asked')
    BY <1>1, SeqEmpty
  <2> QED
    BY <1>0, <1>1, <2>1, <2>2, <2>3, <2>4 DEF WriterTypes
<1>8. LogInv'
  <2>1. /\ QuotaTypes'
        /\ quota.mostCond <= quota'.mostCond /\ quota.mostPlain <= quota'.mostPlain
    <3>1. c.per_category \in Nat
      BY MissionsAssumption
    <3>2. QuotaTypes
      BY DEF LogInv
    <3> QED
      BY <1>3, <3>1, <3>2, QuotaAsked
  <2> QED
    BY <1>0, <1>1, <2>1, LogAsked, SuccessSame
<1>9. TriedInv'
  <2>1. ASSUME NEW i \in DOMAIN log
        PROVE  Id(log[i]) \in done_ids /\ (log[i].kind = "gen" => log[i].photo \notin left)
    <3>1. Id(log[i]) \in done_ids
      BY DEF done_ids
    <3> QED
      BY <1>6, <3>1 DEF Id
  <2> QED
    BY <1>0, <1>2, <2>1 DEF TriedInv, Id
<1>10. AskInv' /\ TargetInv'
  BY <1>0, <1>1 DEF AskInv, TargetInv, Asking
<1>11. SettledInv'
  <2>1. \A i \in DOMAIN PwRows' : i \in Int /\ 1 <= i
    BY DEF PwRows, InOrder
  <2> QED
    BY <1>0, <2>1 DEF SettledInv, FullOrUsedUp
<1> QED
  BY <1>7, <1>8, <1>9, <1>10, <1>11

\* What the choice of the next call says of the photo.
LEMMA NextCall ==
    ASSUME NEW p, pw_next(p) # "none"
    PROVE  /\ pw_next(p) = "plain_rescue" => /\ <<p, "pw_plain">> \notin tried /\ ForcedInVain(p)
                                             /\ PlainOf(Category[p]) < quota.plain
           /\ pw_next(p) # "plain_rescue" => <<p, "pw">> \notin tried /\ pw_mode(Category[p]) # "full"
           /\ pw_next(p) = "with_condition" => ForcedOf(Category[p]) < quota.cond
           /\ pw_next(p) # "with_condition" => PlainOf(Category[p]) < quota.plain
  BY DEF pw_next, pw_mode, ForcedOf, PlainOf

\* A mission is marked as tried before it is asked for.
LEMMA AskPwKeeps ==
    ASSUME WriterInv, AskPw
    PROVE  WriterInv'
<1> DEFINE p == PwRows[pos].photo
           kind == IF pw_next(p) = "plain_rescue" THEN "pw_plain" ELSE "pw"
<1> USE DEF WriterInv
<1>0. /\ phase = "pw" /\ ~Asking /\ pos <= Len(PwRows) /\ pw_next(p) # "none"
      /\ tried' = tried \cup {<<p, kind>>}
      /\ asked' = <<Record(p, kind, pw_next(p) = "with_condition", <<>>)>>
      /\ UNCHANGED <<photoVars, label, log, phase, source, swapping, pos, targets, genLeft, calls, cap, quota, starts>>
  BY DEF AskPw
<1>1. FilePhotos' = FilePhotos /\ PwRows' = PwRows
  BY <1>0, FilePhotosSame, PwRowsSame
<1>2. pos \in DOMAIN PwRows /\ p \in FilePhotos
  <2>1. /\ Len(PwRows) \in Nat /\ DOMAIN PwRows = 1..Len(PwRows)
        /\ \A i \in DOMAIN PwRows : PwRows[i].photo \in FilePhotos
    BY PwRowsFacts DEF WriterTypes
  <2>2. pos \in Nat \ {0}
    BY DEF WriterTypes
  <2> QED
    BY <1>0, <2>1, <2>2
<1>3. /\ pw_next(p) = "plain_rescue" => /\ <<p, "pw_plain">> \notin tried /\ ForcedInVain(p)
                                        /\ PlainOf(Category[p]) < quota.plain
      /\ pw_next(p) # "plain_rescue" => <<p, "pw">> \notin tried /\ pw_mode(Category[p]) # "full"
      /\ pw_next(p) = "with_condition" => ForcedOf(Category[p]) < quota.cond
      /\ pw_next(p) # "with_condition" => PlainOf(Category[p]) < quota.plain
  BY <1>0, NextCall
<1>4. PICK cond \in BOOLEAN : cond = (pw_next(p) = "with_condition")
  OBVIOUS
<1>5. PICK r : r = Record(p, kind, cond, <<>>)
  OBVIOUS
<1>6. asked' = <<r>>
  BY <1>0, <1>4, <1>5
<1>7. /\ r.photo = p /\ r.kind = kind /\ r.cond = cond /\ r.parent = <<>> /\ r.usable = TRUE
      /\ r = [photo |-> r.photo, kind |-> r.kind, cond |-> r.cond, parent |-> r.parent, usable |-> r.usable]
  BY <1>5 DEF Record
<1>8. Len(asked') = 1 /\ asked'[1] = r /\ DOMAIN asked' = {1} /\ IsSeq(asked')
  <2>1. <<r>> \in Seq({r}) /\ Len(<<r>>) = 1 /\ <<r>>[1] = r /\ DOMAIN <<r>> = {1}
    OBVIOUS
  <2>2. IsSeq(<<r>>)
    BY <2>1, SeqOfAny
  <2> QED
    BY <1>6, <2>1, <2>2
<1>9. kind \in Pw /\ Id(r) = <<p, kind>> /\ Id(r) \notin tried
  BY <1>3, <1>7 DEF Id, Pw
<1>10. kind = "pw_plain" => ForcedInVain(p) /\ ~cond
  BY <1>3, <1>4
<1>11. IF cond THEN ForcedOf(Category[p]) < quota.cond ELSE PlainOf(Category[p]) < quota.plain
  BY <1>3, <1>4
<1>12. kind = "pw" => ~Settled(p)
  BY <1>3 DEF Settled
<1> HIDE DEF p, kind
<1>13. WriterTypes'
  <2>1. RecOk(r)'
    BY <1>1, <1>2, <1>7, <1>9 DEF RecOk
  <2>2. \A i \in DOMAIN log : RecOk(log[i])'
    BY <1>0, <1>1 DEF WriterTypes, RecOk
  <2>3. \A i \in DOMAIN asked' : asked'[i] = r
    BY <1>8
  <2> QED
    BY <1>0, <1>1, <1>8, <2>1, <2>2, <2>3 DEF WriterTypes, RecOk
<1>14. LogInv'
  BY <1>0, LogSame, SuccessSame
<1>15. TriedInv'
  BY <1>0 DEF TriedInv, Id
<1>16. AskInv'
  <2>1. \A i \in DOMAIN log : Id(log[i]) # Id(r)
    <3>1. ASSUME NEW i \in DOMAIN log, Id(log[i]) = Id(r)
          PROVE  FALSE
      <4>1. log[i].kind = r.kind
        BY <3>1 DEF Id
      <4>2. Id(log[i]) \in tried
        BY <1>0, <1>7, <1>9, <4>1 DEF TriedInv
      <4> QED
        BY <1>9, <3>1, <4>2
    <3> QED
      BY <3>1
  <2>2. Id(r) \in tried'
    BY <1>0, <1>9
  <2>3. IF r.cond THEN Cardinality(Written(Category[r.photo], TRUE)) < quota.cond
        ELSE Cardinality(Written(Category[r.photo], FALSE)) < quota.plain
    BY <1>7, <1>11 DEF ForcedOf, PlainOf
  <2>4. r.kind = "pw_plain" => ForcedInVain(r.photo) /\ ~r.cond
    BY <1>7, <1>10
  <2>5. phase' = "pw"
    BY <1>0
  <2>6. ASSUME phase' = "pw"
        PROVE  /\ Len(asked') = 1 /\ asked'[1].kind \in Pw /\ Id(asked'[1]) \in tried'
               /\ \A i \in DOMAIN log' : Id(log'[i]) # Id(asked'[1])
               /\ asked'[1].kind = "pw_plain" => ~asked'[1].cond
    BY <1>0, <1>7, <1>8, <1>9, <2>1, <2>2, <2>4 
  <2>7. (IF r.cond THEN Cardinality(Written(Category[r.photo], TRUE)) < quota.cond
         ELSE Cardinality(Written(Category[r.photo], FALSE)) < quota.plain)'
    BY <1>0, <2>3 DEF Written
  <2>8. r.kind = "pw_plain" => ForcedInVain(r.photo)'
    BY <1>0, <2>4 DEF ForcedInVain, Id
  <2> QED
    BY <1>8, <2>5, <2>6, <2>7, <2>8 DEF AskInv, Id, Written, ForcedInVain
<1>17. TargetInv'
  BY <1>0 DEF TargetInv
<1>18. SettledInv'
  <2>1. ASSUME cap = 0, NEW i \in DOMAIN PwRows, i < pos
        PROVE  Settled(PwRows[i].photo) /\ Settled(PwRows[i].photo)'
               /\ (kind = "pw" => PwRows[i].photo # p)
    <3>1. PICK q : q = PwRows[i].photo
      OBVIOUS
    <3>2. Settled(q)
      BY <1>0, <2>1, <3>1 DEF SettledInv
    <3>3. Settled(q)'
      BY <1>0, <3>2, SettledSame
    <3>4. kind = "pw" => q # p
      BY <1>12, <3>2
    <3>5. Settled(PwRows[i].photo)'
      BY <1>1, <3>1, <3>3 DEF Settled, pw_mode, Written, ForcedInVain, Id
    <3> QED
      BY <3>1, <3>2, <3>4, <3>5
  <2>2. FullOrUsedUp'
    BY <1>0 DEF FullOrUsedUp
  <2> QED
    BY <1>0, <1>1, <1>7, <1>8, <2>1, <2>2 DEF SettledInv
<1> QED
  BY <1>13, <1>14, <1>15, <1>16, <1>17, <1>18

\* A step that goes on to another row or phase.
LEMMA MoveKeeps ==
    ASSUME WriterInv, ~Asking, phase # "off", phase' \in {"pw", "swap", "gen"}, pos' \in Nat \ {0},
           UNCHANGED <<photoVars, label, log, source, swapping, tried, asked, genLeft, calls, cap, quota, starts>>
    PROVE  /\ WriterTypes' /\ LogInv' /\ TriedInv' /\ AskInv' /\ ~Asking'
           /\ PwRows' = PwRows
           /\ \A p : Settled(p) => Settled(p)'
<1> USE DEF WriterInv
<1>1. FilePhotos' = FilePhotos /\ PwRows' = PwRows
  BY FilePhotosSame, PwRowsSame
<1>2. WriterTypes'
  <2>1. \A i \in DOMAIN log : RecOk(log[i])'
    BY <1>1 DEF WriterTypes, RecOk
  <2>2. asked' = <<>> /\ DOMAIN asked' = {} /\ IsSeq(asked')
    BY SeqEmpty DEF Asking
  <2>3. starts # 0
    BY DEF WriterTypes
  <2> QED
    BY <1>1, <2>1, <2>2, <2>3 DEF WriterTypes
<1>3. LogInv'
  BY LogSame, SuccessSame
<1>4. TriedInv' /\ AskInv' /\ ~Asking'
  BY DEF TriedInv, AskInv, Asking, Id
<1>5. \A p : Settled(p) => Settled(p)'
  BY SettledSame
<1> QED
  BY <1>1, <1>2, <1>3, <1>4, <1>5

\* A row is left when nothing is left to write for its photo, or no call.
LEMMA NextRowKeeps ==
    ASSUME WriterInv, NextRow
    PROVE  WriterInv'
<1> DEFINE p == PwRows[pos].photo
<1>0. /\ phase = "pw" /\ ~Asking /\ pos <= Len(PwRows) /\ pos' = pos + 1 /\ pos \in Nat \ {0}
      /\ ~BudgetLeft \/ pw_next(p) = "none"
      /\ UNCHANGED <<photoVars, label, log, phase, source, swapping, tried, asked, targets, genLeft, calls, cap, quota, starts>>
  BY DEF NextRow, WriterInv, WriterTypes
<1>1. pos' \in Nat \ {0} /\ phase' = "pw"
  BY <1>0
<1>2. /\ WriterTypes' /\ LogInv' /\ TriedInv' /\ AskInv' /\ ~Asking'
      /\ PwRows' = PwRows /\ \A q : Settled(q) => Settled(q)'
  BY <1>0, <1>1, MoveKeeps
<1>3. TargetInv'
  BY <1>0 DEF TargetInv
<1>4. SettledInv'
  <2>1. cap = 0 => Settled(p)
    <3>1. pw_next(p) = "none" => Settled(p)
      <4>1. pw_mode(Category[p]) # "none"
        BY DEF pw_mode
      <4> QED
        BY <4>1 DEF pw_next, Settled
    <3> QED
      BY <1>0, <3>1 DEF BudgetLeft
  <2>2. ASSUME cap = 0, NEW i \in DOMAIN PwRows, i < pos + 1
        PROVE  Settled(PwRows[i].photo)'
    <3>1. PICK q : q = PwRows[i].photo
      OBVIOUS
    <3>2. Settled(q)
      <4>1. CASE i = pos
        BY <2>1, <2>2, <3>1, <4>1
      <4>2. CASE i # pos
        <5>1. Len(PwRows) \in Nat /\ DOMAIN PwRows = 1..Len(PwRows)
          BY PwRowsFacts DEF WriterInv, WriterTypes
        <5>2. i < pos
          BY <1>0, <2>2, <4>2, <5>1
        <5> QED
          BY <1>0, <2>2, <3>1, <5>2 DEF WriterInv, SettledInv
      <4> QED
        BY <4>1, <4>2
    <3>3. Settled(q)'
      BY <1>2, <3>2
    <3> QED
      BY <1>2, <3>1, <3>3 DEF Settled, pw_mode, Written, ForcedInVain, Id
  <2>3. FullOrUsedUp'
    BY <1>0 DEF FullOrUsedUp
  <2> QED
    BY <1>0, <1>2, <2>2, <2>3 DEF SettledInv
<1> QED
  BY <1>2, <1>3, <1>4 DEF WriterInv

\* The missions to swap are listed: one of each photo at most, of those whose
\* mission has no changed condition yet.
LEMMA TargetsListed ==
    ASSUME WriterInv, NEW labelled \in BOOLEAN, NEW T, T = swap_targets(labelled)
    PROVE  /\ IsSeq(T)
           /\ \A t \in DOMAIN T :
                /\ \E i \in DOMAIN log : log[i] = T[t]
                /\ T[t].kind \in Pw /\ T[t].usable
                /\ T[t].cond \/ Id(T[t]) \in Success
                /\ <<T[t].photo, "swap">> \notin {Id(log[i]) : i \in DOMAIN log}
           /\ \A t, u \in DOMAIN T : T[t].photo = T[u].photo => t = u
<1> USE DEF WriterInv
<1> DEFINE P == {i \in DOMAIN log :
                   /\ log[i].kind \in {"pw", "pw_plain"} /\ log[i].usable /\ Id(log[i]) \notin Swapped
                   /\ IF labelled THEN Id(log[i]) \in Success ELSE log[i].cond}
<1>1. T = Kept(log, P) /\ P \in SUBSET (DOMAIN log) /\ IsSeq(log)
  BY DEF swap_targets, WriterTypes
<1>2. \A i \in P : /\ i \in DOMAIN log /\ log[i].kind \in Pw /\ log[i].usable /\ Id(log[i]) \notin Swapped
                   /\ log[i].cond \/ Id(log[i]) \in Success
  BY DEF Pw
<1> HIDE DEF P
<1>3. IsSeq(T) /\ TakenFrom(T, log, P)
  BY <1>1, KeptRows
<1>4. PICK at \in [DOMAIN T -> P] :
        /\ \A n, m \in DOMAIN T : at[n] = at[m] => n = m
        /\ \A n \in DOMAIN T : T[n] = log[at[n]]
  BY <1>3 DEF TakenFrom
<1>5. ASSUME NEW t \in DOMAIN T
      PROVE  at[t] \in P /\ T[t] = log[at[t]]
  BY <1>4
<1>6. ASSUME NEW i \in P, NEW j \in P, log[i].photo = log[j].photo
      PROVE  i = j
  <2>1. \A m \in DOMAIN log : RecOk(log[m])
    BY DEF WriterTypes
  <2> QED
    BY <1>2, <1>6, <2>1, OneUsable
<1>7. ASSUME NEW i \in P, NEW n \in DOMAIN log, Id(log[n]) = <<log[i].photo, "swap">>
      PROVE  FALSE
  <2>1. log[n].kind = "swap" /\ log[n].photo = log[i].photo
    BY <1>7 DEF Id
  <2>2. PICK j \in 1..(n - 1) : /\ log[j].kind \in Pw /\ log[j].usable /\ log[j].photo = log[n].photo
                                /\ Id(log[j]) = log[n].parent
    BY <2>1 DEF LogInv, SwapInv
  <2>3. Len(log) \in Nat /\ DOMAIN log = 1..Len(log)
    BY <1>1, SeqFacts
  <2>4. j \in DOMAIN log
    BY <2>3
  <2>5. \A m \in DOMAIN log : RecOk(log[m])
    BY DEF WriterTypes
  <2>6. i \in DOMAIN log /\ log[i].kind \in Pw /\ log[i].usable /\ Id(log[i]) \notin Swapped
    BY <1>2
  <2>7. j = i
    BY <2>1, <2>2, <2>4, <2>5, <2>6, OneUsable
  <2> QED
    BY <2>1, <2>2, <2>6, <2>7 DEF Swapped
<1>8. ASSUME NEW t \in DOMAIN T
      PROVE  /\ \E i \in DOMAIN log : log[i] = T[t]
             /\ T[t].kind \in Pw /\ T[t].usable
             /\ T[t].cond \/ Id(T[t]) \in Success
             /\ <<T[t].photo, "swap">> \notin {Id(log[i]) : i \in DOMAIN log}
  <2>1. at[t] \in P /\ T[t] = log[at[t]]
    BY <1>5
  <2>2. <<T[t].photo, "swap">> \notin {Id(log[i]) : i \in DOMAIN log}
    BY <1>7, <2>1
  <2> QED
    BY <1>2, <2>1, <2>2
<1>9. ASSUME NEW t \in DOMAIN T, NEW u \in DOMAIN T, T[t].photo = T[u].photo
      PROVE  t = u
  <2>1. at[t] = at[u]
    BY <1>5, <1>6, <1>9
  <2> QED
    BY <1>4, <2>1
<1> QED
  BY <1>3, <1>8, <1>9

\* The swap starts when every row was left settled.
LEMMA BeginSwapKeeps ==
    ASSUME WriterInv, BeginSwap
    PROVE  WriterInv'
<1>0. /\ phase = "pw" /\ ~Asking /\ pos > Len(PwRows) /\ pos \in Nat \ {0} /\ phase' = "swap" /\ pos' = 1
      /\ targets' = IF swapping = "no" THEN <<>> ELSE swap_targets(swapping = "success")
      /\ UNCHANGED <<photoVars, label, log, source, swapping, tried, asked, genLeft, calls, cap, quota, starts>>
  BY DEF BeginSwap, WriterInv, WriterTypes
<1>1. pos' \in Nat \ {0}
  BY <1>0
<1>2. /\ WriterTypes' /\ LogInv' /\ TriedInv' /\ AskInv' /\ ~Asking'
      /\ PwRows' = PwRows /\ \A q : Settled(q) => Settled(q)'
  BY <1>0, <1>1, MoveKeeps
<1>3. TargetInv'
  <2>1. Success' = Success
    BY <1>0, SuccessSame
  <2>2. PICK T : T = targets'
    OBVIOUS
  <2>3. /\ IsSeq(T)
        /\ \A t \in DOMAIN T :
             /\ \E i \in DOMAIN log : log[i] = T[t]
             /\ T[t].kind \in Pw /\ T[t].usable
             /\ T[t].cond \/ Id(T[t]) \in Success
             /\ <<T[t].photo, "swap">> \notin {Id(log[i]) : i \in DOMAIN log}
        /\ \A t, u \in DOMAIN T : T[t].photo = T[u].photo => t = u
    <3>1. CASE swapping = "no"
      <4>1. T = <<>>
        BY <1>0, <2>2, <3>1
      <4> QED
        BY <4>1, SeqEmpty
    <3>2. CASE swapping # "no"
      <4>1. PICK labelled \in BOOLEAN : labelled = (swapping = "success")
        OBVIOUS
      <4>2. T = swap_targets(labelled)
        BY <1>0, <2>2, <3>2, <4>1
      <4> QED
        BY <4>2, TargetsListed
    <3> QED
      BY <3>1, <3>2
  <2> QED
    BY <1>0, <2>1, <2>2, <2>3 DEF TargetInv, Id
<1>4. SettledInv'
  <2>1. ASSUME cap = 0, NEW i \in DOMAIN PwRows
        PROVE  Settled(PwRows[i].photo)'
    <3>1. PICK q : q = PwRows[i].photo
      OBVIOUS
    <3>2. Len(PwRows) \in Nat /\ DOMAIN PwRows = 1..Len(PwRows)
      BY PwRowsFacts DEF WriterInv, WriterTypes
    <3>3. i < pos
      BY <1>0, <3>2
    <3>4. Settled(q)
      BY <1>0, <2>1, <3>1, <3>3 DEF WriterInv, SettledInv
    <3>5. Settled(q)'
      BY <1>2, <3>4
    <3> QED
      BY <1>2, <3>1, <3>5 DEF Settled, pw_mode, Written, ForcedInVain, Id
  <2>2. FullOrUsedUp'
    BY <1>0, <1>2, <2>1 DEF FullOrUsedUp, Settled
  <2> QED
    BY <1>0, <2>2 DEF SettledInv
<1> QED
  BY <1>2, <1>3, <1>4 DEF WriterInv

\* The service's missions come after the swaps.
LEMMA BeginGenKeeps ==
    ASSUME WriterInv, BeginGen
    PROVE  WriterInv'
<1>0. /\ phase = "swap" /\ ~Asking /\ pos \in Nat \ {0} /\ phase' = "gen" /\ pos' = pos
      /\ UNCHANGED <<photoVars, label, log, source, swapping, tried, asked, targets, genLeft, calls, cap, quota, starts>>
  BY DEF BeginGen, WriterInv, WriterTypes
<1>1. pos' \in Nat \ {0}
  BY <1>0
<1>2. /\ WriterTypes' /\ LogInv' /\ TriedInv' /\ AskInv' /\ ~Asking'
      /\ PwRows' = PwRows
  BY <1>0, <1>1, MoveKeeps
<1>3. TargetInv'
  BY <1>0 DEF TargetInv
<1>4. SettledInv'
  BY <1>0, <1>2 DEF WriterInv, SettledInv, FullOrUsedUp, pw_mode, Written, ForcedInVain, Id
<1> QED
  BY <1>2, <1>3, <1>4 DEF WriterInv

\* The end of a start, or its death.
LEMMA ForgetKeeps ==
    ASSUME WriterInv, Forget, phase # "off", UNCHANGED <<photoVars, label, log, starts>>
    PROVE  WriterInv'
<1>0. phase' = "off" /\ source' = <<>> /\ asked' = <<>> /\ pos' = 1 /\ genLeft' = {}
  BY DEF Forget
<1>1. FilePhotos' = FilePhotos
  BY FilePhotosSame
<1>2. WriterTypes'
  <2>1. \A i \in DOMAIN log : RecOk(log[i])'
    BY <1>1 DEF WriterInv, WriterTypes, RecOk
  <2>2. IsSeq(<<>>) /\ DOMAIN <<>> = {} /\ IsFiniteSet({})
    BY SeqEmpty, FS_EmptySet
  <2>3. IsSeq(source') /\ DOMAIN source' = {} /\ IsSeq(asked') /\ DOMAIN asked' = {}
    BY <1>0, <2>2
  <2> QED
    BY <1>0, <1>1, <2>1, <2>2, <2>3 DEF WriterInv, WriterTypes
<1>3. LogInv'
  <2>1. QuotaTypes /\ IsSeq(log) /\ LogInv
    BY DEF WriterInv, WriterTypes, LogInv
  <2>2. quota' = [quota EXCEPT !.cond = 0, !.plain = 0]
    BY DEF Forget
  <2>3. quota' = [cond |-> 0, plain |-> 0, mostCond |-> quota.mostCond, mostPlain |-> quota.mostPlain]
    BY <2>1, <2>2 DEF QuotaTypes
  <2>4. /\ quota'.cond = 0 /\ quota'.plain = 0
        /\ quota'.mostCond = quota.mostCond /\ quota'.mostPlain = quota.mostPlain
    BY <2>3
  <2>5. QuotaTypes' /\ quota.mostCond <= quota'.mostCond /\ quota.mostPlain <= quota'.mostPlain
    BY <2>1, <2>3, <2>4 DEF QuotaTypes
  <2> QED
    BY <2>1, <2>5, LogAsked, SuccessSame
<1>4. TriedInv' /\ AskInv' /\ TargetInv' /\ SettledInv'
  BY <1>0 DEF TriedInv, AskInv, TargetInv, SettledInv, FullOrUsedUp, Asking
<1> QED
  BY <1>2, <1>3, <1>4 DEF WriterInv

\* A record saved is one of those on file afterwards.
LEMMA SavedTypes ==
    ASSUME NEW r, WriterInv, Saved(r), files' = files, starts' = starts, starts # 0,
           source' = source, phase' = phase, phase # "off", pos' \in Nat \ {0}, genLeft' = genLeft,
           IsSeq(asked'), \A i \in DOMAIN asked' : \E j \in DOMAIN asked : asked'[i] = asked[j]
    PROVE  WriterTypes'
<1>1. FilePhotos' = FilePhotos
  BY DEF FilePhotos
<1>2. \A i \in DOMAIN log' : RecOk(log'[i])
  <2>1. /\ \A i \in DOMAIN log : log'[i] = log[i]
        /\ log'[Len(log) + 1] = r
        /\ \A i \in DOMAIN log' : i \in DOMAIN log \/ i = Len(log) + 1
    BY SavedFacts DEF WriterInv, WriterTypes
  <2>2. RecOk(r) /\ \A i \in DOMAIN log : RecOk(log[i])
    BY DEF Saved, WriterInv, WriterTypes
  <2> QED
    BY <2>1, <2>2
<1>3. IsSeq(log')
  BY SavedFacts DEF WriterInv, WriterTypes
<1>4. \A i \in DOMAIN asked' : RecOk(asked'[i])
  BY DEF WriterInv, WriterTypes
<1>5. \A i \in DOMAIN log' : RecOk(log[i])'
  BY <1>1, <1>2 DEF RecOk
<1>6. \A i \in DOMAIN asked' : RecOk(asked[i])'
  BY <1>1, <1>4 DEF RecOk
<1>7. starts' \in Nat /\ phase' \in {"off", "pw", "swap", "gen"}
  BY DEF WriterInv, WriterTypes
<1>8. IsSeq(source') /\ \A i \in DOMAIN source' : source'[i].photo \in FilePhotos'
  BY <1>1 DEF WriterInv, WriterTypes
<1>9. genLeft' \subseteq FilePhotos' /\ IsFiniteSet(genLeft')
  BY <1>1 DEF WriterInv, WriterTypes
<1>10. phase' # "off" /\ starts' # 0
  OBVIOUS
<1> QED
  BY <1>3, <1>5, <1>6, <1>7, <1>8, <1>9, <1>10 DEF WriterTypes

\* No record, and the call is over.
LEMMA UnansweredTypes ==
    ASSUME WriterInv, log' = log, files' = files, starts' = starts, source' = source,
           phase' = phase, phase # "off", pos' \in Nat \ {0}, genLeft' = genLeft, asked' = <<>>
    PROVE  WriterTypes'
<1>1. FilePhotos' = FilePhotos
  BY DEF FilePhotos
<1>2. \A i \in DOMAIN log' : RecOk(log[i])'
  BY <1>1 DEF RecOk, WriterInv, WriterTypes
<1>3. IsSeq(asked') /\ DOMAIN asked' = {}
  BY SeqEmpty
<1>4. starts # 0
  BY DEF WriterInv, WriterTypes
<1> QED
  BY <1>1, <1>2, <1>3, <1>4 DEF WriterInv, WriterTypes

\* The answer about a photo becomes its one record of that kind, or none.
LEMMA AnswerPwKeeps ==
    ASSUME WriterInv, AnswerPw
    PROVE  WriterInv'
<1> DEFINE q == asked[1]
<1>0. /\ phase = "pw" /\ Asking /\ log' \in {log \o reply : reply \in write_one(q)}
      /\ asked' = <<>> /\ phase' = "pw"
      /\ UNCHANGED <<photoVars, label, phase, source, swapping, tried, pos, targets, genLeft, cap, quota, starts>>
  BY DEF AnswerPw
<1>1. /\ IsSeq(log) /\ pos' \in Nat \ {0} /\ files' = files /\ PwRows' = PwRows
      /\ starts # 0 /\ IsSeq(asked') /\ DOMAIN asked' = {} /\ ~Asking'
  <2>1. IsSeq(log) /\ pos \in Nat \ {0} /\ starts # 0
    BY <1>0 DEF WriterInv, WriterTypes
  <2>2. IsSeq(asked') /\ DOMAIN asked' = {} /\ ~Asking'
    BY <1>0, SeqEmpty DEF Asking
  <2> QED
    BY <1>0, <2>1, <2>2, FilePhotosSame, PwRowsSame
<1>2. AskInv' /\ TargetInv'
  BY <1>0, <1>1 DEF AskInv, TargetInv
<1>3. /\ Len(asked) = 1 /\ q.kind \in Pw /\ Id(q) \in tried
      /\ \A i \in DOMAIN log : Id(log[i]) # Id(q)
      /\ IF q.cond THEN Cardinality(Written(Category[q.photo], TRUE)) < quota.cond
         ELSE Cardinality(Written(Category[q.photo], FALSE)) < quota.plain
      /\ q.kind = "pw_plain" => ForcedInVain(q.photo)
  BY <1>0 DEF WriterInv, AskInv
<1>4. RecOk(q)
  <2>1. 1 \in DOMAIN asked
    BY <1>3, SeqFacts DEF WriterInv, WriterTypes
  <2> QED
    BY <2>1 DEF WriterInv, WriterTypes
<1>5. ASSUME cap = 0, NEW i \in DOMAIN PwRows, i < pos
      PROVE  Settled(PwRows[i].photo) /\ (q.kind = "pw" => PwRows[i].photo # q.photo)
  BY <1>0, <1>5 DEF WriterInv, SettledInv
<1>6. CASE log' = log
  <2>1. WriterTypes'
    BY <1>0, <1>1, <1>6, UnansweredTypes
  <2>2. LogInv'
    BY <1>0, <1>6, LogSame, SuccessSame DEF WriterInv
  <2>3. TriedInv'
    BY <1>0, <1>6 DEF WriterInv, TriedInv, Id
  <2>4. SettledInv'
    <3>1. ASSUME cap = 0, NEW i \in DOMAIN PwRows, i < pos
          PROVE  Settled(PwRows[i].photo)'
      BY <1>0, <1>1, <1>5, <1>6, <3>1 DEF Settled, pw_mode, Written, ForcedInVain, Id
    <3>2. FullOrUsedUp'
      BY <1>0 DEF FullOrUsedUp
    <3> QED
      BY <1>0, <1>1, <3>1, <3>2 DEF SettledInv
  <2> QED
    BY <1>2, <2>1, <2>2, <2>3, <2>4 DEF WriterInv
<1>7. CASE \E u \in BOOLEAN : log' = Append(log, [q EXCEPT !.usable = u])
  <2>1. PICK u \in BOOLEAN : log' = Append(log, [q EXCEPT !.usable = u])
    BY <1>7
  <2>2. PICK r : r = [q EXCEPT !.usable = u]
    OBVIOUS
  <2>3. /\ r.photo = q.photo /\ r.kind = q.kind /\ r.cond = q.cond /\ r.usable = u
        /\ r = [photo |-> r.photo, kind |-> r.kind, cond |-> r.cond, parent |-> r.parent, usable |-> r.usable]
    <3>1. q = [photo |-> q.photo, kind |-> q.kind, cond |-> q.cond, parent |-> q.parent, usable |-> q.usable]
      BY <1>4 DEF RecOk
    <3>2. r = [photo |-> q.photo, kind |-> q.kind, cond |-> q.cond, parent |-> q.parent, usable |-> u]
      BY <2>2, <3>1
    <3> QED
      BY <3>2
  <2>4. RecOk(r)
    BY <1>4, <2>3 DEF RecOk
  <2>5. Saved(r)
    BY <2>1, <2>2, <2>4 DEF Saved
  <2>6. Id(r) = Id(q)
    BY <2>3 DEF Id
  <2>7. WriterTypes'
    BY <1>0, <1>1, <2>5, SavedTypes
  <2>8. LogInv'
    <3>1. r.kind \notin {"swap"}
      BY <1>3, <2>3 DEF Pw
    <3>2. Cardinality(Written(Category[r.photo], r.cond)) < (IF r.cond THEN quota.cond ELSE quota.plain)
      <4>1. r.cond \in BOOLEAN
        BY <2>4 DEF RecOk
      <4>2. CASE r.cond = TRUE
        <5>1. Cardinality(Written(Category[q.photo], TRUE)) < quota.cond
          BY <1>3, <2>3, <4>2
        <5> QED
          BY <2>3, <4>2, <5>1
      <4>3. CASE r.cond = FALSE
        <5>1. Cardinality(Written(Category[q.photo], FALSE)) < quota.plain
          BY <1>3, <2>3, <4>3
        <5> QED
          BY <2>3, <4>3, <5>1
      <4> QED
        BY <4>1, <4>2, <4>3
    <3>3. r.kind = "pw_plain" => ForcedInVain(r.photo)
      BY <1>3, <2>3
    <3>4. \A i \in DOMAIN log : Id(log[i]) # Id(r)
      BY <1>3, <2>6
    <3> QED
      BY <1>0, <1>1, <2>5, <3>1, <3>2, <3>3, <3>4, SavedKeeps DEF WriterInv
  <2>9. TriedInv'
    <3>1. /\ \A i \in DOMAIN log : log'[i] = log[i]
          /\ log'[Len(log) + 1] = r
          /\ \A i \in DOMAIN log' : i \in DOMAIN log \/ i = Len(log) + 1
      BY <1>1, <2>5, SavedFacts
    <3>2. r.kind # "gen" /\ Id(r) \in tried
      BY <1>3, <2>3, <2>6 DEF Pw
    <3> QED
      BY <1>0, <3>1, <3>2 DEF WriterInv, TriedInv, Id
  <2>10. SettledInv'
    <3>1. ASSUME cap = 0, NEW i \in DOMAIN PwRows, i < pos
          PROVE  Settled(PwRows[i].photo)'
      <4>1. PICK p : p = PwRows[i].photo
        OBVIOUS
      <4>2. Settled(p) /\ (r.kind = "pw" => r.photo # p)
        BY <1>5, <2>3, <3>1, <4>1
      <4>3. Settled(p)'
        BY <1>0, <1>1, <2>5, <4>2, SettledWritten DEF WriterInv, LogInv
      <4> QED
        BY <1>1, <4>1, <4>3 DEF Settled, pw_mode, Written, ForcedInVain, Id
    <3>2. FullOrUsedUp'
      BY <1>0 DEF FullOrUsedUp
    <3> QED
      BY <1>0, <1>1, <3>1, <3>2 DEF SettledInv
  <2> QED
    BY <1>2, <2>7, <2>8, <2>9, <2>10 DEF WriterInv
<1>8. log' = log \/ \E u \in BOOLEAN : log' = Append(log, [q EXCEPT !.usable = u])
  <2>1. PICK reply \in write_one(q) : log' = log \o reply
    BY <1>0
  <2>2. CASE reply = <<>>
    BY <1>1, <2>1, <2>2, JoinOne
  <2>3. CASE \E u \in BOOLEAN : reply = <<[q EXCEPT !.usable = u]>>
    <3>1. PICK u \in BOOLEAN : reply = <<[q EXCEPT !.usable = u]>>
      BY <2>3
    <3> QED
      BY <1>1, <2>1, <3>1, JoinOne
  <2> QED
    BY <2>1, <2>2, <2>3 DEF write_one
<1> QED
  BY <1>6, <1>7, <1>8

\* A photo every row of which is settled stays so when no mission is written.
LEMMA UsedUpOther ==
    ASSUME WriterInv, phase \in {"swap", "gen"}, phase' = phase, cap' = cap, source' = source, tried' = tried,
           quota' = quota, log' = log \/ \E r : Saved(r) /\ r.kind \notin Pw
    PROVE  SettledInv'
<1>1. PwRows' = PwRows
  BY PwRowsSame
<1>2. ASSUME NEW p, Settled(p)
      PROVE  Settled(p)'
  <2>1. CASE log' = log
    BY <1>2, <2>1, SettledSame
  <2>2. CASE \E r : Saved(r) /\ r.kind \notin Pw
    <3>1. PICK r : Saved(r) /\ r.kind \notin Pw
      BY <2>2
    <3> QED
      BY <1>2, <3>1, SettledOther DEF WriterInv, WriterTypes
  <2> QED
    BY <2>1, <2>2
<1>3. ASSUME cap = 0, NEW i \in DOMAIN PwRows
      PROVE  Settled(PwRows[i].photo)'
  <2>1. PICK p : p = PwRows[i].photo
    OBVIOUS
  <2>2. Settled(p)
    BY <1>3, <2>1 DEF WriterInv, SettledInv, FullOrUsedUp, Settled
  <2>3. Settled(p)'
    BY <1>2, <2>2
  <2> QED
    BY <1>1, <2>1, <2>3 DEF Settled, pw_mode, Written, ForcedInVain, Id
<1>4. FullOrUsedUp'
  BY <1>1, <1>3 DEF FullOrUsedUp, Settled
<1> QED
  BY <1>4 DEF SettledInv

\* A swap is asked for of the next mission listed.
LEMMA AskSwapKeeps ==
    ASSUME WriterInv, AskSwap
    PROVE  WriterInv'
<1> DEFINE t == targets[pos]
<1>0. /\ phase = "swap" /\ ~Asking /\ pos <= Len(targets) /\ pos \in Nat \ {0} /\ phase' = "swap"
      /\ asked' = <<Record(t.photo, "swap", TRUE, Id(t))>>
      /\ UNCHANGED <<photoVars, label, log, phase, source, swapping, tried, pos, targets, genLeft, calls, cap, quota, starts>>
  BY DEF AskSwap, WriterInv, WriterTypes
<1>1. FilePhotos' = FilePhotos
  BY <1>0, FilePhotosSame
<1>2. pos \in DOMAIN targets
  BY <1>0, SeqFacts DEF WriterInv, TargetInv
<1>3. PICK r : r = Record(t.photo, "swap", TRUE, Id(t))
  OBVIOUS
<1>4. RecOk(r)
  <2>1. PICK i \in DOMAIN log : log[i] = t
    BY <1>0, <1>2 DEF WriterInv, TargetInv
  <2>2. t.photo \in FilePhotos
    BY <2>1 DEF WriterInv, WriterTypes, RecOk
  <2>3. /\ r.photo = t.photo /\ r.kind = "swap" /\ r.cond = TRUE /\ r.parent = Id(t) /\ r.usable = TRUE
        /\ r = [photo |-> r.photo, kind |-> r.kind, cond |-> r.cond, parent |-> r.parent, usable |-> r.usable]
    BY <1>3 DEF Record
  <2> QED
    BY <2>2, <2>3 DEF RecOk
<1>5. IsSeq(asked') /\ DOMAIN asked' = {1} /\ asked'[1] = r
  <2>1. <<r>> \in Seq({r}) /\ <<r>>[1] = r /\ DOMAIN <<r>> = {1}
    OBVIOUS
  <2>2. IsSeq(<<r>>)
    BY <2>1, SeqOfAny
  <2> QED
    BY <1>0, <1>3, <2>1, <2>2
<1>6. WriterTypes'
  <2>1. RecOk(r)'
    BY <1>1, <1>4 DEF RecOk
  <2>2. \A i \in DOMAIN log : RecOk(log[i])'
    BY <1>0, <1>1 DEF WriterInv, WriterTypes, RecOk
  <2>3. \A i \in DOMAIN asked' : asked'[i] = r
    BY <1>5
  <2> QED
    BY <1>0, <1>1, <1>5, <2>1, <2>2, <2>3 DEF WriterInv, WriterTypes, RecOk
<1>7. LogInv'
  BY <1>0, LogSame, SuccessSame DEF WriterInv
<1>8. TriedInv'
  BY <1>0 DEF WriterInv, TriedInv, Id
<1>9. AskInv'
  BY <1>0, <1>2 DEF AskInv, Record, Id
<1>10. TargetInv'
  BY <1>0, SuccessSame DEF WriterInv, TargetInv, Id
<1>11. SettledInv'
  BY <1>0, UsedUpOther
<1> QED
  BY <1>6, <1>7, <1>8, <1>9, <1>10, <1>11 DEF WriterInv

\* The answer to a swap leaves the missions listed after it unswapped.
LEMMA AnswerSwapKeeps ==
    ASSUME WriterInv, AnswerSwap
    PROVE  WriterInv'
<1> DEFINE q == asked[1]
           t == targets[pos]
<1>0. /\ phase = "swap" /\ Asking /\ log' \in {log \o reply : reply \in swap_one(q)}
      /\ asked' = <<>> /\ pos' = pos + 1 /\ pos \in Nat \ {0} /\ starts # 0 /\ IsSeq(log)
      /\ UNCHANGED <<photoVars, label, phase, source, swapping, tried, targets, genLeft, cap, quota, starts>>
  BY DEF AnswerSwap, WriterInv, WriterTypes
<1>1. /\ pos' \in Nat \ {0} /\ files' = files /\ phase' = "swap" /\ IsSeq(asked') /\ DOMAIN asked' = {} /\ ~Asking'
  BY <1>0, FilePhotosSame, SeqEmpty DEF Asking
<1>2. AskInv'
  BY <1>1 DEF AskInv
<1>3. /\ IsSeq(targets) /\ pos \in DOMAIN targets /\ asked = <<Record(t.photo, "swap", TRUE, Id(t))>>
      /\ \E i \in DOMAIN log : log[i] = t
      /\ t.kind \in Pw /\ t.usable /\ (t.cond \/ Id(t) \in Success)
      /\ <<t.photo, "swap">> \notin {Id(log[i]) : i \in DOMAIN log}
      /\ \A u \in DOMAIN targets : targets[u].photo = t.photo => u = pos
  <2>1. pos \in DOMAIN targets /\ asked = <<Record(t.photo, "swap", TRUE, Id(t))>>
    BY <1>0 DEF WriterInv, AskInv
  <2>2. IsSeq(targets) /\ \A u \in DOMAIN targets : targets[u].photo = t.photo => u = pos
    BY <1>0, <2>1 DEF WriterInv, TargetInv
  <2>3. /\ \E i \in DOMAIN log : log[i] = t
        /\ t.kind \in Pw /\ t.usable /\ (t.cond \/ Id(t) \in Success)
    BY <1>0, <2>1 DEF WriterInv, TargetInv
  <2>4. <<t.photo, "swap">> \notin {Id(log[i]) : i \in DOMAIN log}
    <3>1. pos >= pos
      BY <1>0
    <3> QED
      BY <1>0, <2>1, <3>1 DEF WriterInv, TargetInv
  <2> QED
    BY <2>1, <2>2, <2>3, <2>4
<1>4. q = Record(t.photo, "swap", TRUE, Id(t)) /\ RecOk(q)
  <2>1. q = Record(t.photo, "swap", TRUE, Id(t))
    BY <1>3
  <2>2. 1 \in DOMAIN asked
    BY <1>3
  <2> QED
    BY <2>1, <2>2 DEF WriterInv, WriterTypes
<1>5. Success' = Success
  BY <1>0, SuccessSame
<1>6. ASSUME \A i \in DOMAIN log : log'[i] = log[i] /\ i \in DOMAIN log',
             \A i \in DOMAIN log' : \/ i \in DOMAIN log /\ log'[i] = log[i]
                                    \/ Id(log'[i]) = <<t.photo, "swap">>
      PROVE  TargetInv'
  <2>1. ASSUME NEW n \in DOMAIN targets
        PROVE  /\ \E i \in DOMAIN log' : log'[i] = targets[n]
               /\ targets[n].kind \in Pw /\ targets[n].usable
               /\ targets[n].cond \/ Id(targets[n]) \in Success
               /\ n >= pos + 1 => <<targets[n].photo, "swap">> \notin {Id(log'[i]) : i \in DOMAIN log'}
    <3>1. \E i \in DOMAIN log' : log'[i] = targets[n]
      BY <1>0, <1>6 DEF WriterInv, TargetInv
    <3>2. targets[n].kind \in Pw /\ targets[n].usable /\ (targets[n].cond \/ Id(targets[n]) \in Success)
      BY <1>0 DEF WriterInv, TargetInv
    <3>3. ASSUME n >= pos + 1, NEW i \in DOMAIN log', Id(log'[i]) = <<targets[n].photo, "swap">>
          PROVE  FALSE
      <4>1. n \in Nat
        BY <1>3, SeqFacts
      <4>2. n >= pos /\ n # pos
        BY <1>0, <3>3, <4>1
      <4>3. <<targets[n].photo, "swap">> \notin {Id(log[j]) : j \in DOMAIN log}
        BY <1>0, <4>2 DEF WriterInv, TargetInv
      <4>4. Id(log'[i]) = <<t.photo, "swap">>
        BY <1>6, <3>3, <4>3
      <4>5. targets[n].photo = t.photo
        BY <3>3, <4>4
      <4> QED
        BY <1>3, <4>2, <4>5
    <3> QED
      BY <3>1, <3>2, <3>3
  <2>2. \A n, m \in DOMAIN targets : targets[n].photo = targets[m].photo => n = m
    BY <1>0 DEF WriterInv, TargetInv
  <2> QED
    BY <1>0, <1>3, <1>5, <2>1, <2>2 DEF TargetInv, Id
<1>7. CASE log' = log
  <2>1. WriterTypes'
    BY <1>0, <1>1, <1>7, UnansweredTypes
  <2>2. LogInv'
    BY <1>0, <1>7, LogSame, SuccessSame DEF WriterInv
  <2>3. TriedInv'
    BY <1>0, <1>7 DEF WriterInv, TriedInv, Id
  <2>4. TargetInv'
    BY <1>7, <1>6
  <2>5. SettledInv'
    BY <1>0, <1>7, UsedUpOther
  <2> QED
    BY <1>2, <2>1, <2>2, <2>3, <2>4, <2>5 DEF WriterInv
<1>8. CASE \E u \in BOOLEAN : log' = Append(log, [q EXCEPT !.usable = u])
  <2>1. PICK u \in BOOLEAN : log' = Append(log, [q EXCEPT !.usable = u])
    BY <1>8
  <2>2. PICK r : r = [q EXCEPT !.usable = u]
    OBVIOUS
  <2>3. /\ r.photo = t.photo /\ r.kind = "swap" /\ r.cond = TRUE /\ r.parent = Id(t) /\ r.usable = u
        /\ r = [photo |-> r.photo, kind |-> r.kind, cond |-> r.cond, parent |-> r.parent, usable |-> r.usable]
    <3>1. PICK x, y, p : x = Id(t) /\ y = q /\ p = t.photo
      OBVIOUS
    <3>2. y = [photo |-> p, kind |-> "swap", cond |-> TRUE, parent |-> x, usable |-> TRUE]
      BY <1>4, <3>1 DEF Record
    <3>3. r = [y EXCEPT !.usable = u]
      BY <2>2, <3>1
    <3>4. r = [photo |-> p, kind |-> "swap", cond |-> TRUE, parent |-> x, usable |-> u]
      BY <3>2, <3>3
    <3> QED
      BY <3>1, <3>4
  <2>4. RecOk(r)
    <3>1. q.photo = t.photo
      BY <1>4 DEF Record
    <3> QED
      BY <1>4, <2>3, <3>1 DEF RecOk
  <2>5. Saved(r)
    BY <2>1, <2>2, <2>4 DEF Saved
  <2>6. WriterTypes'
    BY <1>0, <1>1, <2>5, SavedTypes
  <2>7. r.kind \notin Pw
    BY <2>3 DEF Pw
  <2>8. /\ Len(log) \in Nat /\ DOMAIN log = 1..Len(log) /\ DOMAIN log' = 1..(Len(log) + 1)
        /\ \A i \in DOMAIN log : log'[i] = log[i] /\ i \in DOMAIN log'
        /\ log'[Len(log) + 1] = r
        /\ \A i \in DOMAIN log' : i \in DOMAIN log \/ i = Len(log) + 1
    BY <1>0, <2>5, SavedFacts
  <2>9. LogInv'
    <3>1. \A i \in DOMAIN log : Id(log[i]) # Id(r)
      BY <1>3, <2>3 DEF Id
    <3>2. \E j \in DOMAIN log : /\ log[j].kind \in Pw /\ log[j].usable /\ log[j].photo = r.photo
                                /\ Id(log[j]) = r.parent
                                /\ log[j].cond \/ Id(log[j]) \in Success
      BY <1>3, <2>3
    <3>3. r.kind # "pw_plain"
      BY <2>3
    <3> QED
      BY <1>0, <2>5, <2>7, <3>1, <3>2, <3>3, SavedKeeps DEF WriterInv
  <2>10. TriedInv'
    BY <1>0, <2>3, <2>7, <2>8 DEF WriterInv, TriedInv, Id
  <2>11. TargetInv'
    <3>1. Id(r) = <<t.photo, "swap">>
      BY <2>3 DEF Id
    <3> QED
      BY <1>6, <2>8, <3>1
  <2>12. SettledInv'
    BY <1>0, <2>5, <2>7, UsedUpOther
  <2> QED
    BY <1>2, <2>6, <2>9, <2>10, <2>11, <2>12 DEF WriterInv
<1>9. log' = log \/ \E u \in BOOLEAN : log' = Append(log, [q EXCEPT !.usable = u])
  <2>1. PICK reply \in swap_one(q) : log' = log \o reply
    BY <1>0
  <2>2. CASE reply = <<>>
    BY <1>0, <2>1, <2>2, JoinOne
  <2>3. CASE reply # <<>>
    <3>1. PICK u \in BOOLEAN, conflict \in BOOLEAN : reply = <<[q EXCEPT !.usable = u /\ ~conflict]>>
      BY <2>1, <2>3 DEF swap_one
    <3>2. PICK v \in BOOLEAN : v = (u /\ ~conflict)
      OBVIOUS
    <3>3. reply = <<[q EXCEPT !.usable = v]>>
      BY <3>1, <3>2
    <3> QED
      BY <1>0, <2>1, <3>3, JoinOne
  <2> QED
    BY <2>2, <2>3
<1> QED
  BY <1>7, <1>8, <1>9

\* The missions of a batch are those of its photos, once each.
LEMMA CallGenKeeps ==
    ASSUME WriterInv, CallGen
    PROVE  WriterInv'
<1>0. /\ phase = "gen" /\ ~Asking /\ phase' = "gen" /\ starts # 0
      /\ UNCHANGED <<photoVars, label, log, phase, source, swapping, tried, pos, targets, cap, quota, starts>>
  BY DEF CallGen, WriterInv, WriterTypes
<1>1. FilePhotos' = FilePhotos
  BY <1>0, FilePhotosSame
<1>2. PICK b \in make_batches :
        /\ genLeft' = genLeft \ b
        /\ \/ \E order \in {o \in [1..Cardinality(b) -> b] : \A p \in b : \E i \in DOMAIN o : o[i] = p} :
                asked' = [i \in DOMAIN order |-> Record(order[i], "gen", FALSE, <<>>)]
           \/ asked' = <<>>
  BY DEF CallGen
<1>3. b \subseteq genLeft /\ IsFiniteSet(genLeft) /\ genLeft \subseteq FilePhotos
  BY DEF make_batches, WriterInv, WriterTypes
<1>4. IsFiniteSet(b) /\ Cardinality(b) \in Nat /\ genLeft' \subseteq FilePhotos /\ IsFiniteSet(genLeft')
  BY <1>2, <1>3, FS_Subset, FS_CardinalityType
<1>5. PICK A : A = asked'
  OBVIOUS
<1>6. /\ IsSeq(A)
      /\ \A i \in DOMAIN A : RecOk(A[i]) /\ A[i].kind = "gen" /\ A[i].photo \in b
      /\ \A i, j \in DOMAIN A : A[i].photo = A[j].photo => i = j
  <2>1. CASE A = <<>>
    BY <2>1, SeqEmpty
  <2>2. CASE A # <<>>
    <3> DEFINE n == Cardinality(b)
    <3>1. PICK o \in [1..n -> b] :
            /\ \A p \in b : \E i \in DOMAIN o : o[i] = p
            /\ A = [i \in DOMAIN o |-> Record(o[i], "gen", FALSE, <<>>)]
      BY <1>2, <1>5, <2>2
    <3>2. DOMAIN o = 1..n
      OBVIOUS
    <3>3. IsFiniteSet(1..n) /\ Cardinality(1..n) = n
      BY <1>4, FS_Interval
    <3>4. o \in Surjection(1..n, b)
      BY <3>1, <3>2 DEF Surjection
    <3> HIDE DEF n
    <3>5. Cardinality(1..n) = Cardinality(b)
      BY <3>3 DEF n
    <3>6. o \in Injection(1..n, b)
      BY <3>3, <3>4, <3>5, FS_SurjSameCardinalityImpliesInj
    <3>7. \A i, j \in 1..n : o[i] = o[j] => i = j
      BY <3>6 DEF Injection, IsInjective
    <3>8. n \in Nat
      BY <1>4 DEF n
    <3>9. A = [i \in 1..n |-> A[i]]
      BY <3>1, <3>2
    <3>10. IsSeq(A) /\ DOMAIN A = 1..n
      BY <3>8, <3>9, SeqGiven
    <3>11. ASSUME NEW i \in 1..n
           PROVE  RecOk(A[i]) /\ A[i].kind = "gen" /\ A[i].photo = o[i] /\ o[i] \in b
      <4>1. o[i] \in b /\ A[i] = Record(o[i], "gen", FALSE, <<>>)
        BY <3>1, <3>2
      <4>2. PICK r : r = A[i]
        OBVIOUS
      <4>3. /\ r.photo = o[i] /\ r.kind = "gen" /\ r.cond = FALSE /\ r.usable = TRUE
            /\ r = [photo |-> r.photo, kind |-> r.kind, cond |-> r.cond, parent |-> r.parent, usable |-> r.usable]
        BY <4>1, <4>2 DEF Record
      <4>4. RecOk(r)
        BY <1>3, <4>1, <4>3 DEF RecOk
      <4> QED
        BY <4>1, <4>2, <4>3, <4>4
    <3> QED
      BY <3>7, <3>10, <3>11
  <2> QED
    BY <2>1, <2>2
<1>7. WriterTypes'
  <2>1. \A i \in DOMAIN log : RecOk(log[i])'
    BY <1>0, <1>1 DEF WriterInv, WriterTypes, RecOk
  <2>2. IsSeq(asked') /\ \A i \in DOMAIN asked' : RecOk(asked[i])'
    BY <1>1, <1>5, <1>6 DEF RecOk
  <2> QED
    BY <1>0, <1>1, <1>4, <2>1, <2>2 DEF WriterInv, WriterTypes
<1>8. LogInv'
  BY <1>0, LogSame, SuccessSame DEF WriterInv
<1>9. TriedInv'
  BY <1>0, <1>2 DEF WriterInv, TriedInv, Id
<1>10. AskInv'
  <2>1. ASSUME NEW i \in DOMAIN A
        PROVE  /\ A[i].kind = "gen" /\ A[i].photo \notin genLeft'
               /\ \A j \in DOMAIN log : Id(log[j]) # Id(A[i])
    <3>1. A[i].kind = "gen" /\ A[i].photo \in b /\ A[i].photo \in genLeft
      BY <1>3, <1>6
    <3>2. \A j \in DOMAIN log : Id(log[j]) # Id(A[i])
      BY <1>0, <3>1 DEF WriterInv, TriedInv, Id
    <3> QED
      BY <1>2, <3>1, <3>2
  <2> QED
    BY <1>0, <1>5, <1>6, <2>1 DEF AskInv, Id
<1>11. TargetInv'
  BY <1>0 DEF TargetInv
<1>12. SettledInv'
  BY <1>0, UsedUpOther
<1> QED
  BY <1>7, <1>8, <1>9, <1>10, <1>11, <1>12 DEF WriterInv

\* The missions of a batch are saved one by one.
LEMMA SaveGenKeeps ==
    ASSUME WriterInv, SaveGen
    PROVE  WriterInv'
<1>0. /\ phase = "gen" /\ Asking /\ phase' = "gen" /\ starts # 0 /\ IsSeq(log) /\ pos \in Nat \ {0}
      /\ log' = Append(log, Head(asked)) /\ asked' = Tail(asked)
      /\ UNCHANGED <<photoVars, label, phase, source, swapping, tried, pos, targets, genLeft, calls, cap, quota, starts>>
  BY DEF SaveGen, WriterInv, WriterTypes
<1>1. PICK B : B = asked'
  OBVIOUS
<1>2. /\ 1 \in DOMAIN asked /\ Head(asked) = asked[1] /\ IsSeq(B)
      /\ \A i \in DOMAIN B : i + 1 \in DOMAIN asked /\ B[i] = asked[i + 1] /\ i + 1 # 1
  <2> DEFINE R == {asked[i] : i \in DOMAIN asked}
  <2>1. asked \in Seq(R) /\ asked # <<>>
    BY <1>0 DEF Asking, WriterInv, WriterTypes, IsSeq
  <2> HIDE DEF R
  <2>2. /\ Tail(asked) \in Seq(R) /\ Len(Tail(asked)) = Len(asked) - 1
        /\ \A i \in 1..Len(Tail(asked)) : Tail(asked)[i] = asked[i + 1]
    BY <2>1, HeadTailProperties
  <2>3. Len(asked) \in Nat \ {0} /\ DOMAIN asked = 1..Len(asked) /\ Head(asked) = asked[1]
    BY <2>1, EmptySeq
  <2>4. DOMAIN Tail(asked) = 1..Len(Tail(asked)) /\ IsSeq(Tail(asked))
    <3>1. PICK T : T = Tail(asked)
      OBVIOUS
    <3>2. T \in Seq(R)
      BY <2>2, <3>1
    <3>3. IsSeq(T)
      BY <3>2, SeqOfAny
    <3>4. DOMAIN T = 1..Len(T)
      BY <3>3, SeqFacts
    <3> QED
      BY <3>1, <3>3, <3>4
  <2> QED
    BY <1>0, <1>1, <2>2, <2>3, <2>4
<1>3. PICK r : r = asked[1]
  OBVIOUS
<1>4. RecOk(r) /\ r.kind = "gen" /\ r.photo \notin genLeft /\ (\A j \in DOMAIN log : Id(log[j]) # Id(r))
  <2>1. RecOk(asked[1])
    BY <1>2 DEF WriterInv, WriterTypes
  <2>2. asked[1].kind = "gen" /\ asked[1].photo \notin genLeft /\ (\A j \in DOMAIN log : Id(log[j]) # Id(asked[1]))
    BY <1>0, <1>2 DEF WriterInv, AskInv
  <2> QED
    BY <1>3, <2>1, <2>2
<1>5. Saved(r) /\ r.kind \notin Pw
  BY <1>0, <1>2, <1>3, <1>4 DEF Saved, Pw
<1>6. WriterTypes'
  <2>1. IsSeq(asked') /\ \A i \in DOMAIN asked' : \E j \in DOMAIN asked : asked'[i] = asked[j]
    BY <1>1, <1>2
  <2>2. files' = files
    BY <1>0, FilePhotosSame
  <2> QED
    BY <1>0, <1>5, <2>1, <2>2, SavedTypes
<1>7. LogInv'
  <2>1. r.kind # "pw_plain" /\ r.kind # "swap"
    BY <1>4
  <2> QED
    BY <1>0, <1>4, <1>5, <2>1, SavedKeeps DEF WriterInv
<1>8. /\ \A i \in DOMAIN log : log'[i] = log[i]
      /\ log'[Len(log) + 1] = r
      /\ \A i \in DOMAIN log' : i \in DOMAIN log \/ i = Len(log) + 1
  BY <1>0, <1>5, SavedFacts
<1>9. TriedInv'
  BY <1>0, <1>4, <1>5, <1>8 DEF WriterInv, TriedInv, Id
<1>10. AskInv'
  <2>1. ASSUME NEW i \in DOMAIN B
        PROVE  /\ B[i].kind = "gen" /\ B[i].photo \notin genLeft
               /\ \A j \in DOMAIN log' : Id(log'[j]) # Id(B[i])
    <3>1. i + 1 \in DOMAIN asked /\ B[i] = asked[i + 1] /\ i + 1 # 1
      BY <1>2
    <3>2. /\ B[i].kind = "gen" /\ B[i].photo \notin genLeft
          /\ \A j \in DOMAIN log : Id(log[j]) # Id(B[i])
      BY <1>0, <3>1 DEF WriterInv, AskInv
    <3>3. r.photo # B[i].photo
      BY <1>0, <1>2, <1>3, <3>1 DEF WriterInv, AskInv
    <3>4. Id(r) # Id(B[i])
      BY <3>3 DEF Id
    <3> QED
      BY <1>8, <3>2, <3>4
  <2>2. \A i, j \in DOMAIN B : B[i].photo = B[j].photo => i = j
    <3>1. ASSUME NEW i \in DOMAIN B, NEW j \in DOMAIN B, B[i].photo = B[j].photo
          PROVE  i = j
      <4>1. i + 1 = j + 1
        BY <1>0, <1>2, <3>1 DEF WriterInv, AskInv
      <4>2. i \in Nat /\ j \in Nat
        BY <1>2, SeqFacts
      <4> QED
        BY <4>1, <4>2
    <3> QED
      BY <3>1
  <2> QED
    BY <1>0, <1>1, <2>1, <2>2 DEF AskInv, Id
<1>11. TargetInv'
  BY <1>0 DEF TargetInv
<1>12. SettledInv'
  BY <1>0, <1>5, UsedUpOther
<1> QED
  BY <1>6, <1>7, <1>9, <1>10, <1>11, <1>12 DEF WriterInv

\* Every step of the writer keeps its invariant.
LEMMA WriterKept ==
    ASSUME ContentInv, WriterInv, WriterNext
    PROVE  WriterInv'
<1>1. CASE StartWriter
  BY <1>1, StartKeeps
<1>2. CASE AskPw
  BY <1>2, AskPwKeeps
<1>3. CASE NextRow
  BY <1>3, NextRowKeeps
<1>4. CASE AnswerPw
  BY <1>4, AnswerPwKeeps
<1>5. CASE BeginSwap
  BY <1>5, BeginSwapKeeps
<1>6. CASE AskSwap
  BY <1>6, AskSwapKeeps
<1>7. CASE AnswerSwap
  BY <1>7, AnswerSwapKeeps
<1>8. CASE BeginGen
  BY <1>8, BeginGenKeeps
<1>9. CASE CallGen
  BY <1>9, CallGenKeeps
<1>10. CASE SaveGen
  BY <1>10, SaveGenKeeps
<1>11. CASE EndWriter
  BY <1>11, ForgetKeeps DEF EndWriter
<1>12. CASE CrashWriter
  BY <1>12, ForgetKeeps DEF CrashWriter
<1> QED
  BY <1>1, <1>2, <1>3, <1>4, <1>5, <1>6, <1>7, <1>8, <1>9, <1>10, <1>11, <1>12 DEF WriterNext
-----------------------------------------------------------------------------
(***************************************************************************)
(* The training set as a whole.                                            *)
(***************************************************************************)
\* Nothing is on file yet while photos are chosen.
LEMMA WriterIdle ==
    ASSUME WriterInv, PhotoStep
    PROVE  WriterInv'
<1>0. starts = 0 /\ UNCHANGED <<writerVars, label>>
  BY DEF PhotoStep
<1>1. /\ phase = "off" /\ log = <<>> /\ asked = <<>> /\ source = <<>> /\ genLeft = {}
      /\ UNCHANGED <<log, phase, source, swapping, tried, asked, pos, targets, genLeft, calls, cap, quota, starts>>
  BY <1>0 DEF WriterInv, WriterTypes, writerVars
<1>2. /\ IsSeq(<<>>) /\ DOMAIN <<>> = {} /\ DOMAIN log' = {} /\ DOMAIN asked' = {} /\ DOMAIN source' = {}
      /\ IsFiniteSet({})
  BY <1>1, SeqEmpty, FS_EmptySet
<1>3. WriterTypes'
  BY <1>0, <1>1, <1>2 DEF WriterInv, WriterTypes
<1>4. LogInv'
  BY <1>0, <1>1, LogSame, SuccessSame DEF WriterInv
<1>5. TriedInv' /\ AskInv' /\ TargetInv' /\ SettledInv'
  BY <1>1 DEF TriedInv, AskInv, TargetInv, SettledInv, FullOrUsedUp, Asking
<1> QED
  BY <1>3, <1>4, <1>5 DEF WriterInv

\* Labels are given between the scripts, and those given stay.
LEMMA LabelKeeps ==
    ASSUME WriterInv, Label
    PROVE  WriterInv'
<1>0. phase = "off" /\ UNCHANGED <<photoVars, writerVars, examples>>
  BY DEF Label
<1>1. UNCHANGED <<log, phase, source, swapping, tried, asked, pos, targets, genLeft, calls, cap, quota, starts>>
  BY <1>0 DEF writerVars
<1>2. ASSUME NEW m \in Success
      PROVE  m \in Success'
  <2>1. PICK said :
          label' = [i \in Readable \cup DOMAIN label |->
                      IF i \in DOMAIN label THEN label[i]
                      ELSE IF i \in DOMAIN said THEN said[i]
                      ELSE [grade |-> "success", nearDup |-> FALSE, byRule |-> TRUE]]
    BY DEF Label
  <2>2. m \in DOMAIN label /\ label[m].grade = "success"
    BY DEF Success
  <2>3. m \in DOMAIN label' /\ label'[m] = label[m]
    BY <2>1, <2>2
  <2> QED
    BY <2>2, <2>3 DEF Success
<1>3. LogInv'
  BY <1>1, <1>2, LogSame DEF WriterInv
<1>4. WriterTypes'
  BY <1>0, <1>1, FilePhotosSame DEF WriterInv, WriterTypes, RecOk
<1>5. TriedInv' /\ AskInv' /\ TargetInv' /\ SettledInv'
  BY <1>0, <1>1 DEF TriedInv, AskInv, TargetInv, SettledInv, FullOrUsedUp, Asking, WriterInv, WriterTypes
<1> QED
  BY <1>3, <1>4, <1>5 DEF WriterInv

\* A step of nobody who writes missions.
LEMMA WriterSame ==
    ASSUME WriterInv, UNCHANGED photoVars, UNCHANGED <<writerVars, label>>
    PROVE  WriterInv'
<1>1. UNCHANGED <<log, phase, source, swapping, tried, asked, pos, targets, genLeft, calls, cap, quota, starts, label>>
  BY DEF writerVars
<1>2. FilePhotos' = FilePhotos /\ PwRows' = PwRows /\ Success' = Success
  BY <1>1, FilePhotosSame, PwRowsSame, SuccessSame
<1>3. WriterTypes'
  BY <1>1, <1>2 DEF WriterInv, WriterTypes, RecOk
<1>4. LogInv'
  BY <1>1, <1>2, LogSame DEF WriterInv
<1>5. TriedInv' /\ TargetInv'
  BY <1>1, <1>2 DEF WriterInv, TriedInv, TargetInv, Id
<1>6. AskInv'
  BY <1>1 DEF WriterInv, AskInv, Asking, Written, ForcedInVain, Id
<1>7. SettledInv'
  <2>1. \A p : Settled(p) => Settled(p)'
    BY <1>1, SettledSame
  <2>2. FullOrUsedUp'
    BY <1>1, <1>2, <2>1 DEF WriterInv, SettledInv, FullOrUsedUp, Settled
  <2>3. ASSUME phase = "pw", cap = 0, NEW i \in DOMAIN PwRows, i < pos
        PROVE  Settled(PwRows[i].photo)' /\ (Asking /\ asked[1].kind = "pw" => PwRows[i].photo # asked[1].photo)
    <3>1. PICK p : p = PwRows[i].photo
      OBVIOUS
    <3>2. Settled(p) /\ (Asking /\ asked[1].kind = "pw" => p # asked[1].photo)
      BY <2>3, <3>1 DEF WriterInv, SettledInv
    <3>3. Settled(p)'
      BY <2>1, <3>2
    <3> QED
      BY <1>2, <3>1, <3>2, <3>3 DEF Settled, pw_mode, Written, ForcedInVain, Id
  <2> QED
    BY <1>1, <1>2, <2>2, <2>3 DEF SettledInv, Asking
<1> QED
  BY <1>3, <1>4, <1>5, <1>6, <1>7 DEF WriterInv

\* The merged missions are of photos on file.
LEMMA MergedOnFile ==
    ASSUME ContentInv, WriterTypes, NEW m \in merge_missions
    PROVE  m[1] \in FilePhotos
<1>1. CASE m \in WriterIds
  <2>1. PICK i \in DOMAIN log : m = Id(log[i])
    BY <1>1 DEF WriterIds
  <2>2. m[1] = log[i].photo
    BY <2>1 DEF Id
  <2> QED
    BY <2>2 DEF WriterTypes, RecOk
<1>2. CASE m \in PilotIds
  <2>1. "pilot_reuse" \in DOMAIN files
    BY <1>2 DEF PilotIds
  <2>2. PICK p \in files["pilot_reuse"].rows : m = <<p, "pw">>
    BY <1>2, <2>1 DEF PilotIds
  <2>3. p \in Photos
    BY <2>1 DEF ContentInv
  <2> QED
    BY <2>1, <2>2, <2>3 DEF FilePhotos
<1>3. CASE m \in lookalike_missions
  <2>1. PICK i \in DOMAIN RowsIn("lookalike"), kind \in {"own", "wrong"} :
          m = <<RowsIn("lookalike")[i].photo, kind>>
    BY <1>3 DEF lookalike_missions
  <2>2. "lookalike" \in Lists \cap DOMAIN files
    <3>1. CASE "lookalike" \notin DOMAIN files
      <4>1. DOMAIN RowsIn("lookalike") = {}
        BY <3>1, SeqEmpty DEF RowsIn
      <4> QED
        BY <2>1, <4>1
    <3> QED
      BY <3>1 DEF Lists
  <2>3. RowsIn("lookalike") = files["lookalike"].rows
    BY <2>2 DEF RowsIn
  <2>4. m[1] = files["lookalike"].rows[i].photo /\ i \in DOMAIN files["lookalike"].rows
    BY <2>1, <2>3
  <2>5. m[1] \in Photos
    BY <2>2, <2>4 DEF ContentInv
  <2> QED
    BY <2>2, <2>4, <2>5 DEF FilePhotos
<1> QED
  BY <1>1, <1>2, <1>3 DEF merge_missions

\* The invariant holds at first.
LEMMA TrainStarts ==
    ASSUME TrainInit
    PROVE  TrainInv
<1>1. ChoiceInv /\ FilesInv /\ ExamplesInv
  BY ChoiceStarts, FilesStart DEF TrainInit, ExamplesInv
<1>2. /\ log = <<>> /\ phase = "off" /\ source = <<>> /\ asked = <<>> /\ genLeft = {} /\ starts = 0 /\ pos = 1
      /\ quota = [cond |-> 0, plain |-> 0, mostCond |-> 0, mostPlain |-> 0]
  BY DEF TrainInit, MissionInit
<1>3. /\ IsSeq(<<>>) /\ DOMAIN <<>> = {} /\ DOMAIN log = {} /\ DOMAIN asked = {} /\ DOMAIN source = {}
      /\ IsSeq(log) /\ IsSeq(asked) /\ IsSeq(source) /\ IsFiniteSet({}) /\ Cardinality({}) = 0
  BY <1>2, SeqEmpty, FS_EmptySet
<1>4. WriterTypes
  BY <1>2, <1>3 DEF WriterTypes
<1>5. LogInv
  <2>1. ASSUME NEW c
        PROVE  Written(c, TRUE) = {} /\ Written(c, FALSE) = {}
    BY <1>3 DEF Written
  <2>2. QuotaTypes /\ quota.mostCond = 0 /\ quota.mostPlain = 0
    BY <1>2 DEF QuotaTypes
  <2>3. ASSUME NEW c
        PROVE  ForcedOf(c) <= quota.mostCond /\ PlainOf(c) <= quota.mostPlain
    <3>1. ForcedOf(c) = 0
      BY <1>3, <2>1 DEF ForcedOf
    <3>2. PlainOf(c) = 0
      BY <1>3, <2>1 DEF PlainOf
    <3> QED
      BY <2>2, <3>1, <3>2
  <2>4. QuotaKept
    BY <1>3, <2>3 DEF QuotaKept, ForcedOf, PlainOf
  <2> QED
    BY <1>3, <2>2, <2>4 DEF LogInv, OneRecordPerMission, SwapInv
<1>6. TriedInv /\ AskInv /\ TargetInv /\ SettledInv
  BY <1>2 DEF TriedInv, AskInv, TargetInv, SettledInv, FullOrUsedUp, Asking
<1> QED
  BY <1>1, <1>4, <1>5, <1>6 DEF TrainInv, WriterInv

\* Every step of every script keeps the invariant.
LEMMA TrainKept ==
    ASSUME TrainInv, [TrainNext]_trainVars
    PROVE  TrainInv'
<1> USE DEF TrainInv
<1>1. CASE PhotoStep
  <2>1. PhotoNext /\ examples' = examples
    BY <1>1 DEF PhotoStep
  <2>2. ChoiceInv' /\ FilesInv'
    BY <2>1, ChoiceKept, FilesKept
  <2>3. WriterInv'
    BY <1>1, WriterIdle
  <2>4. CASE examples = {}
    BY <2>1, <2>2, <2>3, <2>4 DEF ExamplesInv
  <2>5. CASE examples # {}
    <3>1. UNCHANGED trainVars
      BY <2>5 DEF TrainNext
    <3>2. UNCHANGED photoVars
      BY <3>1 DEF trainVars, missionVars
    <3> QED
      BY <2>1, <2>2, <2>3, <3>2, FilePhotosSame DEF ExamplesInv
  <2> QED
    BY <2>4, <2>5
<1>2. CASE UNCHANGED photoVars /\ ~PhotoStep
  <2>1. ChoiceInv' /\ FilePhotos' = FilePhotos /\ files' = files /\ KeptTravels' = KeptTravels
    BY <1>2, ChoiceSame, FilePhotosSame DEF KeptTravels
  <2>2. FilesInv'
    BY <1>2, <2>1 DEF FilesInv, OrderInv, ContentInv, OneRunPerFolder, photoVars, selVars, Clean, InTravel, Excluded
  <2>3. WriterInv' /\ ExamplesInv'
    <3>1. CASE WriterStep
      BY <2>1, <3>1, WriterKept DEF WriterStep, FilesInv, ExamplesInv
    <3>2. CASE Label
      BY <2>1, <3>2, LabelKeeps DEF Label, ExamplesInv
    <3>3. CASE BuildDataset
      <4>1. UNCHANGED <<writerVars, label>>
        BY <3>3 DEF BuildDataset, missionVars
      <4>2. WriterInv'
        BY <1>2, <4>1, WriterSame
      <4>3. ExamplesInv'
        <5>1. \A e \in examples' : \E m \in merge_missions : e.photo = m[1]
          BY <3>3 DEF BuildDataset, select
        <5> QED
          BY <2>1, <5>1, MergedOnFile DEF ExamplesInv, FilesInv, WriterInv
      <4> QED
        BY <4>2, <4>3
    <3>4. CASE UNCHANGED trainVars
      <4>1. UNCHANGED <<writerVars, label, examples>>
        BY <3>4 DEF trainVars, missionVars
      <4> QED
        BY <1>2, <2>1, <4>1, WriterSame DEF ExamplesInv
    <3> QED
      BY <1>2, <3>1, <3>2, <3>3, <3>4 DEF TrainNext
  <2> QED
    BY <2>1, <2>2, <2>3
<1>3. PhotoStep \/ UNCHANGED photoVars
  <2>1. WriterNext => UNCHANGED photoVars
    BY DEF WriterNext, StartWriter, AskPw, NextRow, AnswerPw, BeginSwap, AskSwap, AnswerSwap,
           BeginGen, CallGen, SaveGen, EndWriter, CrashWriter
  <2> QED
    BY <2>1 DEF TrainNext, WriterStep, Label, BuildDataset, trainVars, missionVars
<1> QED
  BY <1>1, <1>2, <1>3

\* The invariant the theorems below rest on.
THEOREM TrainInvariance == TrainSpec => []TrainInv
<1>1. TrainInit => TrainInv
  BY TrainStarts
<1>2. TrainInv /\ [TrainNext]_trainVars => TrainInv'
  BY TrainKept
<1> QED
  BY <1>1, <1>2, PTL DEF TrainSpec

\* What the counts say of the photos chosen, once the pilot's are reused.
LEMMA FairChoice ==
    ASSUME ChoiceInv
    PROVE  ChoiceFair
<1>1. SpreadOverSources
  <2>1. ASSUME script = "run550", stage # "reuse"
        PROVE  /\ \A t \in {Travel[p] : p \in Chosen} : Cardinality({p \in Chosen : Travel[p] = t}) <= MaxPerTravel
               /\ \A p, q \in Chosen : p # q =>
                    /\ Hash[p] # Hash[q]
                    /\ Travel[p] = Travel[q] /\ Visit[p] = Visit[q] =>
                         \E i \in DOMAIN picked : picked[i].photo \in {p, q}
                                                /\ picked[i].group = "old" /\ picked[i].second
    <3>1. rows = Chosen /\ rows \subseteq Photos
      BY <2>1 DEF ChoiceInv, PhotoTypes
    <3>2. ASSUME NEW t \in {Travel[p] : p \in Chosen}
          PROVE  Cardinality({p \in Chosen : Travel[p] = t}) <= MaxPerTravel
      <4>1. t \in {Travel[p] : p \in Photos}
        BY <3>1
      <4>2. Cardinality({p \in rows : Travel[p] = t}) <= MaxPerTravel
        BY <2>1, <4>1 DEF ChoiceInv, SpreadInv
      <4> QED
        BY <3>1, <4>2
    <3>3. \A p, q \in rows : p # q =>
            /\ Hash[p] # Hash[q]
            /\ Travel[p] = Travel[q] /\ Visit[p] = Visit[q] =>
                 \E i \in DOMAIN picked : picked[i].photo \in {p, q}
                                        /\ picked[i].group = "old" /\ picked[i].second
      BY <2>1 DEF ChoiceInv, SpreadInv
    <3> QED
      BY <3>1, <3>2, <3>3
  <2> QED
    BY <2>1 DEF SpreadOverSources
<1>2. NothingBarred
  <2>1. ASSUME script = "run550"
        PROVE  \A p \in Chosen : /\ Travel[p] \notin Excluded \cup reserved /\ p \notin BlockedPlace
                                 /\ Hash[p] \notin EvalHashes \cup DiagHashes
    <3>1. CASE stage = "reuse"
      <4>1. picked = <<>> /\ reuse = {}
        BY <3>1 DEF ChoiceInv, PhotoTypes
      <4>2. Chosen = {}
        BY <4>1, SeqEmpty DEF Chosen
      <4> QED
        BY <4>2
    <3>2. CASE stage # "reuse"
      BY <2>1, <3>2 DEF ChoiceInv, PhotoTypes, BarredInv
    <3> QED
      BY <3>1, <3>2
  <2> QED
    BY <2>1 DEF NothingBarred, Bad, Chosen
<1> QED
  BY <1>1, <1>2 DEF ChoiceFair, ChoiceInv

\* Examples of photos that may go to training together do so.
LEMMA CleanExamples ==
    ASSUME ContentInv, ExamplesInv
    PROVE  TrainingSetClean
<1> DEFINE E == {e.photo : e \in examples}
<1>1. E \subseteq FilePhotos /\ FilePhotos \subseteq Photos
  BY DEF ExamplesInv, FilePhotos
<1> HIDE DEF E
<1>2. Clean(E, KeptTravels)
  BY <1>1, CleanPart, PhotosAssumption DEF ContentInv
<1>3. \A p \in E : Cardinality({q \in E : Travel[q] = Travel[p]}) <= MaxPerTravel
  BY <1>1, <1>2 DEF Clean, InTravel
<1>4. /\ \A p \in E : Travel[p] \notin Excluded \cup KeptTravels /\ Hash[p] \notin EvalHashes \cup DiagHashes
      /\ \A p, q \in E : p # q => Hash[p] # Hash[q]
  BY <1>2 DEF Clean
<1> QED
  BY <1>3, <1>4 DEF TrainingSetClean, KeptTravels, E

\* A changed condition belongs to one mission on file.
LEMMA SwapsKnown ==
    ASSUME LogInv, WriterTypes
    PROVE  SwapOfKnownMission
<1>1. ASSUME NEW i \in DOMAIN log, log[i].kind = "swap"
      PROVE  \E j \in 1..(i - 1) : /\ Id(log[j]) = log[i].parent /\ log[j].usable
                                   /\ log[j].cond \/ Id(log[j]) \in Success
  BY <1>1 DEF LogInv, SwapInv
<1>2. ASSUME NEW i \in DOMAIN log, NEW j \in DOMAIN log, log[i].kind = "swap", log[j].kind = "swap",
             log[i].parent = log[j].parent
      PROVE  i = j
  <2>1. \E a \in 1..(i - 1) : log[a].photo = log[i].photo /\ Id(log[a]) = log[i].parent
    BY <1>2 DEF LogInv, SwapInv
  <2>2. \E b \in 1..(j - 1) : log[b].photo = log[j].photo /\ Id(log[b]) = log[j].parent
    BY <1>2 DEF LogInv, SwapInv
  <2>3. log[i].photo = log[j].photo
    BY <1>2, <2>1, <2>2 DEF Id
  <2>4. Id(log[i]) = Id(log[j])
    BY <1>2, <2>3 DEF Id
  <2> QED
    BY <2>4 DEF LogInv, OneRecordPerMission
<1> QED
  BY <1>1, <1>2 DEF SwapOfKnownMission

\* From the choice of photos to the examples, over every crash and restart:
\* no photo of an excluded or reserved travel, of a blocked place or of the
\* evaluation and diagnosis files gets in, no file comes twice, no travel gives
\* more than MAX_PER_TRAVEL photos, and fresh travels come first
\* (build_train_550.py, build_train_dataset.py).
THEOREM TrainingStaysSound == TrainSpec => []TrainingSound
<1>1. TrainInv => TrainingSound
  BY FairChoice, CleanExamples DEF TrainInv, FilesInv, TrainingSound
<1> QED
  BY <1>1, TrainInvariance, PTL

\* However often the scripts die and are started again, with whatever options:
\* the files of a folder are of one run, a mission id has one record, and a
\* changed condition belongs to a usable mission on file, one for each
\* (build_train_550.py, write_train_missions.py).
THEOREM RecordsStayFit == TrainSpec => []RecordsFit
<1>1. TrainInv => RecordsFit
  BY SwapsKnown DEF TrainInv, FilesInv, OrderInv, WriterInv, LogInv, RecordsFit
<1> QED
  BY <1>1, TrainInvariance, PTL

\* No category gets more missions than some start asked for, and a start without a call
\* limit that has written its missions leaves no photo unasked that its
\* category still needed (pw_mode and pw_next of write_train_missions.py).
THEOREM QuotasStayFilled == TrainSpec => []QuotaFilled
<1>1. TrainInv => QuotaFilled
  <2>1. TrainInv => FullOrUsedUp
    BY DEF TrainInv, WriterInv, SettledInv, FullOrUsedUp
  <2> QED
    BY <2>1 DEF TrainInv, WriterInv, LogInv, QuotaFilled
<1> QED
  BY <1>1, TrainInvariance, PTL
=============================================================================
