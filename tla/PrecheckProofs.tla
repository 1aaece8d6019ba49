--------------------------- MODULE PrecheckProofs ---------------------------
(***************************************************************************)
(* Proofs about Precheck, for any triggers, regions, forecasts, times of   *)
(* day, and however the calls of the agency end.                           *)
(***************************************************************************)
EXTENDS Precheck, FiniteSetTheorems, SequenceTheorems, WellFoundedInduction, TLAPS

TaskStates == {"none", "queued", "locking", "fetching", "done"}
Loads == [result : {"pending", "ok", "failed", "broken"}, at : Nat, base : Int]
NoAnswer == [status |-> "none", generated |-> 0, judged |-> <<>>]

TypeOK ==
    /\ now \in Nat /\ now \in Times
    /\ stage \in [Triggers -> {"new", "loading", "answered"}]
    /\ began \in [Triggers -> Nat]
    /\ task \in [Triggers -> [Keys -> TaskStates]]
    /\ got \in [Triggers -> [Keys -> Loads]]
    /\ lock \in [Keys -> Triggers \cup {NoTrigger}]
    /\ entry \in [Keys -> [until : Nat, at : Nat, base : Int]]
    /\ fetched \in [Keys -> Seq(Nat)]
    /\ answer = [t \in Triggers |-> answer[t]]

\* A trigger loads after it arrived, and is answered when all is loaded.
StageInv ==
    \A t \in Triggers :
        /\ stage[t] = "new" => \A k \in Keys : task[t][k] = "none"
        /\ stage[t] # "new" => began[t] <= now /\ began[t] \in Times
        /\ stage[t] = "answered" => \A k \in Keys : task[t][k] = "done"
        /\ \A k \in Keys : task[t][k] # "done" => got[t][k] = Pending

\* Who fetches has the lock, and nobody has replaced the expired entry.
LockInv ==
    \A t \in Triggers : \A k \in Keys :
        task[t][k] = "fetching" => lock[k] = t /\ entry[k].until <= now

\* The entry of a key is the last one fetched.
EntryInv ==
    \A k \in Keys :
        IF fetched[k] = <<>> THEN entry[k].until = 0
        ELSE LET last == fetched[k][Len(fetched[k])]
             IN  last <= now /\ entry[k].at = last /\ entry[k].until = last + Ttl

\* What a trigger got was alive when the trigger arrived.
FreshInv ==
    \A t \in Triggers : \A k \in Keys :
        got[t][k].result = "ok" => got[t][k].at > began[t] - Ttl

\* An answer is the one its loads call for.
AnswerInv ==
    \A t \in Triggers :
        answer[t] = IF stage[t] = "answered" THEN Response(t) ELSE NoAnswer

IInv == TypeOK /\ StageInv /\ LockInv /\ EntryInv /\ FetchesApart /\ FreshInv /\ AnswerInv
-----------------------------------------------------------------------------
\* Times of day are numbers,
LEMMA TimesNatural == Times \subseteq Nat
<1>1. \A a \in Starts, n \in Steps : a + n \in Nat
    BY PrecheckOK
<1>2. Starts \subseteq Nat
    BY PrecheckOK
<1>3. ASSUME NEW x \in Times PROVE x \in Nat
    <2>1. x \in Starts \/ \E a \in Starts, n \in Steps : x = a + n
        BY DEF Times
    <2> QED
        BY <1>1, <1>2, <2>1
<1> QED
    BY <1>3

\* and so are the base times that are asked for.
LEMMA AskedNumbers ==
    ASSUME NEW at \in Times, NEW k \in Keys
    PROVE  Asked[at][k] \subseteq Int
<1>1. \A day, h \in Int : day * 24 * Hour + h * Hour \in Int
    BY DEF Hour
<1>2. ASSUME NEW day \in Int, NEW hours \in SUBSET Int PROVE Issues(day, hours) \subseteq Int
    <2> SUFFICES ASSUME NEW c \in Issues(day, hours) PROVE c \in Int
        OBVIOUS
    <2>1. PICK d \in {day - 1, day}, h \in hours : c = d * 24 * Hour + h * Hour
        BY DEF Issues
    <2>2. d \in Int /\ h \in Int
        OBVIOUS
    <2> QED
        BY <1>1, <2>1, <2>2
<1>3. ASSUME NEW c \in Int, NEW hours \in SUBSET Int, NEW limit
      PROVE  recent(Issues(Date(c), hours), limit) \subseteq Int
    <2>1. Date(c) \in Int
        BY DEF Date, Hour
    <2> QED
        BY <1>2, <1>3, <2>1 DEF recent
<1>4. at \in Int /\ at - SHORT_PUBLISH_DELAY \in Int
    BY TimesNatural DEF SHORT_PUBLISH_DELAY
<1>5. SHORT_BASE_HOURS \in SUBSET Int /\ MID_ISSUE_HOURS \in SUBSET Int
    BY DEF SHORT_BASE_HOURS, MID_ISSUE_HOURS
<1>6. short_base_candidates(at) \subseteq Int /\ mid_issue_candidates(at) \subseteq Int
    BY <1>3, <1>4, <1>5 DEF short_base_candidates, mid_issue_candidates
<1> QED
    BY <1>6 DEF Asked

\* What a fetch may find is a number.
LEMMA FoundNumbers ==
    ASSUME TypeOK, StageInv, NEW t \in Triggers, NEW k \in Keys, task[t][k] = "fetching"
    PROVE  Found(t, k) \subseteq Int
<1>1. began[t] \in Times
    BY DEF TypeOK, StageInv
<1> QED
    BY <1>1, AskedNumbers DEF Found

\* The steps of a load as one: the task goes on, and either got, the lock and
\* the entry stay, or a hit, a start, a success or a failure of a fetch.
LEMMA LoadMoves ==
    ASSUME TypeOK, StageInv, NEW t \in Triggers, NEW k \in Keys, LoadStep(t, k)
    PROVE  /\ UNCHANGED <<now, stage, began, answer>>
           /\ \E state \in {"locking", "fetching", "done"} : task' = [task EXCEPT ![t][k] = state]
           /\ \E load \in Loads : got' = [got EXCEPT ![t][k] = load]
           /\ task[t][k] \in {"queued", "locking", "fetching"}
           /\ \/ /\ task[t][k] = "queued" /\ task'[t][k] = "locking" /\ UNCHANGED <<got, cache>>
              \/ /\ task[t][k] = "locking" /\ task'[t][k] = "done" /\ UNCHANGED cache
                 /\ now < entry[k].until
                 /\ got'[t][k] = Received(entry[k].at, entry[k].base)
              \/ /\ task[t][k] = "locking" /\ task'[t][k] = "fetching"
                 /\ ~(now < entry[k].until) /\ lock[k] = NoTrigger
                 /\ lock' = [lock EXCEPT ![k] = t] /\ UNCHANGED <<got, entry, fetched>>
              \/ /\ task[t][k] = "fetching" /\ task'[t][k] = "done"
                 /\ \E base \in Int :
                       /\ base \in Found(t, k) /\ \A b \in Found(t, k) : b <= base
                       /\ entry' = [entry EXCEPT ![k] = [until |-> now + Ttl, at |-> now, base |-> base]]
                       /\ got'[t][k] = Received(now, base)
                 /\ fetched' = [fetched EXCEPT ![k] = Append(@, now)]
                 /\ lock' = [lock EXCEPT ![k] = NoTrigger]
              \/ /\ task[t][k] = "fetching" /\ task'[t][k] = "done"
                 /\ got'[t][k].result \in {"failed", "broken"}
                 /\ \E how \in {"failed", "broken"} : got'[t][k] = Failed(how)
                 /\ lock' = [lock EXCEPT ![k] = NoTrigger] /\ UNCHANGED <<entry, fetched>>
<1>1. CASE TakeLoad(t, k)
    <2>1. got' = [got EXCEPT ![t][k] = got[t][k]] /\ got[t][k] \in Loads
        BY <1>1 DEF TypeOK, TakeLoad
    <2>2. task'[t][k] = "locking" /\ task' = [task EXCEPT ![t][k] = "locking"]
        BY <1>1 DEF TypeOK, TakeLoad
    <2> QED
        BY <1>1, <2>1, <2>2 DEF TakeLoad, cache
<1>2. CASE LookUp(t, k)
    <2>1. CASE now < entry[k].until
        <3>1. /\ got' = [got EXCEPT ![t][k] = Received(entry[k].at, entry[k].base)]
              /\ task' = [task EXCEPT ![t][k] = "done"]
            BY <1>2, <2>1 DEF LookUp, Loaded
        <3>2. Received(entry[k].at, entry[k].base) \in Loads
            BY DEF TypeOK, Loads, Received
        <3>3. /\ got'[t][k] = Received(entry[k].at, entry[k].base) /\ task'[t][k] = "done"
            BY <3>1 DEF TypeOK
        <3> QED
            BY <1>2, <2>1, <3>1, <3>2, <3>3 DEF LookUp, cache
    <2>2. CASE ~(now < entry[k].until)
        <3>1. got' = [got EXCEPT ![t][k] = got[t][k]] /\ got[t][k] \in Loads
            BY <1>2, <2>2 DEF TypeOK, LookUp
        <3>2. task' = [task EXCEPT ![t][k] = "fetching"] /\ task'[t][k] = "fetching"
            BY <1>2, <2>2 DEF TypeOK, LookUp
        <3> QED
            BY <1>2, <2>2, <3>1, <3>2 DEF LookUp
    <2> QED
        BY <2>1, <2>2
<1>3. CASE FetchSucceeds(t, k)
    <2>1. PICK base \in Found(t, k) :
            /\ \A b \in Found(t, k) : b <= base
            /\ entry' = [entry EXCEPT ![k] = [until |-> now + Ttl, at |-> now, base |-> base]]
            /\ Loaded(t, k, Received(now, base))
        BY <1>3 DEF FetchSucceeds
    <2>2. base \in Int
        BY <1>3, FoundNumbers DEF FetchSucceeds
    <2>3. Received(now, base) \in Loads
        BY <2>2 DEF TypeOK, Loads, Received
    <2>4. got'[t][k] = Received(now, base) /\ task'[t][k] = "done"
        BY <2>1 DEF TypeOK, Loaded
    <2> QED
        BY <1>3, <2>1, <2>2, <2>3, <2>4 DEF FetchSucceeds, Loaded
<1>4. CASE FetchFails(t, k) \/ FetchBreaks(t, k)
    <2>1. PICK how \in {"failed", "broken"} : Loaded(t, k, Failed(how))
        BY <1>4 DEF FetchFails, FetchBreaks
    <2>2. Failed(how) \in Loads /\ Failed(how).result = how
        BY DEF Loads, Failed
    <2>3. got'[t][k] = Failed(how) /\ task'[t][k] = "done"
        BY <2>1 DEF TypeOK, Loaded
    <2> QED
        BY <1>4, <2>1, <2>2, <2>3 DEF FetchFails, FetchBreaks, Loaded
<1> QED
    BY <1>1, <1>2, <1>3, <1>4 DEF LoadStep, FetchEnds

\* The cache changes at the key of the load only.
LEMMA CacheMoves ==
    ASSUME TypeOK, StageInv, NEW t \in Triggers, NEW k \in Keys, LoadStep(t, k)
    PROVE  /\ \E owner \in Triggers \cup {NoTrigger} : lock' = [lock EXCEPT ![k] = owner]
           /\ \E line \in [until : Nat, at : Nat, base : Int] : entry' = [entry EXCEPT ![k] = line]
           /\ \E times \in Seq(Nat) : fetched' = [fetched EXCEPT ![k] = times]
<1>1. /\ lock = [lock EXCEPT ![k] = lock[k]] /\ lock[k] \in Triggers \cup {NoTrigger}
      /\ entry = [entry EXCEPT ![k] = entry[k]] /\ entry[k] \in [until : Nat, at : Nat, base : Int]
      /\ fetched = [fetched EXCEPT ![k] = fetched[k]] /\ fetched[k] \in Seq(Nat)
    BY DEF TypeOK
<1>2. now + Ttl \in Nat /\ now \in Nat
    BY PrecheckOK DEF TypeOK
<1>3. Append(fetched[k], now) \in Seq(Nat)
    BY <1>1, <1>2
<1>4. \E owner \in Triggers \cup {NoTrigger} : lock' = [lock EXCEPT ![k] = owner]
    <2>1. lock' = lock \/ lock' = [lock EXCEPT ![k] = t] \/ lock' = [lock EXCEPT ![k] = NoTrigger]
        BY LoadMoves DEF cache
    <2> QED
        BY <1>1, <2>1
<1>5. \E line \in [until : Nat, at : Nat, base : Int] : entry' = [entry EXCEPT ![k] = line]
    <2>1. \/ entry' = entry
          \/ \E base \in Int : entry' = [entry EXCEPT ![k] = [until |-> now + Ttl, at |-> now, base |-> base]]
        BY LoadMoves DEF cache
    <2>2. \A base \in Int : [until |-> now + Ttl, at |-> now, base |-> base] \in [until : Nat, at : Nat, base : Int]
        BY <1>2
    <2> QED
        BY <1>1, <2>1, <2>2
<1>6. \E times \in Seq(Nat) : fetched' = [fetched EXCEPT ![k] = times]
    <2>1. fetched' = fetched \/ fetched' = [fetched EXCEPT ![k] = Append(fetched[k], now)]
        BY LoadMoves DEF cache
    <2> QED
        BY <1>1, <1>3, <2>1
<1> QED
    BY <1>4, <1>5, <1>6

\* The variables keep their types,
LEMMA TypeKept ==
    ASSUME TypeOK, StageInv, [Next]_vars PROVE TypeOK'
<1>1. ASSUME NEW t \in Triggers, NEW k \in Keys, LoadStep(t, k) PROVE TypeOK'
    <2>1. /\ UNCHANGED <<now, stage, began, answer>>
          /\ \E state \in {"locking", "fetching", "done"} : task' = [task EXCEPT ![t][k] = state]
          /\ \E load \in Loads : got' = [got EXCEPT ![t][k] = load]
        BY <1>1, LoadMoves
    <2>2. task' \in [Triggers -> [Keys -> TaskStates]]
        BY <2>1 DEF TypeOK, TaskStates
    <2>3. got' \in [Triggers -> [Keys -> Loads]]
        BY <2>1 DEF TypeOK
    <2>4. lock' \in [Keys -> Triggers \cup {NoTrigger}]
        BY <1>1, CacheMoves DEF TypeOK
    <2>5. entry' \in [Keys -> [until : Nat, at : Nat, base : Int]]
        <3>1. PICK line \in [until : Nat, at : Nat, base : Int] : entry' = [entry EXCEPT ![k] = line]
            BY <1>1, CacheMoves
        <3> QED
            BY <3>1 DEF TypeOK
    <2>6. fetched' \in [Keys -> Seq(Nat)]
        <3>1. PICK times \in Seq(Nat) : fetched' = [fetched EXCEPT ![k] = times]
            BY <1>1, CacheMoves
        <3> QED
            BY <3>1 DEF TypeOK
    <2> QED
        BY <2>1, <2>2, <2>3, <2>4, <2>5, <2>6 DEF TypeOK
<1>2. ASSUME NEW t \in Triggers, Arrive(t) PROVE TypeOK'
    BY <1>2 DEF TypeOK, Arrive, TaskStates, cache
<1>3. ASSUME NEW t \in Triggers, Answer(t) PROVE TypeOK'
    BY <1>3 DEF TypeOK, Answer, cache
<1>4. CASE Tick
    <2>1. now' \in Times
        BY <1>4 DEF Tick, Times
    <2> QED
        BY <1>4, <2>1, TimesNatural DEF TypeOK, Tick, cache
<1>5. CASE UNCHANGED vars
    BY <1>5 DEF TypeOK, vars
<1> QED
    BY <1>1, <1>2, <1>3, <1>4, <1>5 DEF Next

\* and the stages of a trigger and of its loads go together.
LEMMA StageKept ==
    ASSUME TypeOK, StageInv, [Next]_vars PROVE StageInv'
<1>1. ASSUME NEW t \in Triggers, NEW k \in Keys, LoadStep(t, k) PROVE StageInv'
    <2>1. /\ UNCHANGED <<now, stage, began, answer>>
          /\ task[t][k] \in {"queued", "locking", "fetching"}
        BY <1>1, LoadMoves
    <2>2. PICK state \in {"locking", "fetching", "done"} : task' = [task EXCEPT ![t][k] = state]
        BY <1>1, LoadMoves
    <2>3. PICK load \in Loads : got' = [got EXCEPT ![t][k] = load]
        BY <1>1, LoadMoves
    <2>4. stage[t] = "loading"
        BY <2>1 DEF TypeOK, StageInv
    <2>5. state # "done" => got'[t][k] = Pending
        <3>1. task'[t][k] = state
            BY <2>2 DEF TypeOK
        <3>2. got[t][k] = Pending
            BY <2>1 DEF StageInv
        <3> QED
            BY <1>1, <3>1, <3>2, LoadMoves
    <2> QED
        BY <2>1, <2>2, <2>3, <2>4, <2>5 DEF TypeOK, StageInv
<1>2. ASSUME NEW t \in Triggers, Arrive(t) PROVE StageInv'
    <2>1. /\ stage' = [stage EXCEPT ![t] = "loading"]
          /\ began' = [began EXCEPT ![t] = now]
          /\ task' = [task EXCEPT ![t] = [k \in Keys |-> "queued"]]
          /\ UNCHANGED <<now, got>>
        BY <1>2 DEF Arrive
    <2>2. \A k \in Keys : task[t][k] = "none" /\ got[t][k] = Pending
        BY <1>2 DEF Arrive, StageInv
    <2>3. now <= now /\ now \in Times
        BY DEF TypeOK
    <2> QED
        BY <2>1, <2>2, <2>3 DEF TypeOK, StageInv
<1>3. ASSUME NEW t \in Triggers, Answer(t) PROVE StageInv'
    BY <1>3 DEF TypeOK, StageInv, Answer, cache
<1>4. CASE Tick
    <2>1. now \in Nat /\ now' \in Nat /\ now < now'
        BY <1>4, PrecheckOK DEF TypeOK, Tick
    <2>2. \A t \in Triggers : began[t] \in Nat
        BY DEF TypeOK
    <2>3. \A t \in Triggers : began[t] <= now => began[t] <= now'
        BY <2>1, <2>2
    <2> QED
        BY <1>4, <2>3 DEF StageInv, Tick, cache
<1>5. CASE UNCHANGED vars
    BY <1>5 DEF StageInv, vars
<1> QED
    BY <1>1, <1>2, <1>3, <1>4, <1>5 DEF Next

\* The lock keeps the others from fetching.
LEMMA LockKept ==
    ASSUME TypeOK, StageInv, LockInv, [Next]_vars PROVE LockInv'
<1>1. ASSUME NEW t \in Triggers, NEW k \in Keys, LoadStep(t, k) PROVE LockInv'
    <2> SUFFICES ASSUME NEW u \in Triggers, NEW j \in Keys, task'[u][j] = "fetching"
                 PROVE  lock'[j] = u /\ entry'[j].until <= now'
        BY DEF LockInv
    <2>1. now' = now /\ \E state \in {"locking", "fetching", "done"} : task' = [task EXCEPT ![t][k] = state]
        BY <1>1, LoadMoves
    <2>2. CASE u = t /\ j = k
        <3>1. /\ ~(now < entry[k].until) /\ lock' = [lock EXCEPT ![k] = t] /\ UNCHANGED <<got, entry, fetched>>
            BY <1>1, <2>2, LoadMoves
        <3>2. entry[k].until \in Nat /\ now \in Nat
            BY DEF TypeOK
        <3> QED
            BY <2>1, <2>2, <3>1, <3>2 DEF TypeOK
    <2>3. CASE ~(u = t /\ j = k)
        <3>1. task[u][j] = "fetching"
            BY <2>1, <2>3 DEF TypeOK
        <3>2. lock[j] = u /\ entry[j].until <= now
            BY <3>1 DEF LockInv
        <3>3. CASE j # k
            <4>1. lock'[j] = lock[j] /\ entry'[j] = entry[j]
                BY <1>1, <3>3, CacheMoves DEF TypeOK
            <4> QED
                BY <2>1, <3>2, <4>1
        <3>4. CASE j = k
            <4>1. lock[k] # NoTrigger /\ lock[k] # t
                BY <2>3, <3>2, <3>4, PrecheckOK
            <4>2. task[t][k] # "fetching"
                BY <4>1 DEF LockInv
            <4>3. lock' = lock /\ entry' = entry
                BY <1>1, <4>1, <4>2, LoadMoves DEF cache
            <4> QED
                BY <2>1, <3>2, <4>3
        <3> QED
            BY <3>3, <3>4
    <2> QED
        BY <2>2, <2>3
<1>2. ASSUME NEW t \in Triggers, Arrive(t) PROVE LockInv'
    BY <1>2 DEF TypeOK, LockInv, Arrive, cache
<1>3. ASSUME NEW t \in Triggers, Answer(t) PROVE LockInv'
    BY <1>3 DEF LockInv, Answer, cache
<1>4. CASE Tick
    <2>1. now \in Nat /\ now' \in Nat /\ now < now'
        BY <1>4, PrecheckOK DEF TypeOK, Tick
    <2>2. \A k \in Keys : entry[k].until \in Nat
        BY DEF TypeOK
    <2>3. \A k \in Keys : entry[k].until <= now => entry[k].until <= now'
        BY <2>1, <2>2
    <2> QED
        BY <1>4, <2>3 DEF LockInv, Tick, cache
<1>5. CASE UNCHANGED vars
    BY <1>5 DEF LockInv, vars
<1> QED
    BY <1>1, <1>2, <1>3, <1>4, <1>5 DEF Next

\* An entry is the last forecast that was fetched for its key, and two that
\* were fetched are a time to live apart.
LEMMA EntryKept ==
    ASSUME TypeOK, StageInv, LockInv, EntryInv, FetchesApart, [Next]_vars
    PROVE  EntryInv' /\ FetchesApart'
<1>1. ASSUME NEW t \in Triggers, NEW k \in Keys, LoadStep(t, k) PROVE EntryInv' /\ FetchesApart'
    <2>1. now' = now /\ now \in Nat /\ Ttl \in Nat
        BY <1>1, LoadMoves, PrecheckOK DEF TypeOK
    <2>2. ASSUME NEW j \in Keys, j # k PROVE fetched'[j] = fetched[j] /\ entry'[j] = entry[j]
        BY <1>1, <2>2, CacheMoves DEF TypeOK
    <2>3. CASE UNCHANGED <<entry, fetched>>
        BY <2>1, <2>3 DEF EntryInv, FetchesApart
    <2>4. CASE ~(UNCHANGED <<entry, fetched>>)
        <3> DEFINE f == fetched[k]
                   n == Len(f)
        <3>1. /\ task[t][k] = "fetching" /\ fetched'[k] = Append(f, now)
              /\ entry'[k].until = now + Ttl /\ entry'[k].at = now
            <4>1. /\ task[t][k] = "fetching" /\ fetched' = [fetched EXCEPT ![k] = Append(@, now)]
                  /\ \E base \in Int :
                       entry' = [entry EXCEPT ![k] = [until |-> now + Ttl, at |-> now, base |-> base]]
                BY <1>1, <2>4, LoadMoves DEF cache
            <4> QED
                BY <4>1 DEF TypeOK
        <3>2. f \in Seq(Nat) /\ n \in Nat
            BY DEF TypeOK
        <3>3. f # <<>> => now >= f[n] + Ttl
            <4>1. entry[k].until <= now
                BY <3>1 DEF LockInv
            <4>2. f # <<>> => entry[k].until = f[n] + Ttl
                BY DEF EntryInv
            <4>3. f # <<>> => f[n] \in Nat
                BY <3>2
            <4> QED
                BY <2>1, <4>1, <4>2, <4>3
        <3>4. /\ Len(fetched'[k]) = n + 1 /\ fetched'[k][n + 1] = now /\ fetched'[k] # <<>>
              /\ \A i \in 1..n : fetched'[k][i] = f[i]
            BY <3>1, <3>2, <2>1
        <3>5. \A i \in 1..(n - 1) : f[i + 1] >= f[i] + Ttl
            BY DEF FetchesApart
        <3> HIDE DEF f, n
        <3>6. ASSUME NEW i \in 1..(Len(fetched'[k]) - 1)
              PROVE  fetched'[k][i + 1] >= fetched'[k][i] + Ttl
            <4>1. i \in 1..n
                BY <3>2, <3>4
            <4>2. CASE i = n
                <5>1. f # <<>>
                    BY <4>1, <3>2 DEF n, f
                <5> QED
                    BY <3>3, <3>4, <4>1, <4>2, <5>1
            <4>3. CASE i # n
                <5>1. i \in 1..(n - 1) /\ i + 1 \in 1..n
                    BY <3>2, <4>1, <4>3
                <5> QED
                    BY <3>4, <3>5, <4>1, <5>1
            <4> QED
                BY <4>2, <4>3
        <3>7. EntryInv'
            <4>1. now <= now
                BY <2>1
            <4> QED
                BY <2>1, <2>2, <3>1, <3>4, <4>1 DEF EntryInv
        <3> QED
            BY <2>2, <3>6, <3>7 DEF FetchesApart
    <2> QED
        BY <2>3, <2>4
<1>2. CASE UNCHANGED <<now, entry, fetched>>
    BY <1>2 DEF EntryInv, FetchesApart
<1>3. CASE Tick
    <2>1. now \in Nat /\ now' \in Nat /\ now < now'
        BY <1>3, PrecheckOK DEF TypeOK, Tick
    <2>2. ASSUME NEW k \in Keys, fetched[k] # <<>>, fetched[k][Len(fetched[k])] <= now
          PROVE  fetched[k][Len(fetched[k])] <= now'
        <3>1. fetched[k][Len(fetched[k])] \in Nat
            BY <2>2 DEF TypeOK
        <3> QED
            BY <2>1, <2>2, <3>1
    <2>3. UNCHANGED <<entry, fetched>>
        BY <1>3 DEF Tick, cache
    <2> QED
        BY <2>2, <2>3 DEF EntryInv, FetchesApart
<1> QED
    BY <1>1, <1>2, <1>3 DEF Next, Arrive, Answer, cache, vars

\* What a trigger gets was not expired when it arrived.
LEMMA FreshKept ==
    ASSUME TypeOK, StageInv, EntryInv, FreshInv, [Next]_vars
    PROVE  FreshInv'
<1>1. ASSUME NEW t \in Triggers, NEW k \in Keys, LoadStep(t, k) PROVE FreshInv'
    <2> SUFFICES ASSUME NEW u \in Triggers, NEW j \in Keys, got'[u][j].result = "ok"
                 PROVE  got'[u][j].at > began'[u] - Ttl
        BY DEF FreshInv
    <2>1. began' = began /\ \E load \in Loads : got' = [got EXCEPT ![t][k] = load]
        BY <1>1, LoadMoves
    <2>2. CASE got'[u][j] = got[u][j]
        BY <2>1, <2>2 DEF FreshInv
    <2>3. CASE got'[u][j] # got[u][j]
        <3>1. u = t /\ j = k
            BY <2>1, <2>3 DEF TypeOK
        <3>2. began[t] <= now /\ began[t] \in Nat /\ now \in Nat /\ Ttl \in Nat \ {0}
            <4>1. stage[t] # "new"
                BY <1>1, LoadMoves DEF StageInv
            <4> QED
                BY <4>1, PrecheckOK DEF TypeOK, StageInv
        <3>3. \/ now < entry[k].until /\ got'[t][k].at = entry[k].at
              \/ got'[t][k].at = now
            <4>1. \/ now < entry[k].until /\ got'[t][k] = Received(entry[k].at, entry[k].base)
                  \/ \E base \in Int : got'[t][k] = Received(now, base)
                BY <1>1, <2>3, <3>1, LoadMoves
            <4>2. \A at, base : Received(at, base).at = at
                BY DEF Received
            <4> QED
                BY <4>1, <4>2
        <3>4. CASE now < entry[k].until /\ got'[t][k].at = entry[k].at
            <4>1. fetched[k] # <<>>
                BY <3>2, <3>4 DEF EntryInv
            <4>2. entry[k].until = entry[k].at + Ttl
                BY <4>1 DEF EntryInv
            <4>3. entry[k].at \in Nat
                BY DEF TypeOK
            <4> QED
                BY <2>1, <3>1, <3>2, <3>4, <4>2, <4>3
        <3>5. CASE got'[t][k].at = now
            BY <2>1, <3>1, <3>2, <3>5
        <3> QED
            BY <3>3, <3>4, <3>5
    <2> QED
        BY <2>2, <2>3
<1>2. ASSUME NEW t \in Triggers, Arrive(t) PROVE FreshInv'
    <2>1. \A k \in Keys : got[t][k].result # "ok"
        BY <1>2 DEF Arrive, StageInv, Pending
    <2>2. got' = got /\ began' = [began EXCEPT ![t] = now]
        BY <1>2 DEF Arrive
    <2> QED
        BY <2>1, <2>2 DEF TypeOK, FreshInv
<1>3. CASE UNCHANGED <<began, got>>
    BY <1>3 DEF FreshInv
<1> QED
    BY <1>1, <1>2, <1>3 DEF Next, Answer, Tick, cache, vars

\* A response follows from what was loaded and when the trigger arrived.
LEMMA ResponseStays ==
    ASSUME NEW t \in Triggers, got'[t] = got[t], began'[t] = began[t]
    PROVE  Response(t)' = Response(t)
<1>1. Dates(t)' = Dates(t)
    BY DEF Dates
<1>2. Judged(t)' = Judged(t)
    BY <1>1 DEF Judged
<1> QED
    BY <1>2 DEF Response

\* An answer that was given stays the one its loads call for.
LEMMA AnswerKept ==
    ASSUME TypeOK, StageInv, AnswerInv, [Next]_vars
    PROVE  AnswerInv'
<1>1. ASSUME NEW t \in Triggers, NEW k \in Keys, LoadStep(t, k) PROVE AnswerInv'
    <2>1. UNCHANGED <<stage, began, answer>> /\ \E load \in Loads : got' = [got EXCEPT ![t][k] = load]
        BY <1>1, LoadMoves
    <2>2. stage[t] # "answered"
        BY <1>1, LoadMoves DEF StageInv
    <2>3. ASSUME NEW u \in Triggers, u # t PROVE Response(u)' = Response(u)
        <3>1. got'[u] = got[u]
            BY <2>1, <2>3 DEF TypeOK
        <3> QED
            BY <2>1, <3>1, ResponseStays
    <2> QED
        BY <2>1, <2>2, <2>3 DEF AnswerInv
<1>2. ASSUME NEW t \in Triggers, Arrive(t) PROVE AnswerInv'
    <2>1. ASSUME NEW u \in Triggers, u # t PROVE Response(u)' = Response(u)
        <3>1. got'[u] = got[u] /\ began'[u] = began[u]
            BY <1>2, <2>1 DEF TypeOK, Arrive
        <3> QED
            BY <3>1, ResponseStays
    <2> QED
        BY <1>2, <2>1 DEF TypeOK, AnswerInv, Arrive
<1>3. ASSUME NEW t \in Triggers, Answer(t) PROVE AnswerInv'
    <2>1. UNCHANGED <<got, began>>
        BY <1>3 DEF Answer
    <2>2. \A u \in Triggers : Response(u)' = Response(u)
        BY <2>1, ResponseStays
    <2>3. /\ stage' = [stage EXCEPT ![t] = "answered"]
          /\ answer' = [answer EXCEPT ![t] = Response(t)]
        BY <1>3 DEF Answer
    <2> QED
        BY <2>2, <2>3 DEF TypeOK, AnswerInv
<1>4. CASE UNCHANGED <<stage, began, got, answer>>
    <2>1. \A u \in Triggers : Response(u)' = Response(u)
        BY <1>4, ResponseStays
    <2> QED
        BY <1>4, <2>1 DEF AnswerInv
<1> QED
    BY <1>1, <1>2, <1>3, <1>4 DEF Next, Tick, cache, vars
-----------------------------------------------------------------------------
\* It holds at first.
LEMMA Initial == Init => IInv
<1> SUFFICES ASSUME Init PROVE IInv
    OBVIOUS
<1>1. Pending \in Loads /\ Pending.result # "ok"
    BY DEF Pending, Loads
<1>2. TypeOK
    <2>1. now \in Nat /\ now \in Times
        BY PrecheckOK DEF Init, Times
    <2> QED
        BY <1>1, <2>1 DEF Init, TypeOK, TaskStates
<1>3. StageInv /\ LockInv /\ FreshInv
    BY <1>1 DEF Init, StageInv, LockInv, FreshInv
<1>4. EntryInv
    BY DEF Init, EntryInv
<1>5. FetchesApart
    <2>1. \A k \in Keys : 1..(Len(fetched[k]) - 1) = {}
        BY DEF Init
    <2> QED
        BY <2>1 DEF FetchesApart
<1>6. AnswerInv
    BY DEF Init, AnswerInv, NoAnswer
<1> QED
    BY <1>2, <1>3, <1>4, <1>5, <1>6 DEF IInv

\* It is inductive, and so holds in every reachable state.
LEMMA Invariance == Spec => []IInv
<1>1. IInv /\ [Next]_vars => IInv'
    BY TypeKept, StageKept, LockKept, EntryKept, FreshKept, AnswerKept DEF IInv
<1> QED
    BY <1>1, Initial, PTL DEF Spec

\* The variables keep their types: nothing is cached, returned or answered but
\* what the client of the agency gave.
THEOREM TypesHold == Spec => []TypeOK
<1>1. IInv => TypeOK
    BY DEF IInv
<1> QED
    BY <1>1, Invariance, PTL

\* However many triggers come together and whichever of their calls fail, two
\* successful fetches of a key are a time to live apart
\* (precheck_service.py:70).
THEOREM OneFetchPerTtl == Spec => []FetchesApart
<1>1. IInv => FetchesApart
    BY DEF IInv
<1> QED
    BY <1>1, Invariance, PTL
-----------------------------------------------------------------------------
\* A lock is held by a fetch, and a trigger that came has its loads.
HolderInv ==
    /\ \A k \in Keys : lock[k] # NoTrigger => task[lock[k]][k] = "fetching"
    /\ \A t \in Triggers : stage[t] # "new" => \A k \in Keys : task[t][k] # "none"

\* No step leaves a lock behind.
LEMMA HolderKept ==
    ASSUME IInv, HolderInv, [Next]_vars
    PROVE  HolderInv'
<1>1. TypeOK /\ StageInv
    BY DEF IInv
<1>2. ASSUME NEW t \in Triggers, NEW k \in Keys, LoadStep(t, k) PROVE HolderInv'
    <2>1. UNCHANGED stage /\ task[t][k] \in {"queued", "locking", "fetching"}
        BY <1>1, <1>2, LoadMoves
    <2>2. PICK state \in {"locking", "fetching", "done"} : task' = [task EXCEPT ![t][k] = state]
        BY <1>1, <1>2, LoadMoves
    <2>3. PICK owner \in Triggers \cup {NoTrigger} : lock' = [lock EXCEPT ![k] = owner]
        BY <1>1, <1>2, CacheMoves
    <2>4. /\ task'[t][k] = state /\ lock'[k] = owner
          /\ \A u \in Triggers, j \in Keys : u # t \/ j # k => task'[u][j] = task[u][j]
          /\ \A j \in Keys : j # k => lock'[j] = lock[j]
        BY <1>1, <2>2, <2>3 DEF TypeOK
    <2>5. lock'[k] # NoTrigger => task'[lock'[k]][k] = "fetching"
        <3>1. CASE lock' = lock /\ task[t][k] # "fetching"
            <4>1. lock[k] # t
                BY <1>1, <3>1, PrecheckOK DEF HolderInv, TypeOK
            <4> QED
                BY <1>1, <2>4, <3>1, <4>1 DEF HolderInv, TypeOK
        <3>2. CASE task'[t][k] = "fetching" /\ lock' = [lock EXCEPT ![k] = t]
            <4>1. lock'[k] = t
                BY <1>1, <3>2 DEF TypeOK
            <4> QED
                BY <3>2, <4>1
        <3>3. CASE lock' = [lock EXCEPT ![k] = NoTrigger]
            BY <1>1, <3>3 DEF TypeOK
        <3> QED
            BY <1>1, <1>2, <3>1, <3>2, <3>3, LoadMoves DEF cache
    <2>6. ASSUME NEW j \in Keys, j # k, lock'[j] # NoTrigger
          PROVE  task'[lock'[j]][j] = "fetching"
        <3>1. lock'[j] = lock[j] /\ lock[j] \in Triggers
            BY <1>1, <2>4, <2>6 DEF TypeOK
        <3> QED
            BY <2>4, <2>6, <3>1 DEF HolderInv
    <2>7. \A u \in Triggers : stage'[u] # "new" => \A j \in Keys : task'[u][j] # "none"
        BY <2>1, <2>4 DEF HolderInv
    <2> QED
        BY <2>5, <2>6, <2>7 DEF HolderInv
<1>3. ASSUME NEW t \in Triggers, Arrive(t) PROVE HolderInv'
    <2>1. \A k \in Keys : task[t][k] = "none"
        BY <1>1, <1>3 DEF Arrive, StageInv
    <2>2. /\ lock' = lock /\ stage' = [stage EXCEPT ![t] = "loading"]
          /\ task' = [task EXCEPT ![t] = [k \in Keys |-> "queued"]]
        BY <1>3 DEF Arrive, cache
    <2>3. \A k \in Keys : lock[k] # NoTrigger => lock[k] \in Triggers /\ lock[k] # t
        BY <1>1, <2>1 DEF HolderInv, TypeOK
    <2>4. \A u \in Triggers : u # t => task'[u] = task[u] /\ stage'[u] = stage[u]
        BY <1>1, <2>2 DEF TypeOK
    <2>5. \A k \in Keys : task'[t][k] = "queued"
        BY <1>1, <2>2 DEF TypeOK
    <2> QED
        BY <2>2, <2>3, <2>4, <2>5 DEF HolderInv
<1>4. ASSUME NEW t \in Triggers, Answer(t) PROVE HolderInv'
    <2>1. UNCHANGED <<task, lock>> /\ \A u \in Triggers : stage'[u] # "new" => stage[u] # "new"
        BY <1>1, <1>4 DEF Answer, cache, TypeOK
    <2> QED
        BY <2>1 DEF HolderInv
<1>5. CASE UNCHANGED <<task, lock, stage>>
    BY <1>5 DEF HolderInv
<1> QED
    BY <1>2, <1>3, <1>4, <1>5 DEF Next, Tick, cache, vars

\* Where locks are held by fetches, somebody can go on.
LEMMA HeldImplies == IInv /\ HolderInv => NobodyStuck
<1> SUFFICES ASSUME IInv, HolderInv, NEW t \in Triggers, stage[t] = "loading",
                    NEW k \in Keys, task[t][k] # "done"
             PROVE  \E j \in Keys : CanLoad(t, j) \/ (lock[j] # NoTrigger /\ CanLoad(lock[j], j))
    BY DEF NobodyStuck
<1>1. \A j \in Keys : task[t][j] \in {"queued", "locking", "fetching", "done"}
    <2>1. \A j \in Keys : task[t][j] \in TaskStates /\ task[t][j] # "none"
        BY DEF IInv, TypeOK, HolderInv
    <2> QED
        BY <2>1 DEF TaskStates
<1>2. CASE \E j \in Keys : task[t][j] \in {"locking", "fetching"}
    BY <1>2 DEF CanLoad, HolderInv
<1>3. CASE \A j \in Keys : task[t][j] \notin {"locking", "fetching"}
    <2>1. Cardinality({j \in Keys : task[t][j] \in {"locking", "fetching"}}) < PoolSize
        <3>1. {j \in Keys : task[t][j] \in {"locking", "fetching"}} = {}
            BY <1>3
        <3> QED
            BY <3>1, FS_EmptySet, PrecheckOK
    <2>2. CASE \E g \in Shorts : task[t][g] = "queued"
        <3>1. PICK g \in Shorts : task[t][g] = "queued"
            BY <2>2
        <3>2. g \in Keys /\ g \notin Mids
            BY PrecheckOK DEF Keys
        <3> QED
            BY <2>1, <3>1, <3>2 DEF CanLoad
    <2>3. CASE \A g \in Shorts : task[t][g] # "queued"
        BY <1>1, <1>3, <2>1, <2>3 DEF CanLoad
    <2> QED
        BY <2>2, <2>3
<1> QED
    BY <1>2, <1>3

\* A thread returns the lock of its key however its fetch ends, so that
\* triggers never wait for each other in a circle (precheck_service.py:70).
THEOREM TriggersGoOn == Spec => []NobodyStuck
<1>1. Init => HolderInv
    BY DEF Init, HolderInv
<1>2. IInv /\ HolderInv /\ [Next]_vars => HolderInv'
    BY HolderKept
<1> QED
    BY <1>1, <1>2, Invariance, HeldImplies, PTL DEF Spec
-----------------------------------------------------------------------------
\* A step of a load is one of the store, or is not seen there.
LEMMA LoadIsStores ==
    ASSUME IInv, NEW t \in Triggers, NEW k \in Keys, LoadStep(t, k)
    PROVE  Store!Load(t, k) \/ UNCHANGED <<now, entry, got>>
<1>1. TypeOK /\ StageInv
    BY DEF IInv
<1>2. UNCHANGED now /\ got[t][k].result = "pending"
    BY <1>1, LoadMoves DEF StageInv, Pending
<1>3. PICK load \in Loads : got' = [got EXCEPT ![t][k] = load]
    BY <1>1, LoadMoves
<1>4. got'[t][k] = load
    BY <1>1, <1>3 DEF TypeOK
<1>5. CASE UNCHANGED got /\ UNCHANGED entry
    BY <1>2, <1>5
<1>6. CASE /\ UNCHANGED cache /\ now < entry[k].until
           /\ got'[t][k] = Received(entry[k].at, entry[k].base)
    <2>1. Store!Use(t, k)
        BY <1>3, <1>4, <1>6 DEF cache, Received, Store!Use, Store!Good, Store!Returns
    <2> QED
        BY <1>2, <2>1 DEF Store!Load
<1>7. CASE /\ task[t][k] = "fetching"
           /\ \E base \in Int :
                 /\ entry' = [entry EXCEPT ![k] = [until |-> now + Ttl, at |-> now, base |-> base]]
                 /\ got'[t][k] = Received(now, base)
    <2>1. PICK base \in Int :
            /\ entry' = [entry EXCEPT ![k] = [until |-> now + Ttl, at |-> now, base |-> base]]
            /\ got'[t][k] = Received(now, base)
        BY <1>7
    <2>2. entry'[k] = [until |-> now + Ttl, at |-> now, base |-> base]
        BY <1>1, <2>1 DEF TypeOK
    <2>3. ~(now < entry[k].until)
        <3>1. entry[k].until <= now /\ entry[k].until \in Nat /\ now \in Nat
            BY <1>1, <1>7 DEF IInv, LockInv, TypeOK
        <3> QED
            BY <3>1
    <2>4. entry'[k] \in [until : {now + Ttl}, at : {now}, base : Int]
        BY <2>2
    <2>5. entry' = [entry EXCEPT ![k] = entry'[k]]
        <3> DEFINE new == [until |-> now + Ttl, at |-> now, base |-> base]
        <3>1. entry' = [entry EXCEPT ![k] = new] /\ entry'[k] = new
            BY <2>1, <2>2
        <3> HIDE DEF new
        <3> QED
            BY <3>1
    <2>6. entry'[k].at = now /\ entry'[k].base = base
        BY <2>2
    <2>7. load = [result |-> "ok", at |-> entry'[k].at, base |-> entry'[k].base]
        BY <1>4, <2>1, <2>6 DEF Received
    <2>8. Store!Returns(t, k, "ok", entry'[k])
        BY <1>3, <2>7 DEF Store!Returns
    <2>9. Store!Fetch(t, k)
        BY <2>3, <2>4, <2>5, <2>8 DEF Store!Fetch, Store!Good
    <2> QED
        BY <1>2, <2>9 DEF Store!Load
<1>8. CASE /\ task[t][k] = "fetching" /\ UNCHANGED entry
           /\ \E how \in {"failed", "broken"} : got'[t][k] = Failed(how)
    <2>1. PICK how \in {"failed", "broken"} : got'[t][k] = Failed(how)
        BY <1>8
    <2>2. ~(now < entry[k].until)
        <3>1. entry[k].until <= now /\ entry[k].until \in Nat /\ now \in Nat
            BY <1>1, <1>8 DEF IInv, LockInv, TypeOK
        <3> QED
            BY <3>1
    <2>3. got' = [got EXCEPT ![t][k] = [result |-> how, at |-> 0, base |-> 0]]
        BY <1>3, <1>4, <2>1 DEF Failed
    <2>4. Store!Fail(t, k)
        <3>1. Store!Returns(t, k, how, [at |-> 0, base |-> 0])
            BY <2>3 DEF Store!Returns
        <3> QED
            BY <1>8, <2>2, <3>1 DEF Store!Fail, Store!Good
    <2> QED
        BY <1>2, <2>4 DEF Store!Load
<1> QED
    BY <1>1, <1>5, <1>6, <1>7, <1>8, LoadMoves DEF cache

\* The cache is a store that answers at once, for any triggers, keys and time
\* to live and however long fetches take: what promises the docstring of
\* ForecastCache (precheck_service.py:58).
THEOREM CacheIsStore == Spec => LoadsAtomic
<1>1. Init => Store!StoreInit
    <2> SUFFICES ASSUME Init PROVE Store!StoreInit
        OBVIOUS
    <2>1. \A k \in Keys : ~(now < entry[k].until)
        <3>1. now \in Nat /\ \A k \in Keys : entry[k].until = 0
            BY PrecheckOK DEF Init
        <3> QED
            BY <3>1
    <2>2. \A c \in Triggers, k \in Keys : got[c][k].result = "pending"
        BY DEF Init, Pending
    <2> QED
        BY <2>1, <2>2 DEF Store!StoreInit, Store!Good
<1>2. IInv /\ [Next]_vars => [Store!StoreNext]_<<now, entry, got>>
    <2> SUFFICES ASSUME IInv, [Next]_vars
                 PROVE  Store!StoreNext \/ UNCHANGED <<now, entry, got>>
        OBVIOUS
    <2>1. ASSUME NEW t \in Triggers, NEW k \in Keys, LoadStep(t, k)
          PROVE  Store!StoreNext \/ UNCHANGED <<now, entry, got>>
        BY <2>1, LoadIsStores DEF Store!StoreNext
    <2>2. CASE Tick
        <3>1. now' > now
            BY <2>2, PrecheckOK DEF Tick, IInv, TypeOK
        <3> QED
            BY <2>2, <3>1 DEF Tick, cache, Store!StoreNext, Store!Pass
    <2>3. CASE UNCHANGED <<now, entry, got>>
        BY <2>3
    <2> QED
        BY <2>1, <2>2, <2>3 DEF Next, Arrive, Answer, cache, vars
<1> QED
    BY <1>1, <1>2, Invariance, PTL DEF Spec, LoadsAtomic, Store!StoreSpec
-----------------------------------------------------------------------------
\* The hours of a day are finitely many,
LEMMA DayHours == IsFiniteSet(0..23)
<1>1. 0 \in Int /\ 23 \in Int
    OBVIOUS
<1> QED
    BY <1>1, FS_Interval

\* and counted.
LEMMA HoursCounted ==
    ASSUME NEW loads, NEW g, NEW day
    PROVE  /\ HoursIn(loads, g, day) \in Nat
           /\ HoursIn(loads, g, day) > 0 => loads[g].result = "ok"
<1>1. IsFiniteSet(0..23)
    BY DayHours
<1>2. IsFiniteSet(HoursOf(loads[g].base, day))
    BY <1>1, FS_Subset DEF HoursOf
<1>3. Cardinality(HoursOf(loads[g].base, day)) \in Nat
    BY <1>2, FS_CardinalityType
<1> QED
    BY <1>3 DEF HoursIn

\* A day and region are judged exactly when a forecast covers them.
LEMMA JudgedIfCovered ==
    ASSUME NEW loads, NEW r \in Regions, NEW day
    PROVE  /\ Judgements(loads, r, day) # {} <=> ShortDays(loads, r, day) # {} \/ InMid(loads, r, day)
           /\ Judgements(loads, r, day) # {} => \E k \in Keys : loads[k].result = "ok"
<1>1. FullDays(loads, r, day) \subseteq ShortDays(loads, r, day)
    BY HoursCounted DEF FullDays, ShortDays, FullDayHours
<1>2. \A grids : Merged(grids) # {}
    BY DEF Merged
<1>3. \A g \in ShortDays(loads, r, day) : g \in Keys /\ loads[g].result = "ok"
    BY HoursCounted DEF ShortDays, Keys, Shorts
<1>4. InMid(loads, r, day) => MidKey[r] \in Keys /\ loads[MidKey[r]].result = "ok"
    BY DEF InMid, Keys, Mids
<1> QED
    BY <1>1, <1>2, <1>3, <1>4 DEF Judgements

\* A time the answer names as the oldest is one of its forecasts', and none of
\* them is older.
LEMMA OldestIsOldest ==
    ASSUME NEW times, times \subseteq Nat, times # {}
    PROVE  Oldest(times) \in times /\ \A n \in times : Oldest(times) <= n
<1>1. PICK n \in times : \A m \in times : ~(<<m, n>> \in OpToRel(<, Nat))
    BY NatLessThanWellFounded, WFMin
<1>2. \A m \in times : ~(m < n)
    BY <1>1 DEF OpToRel
<1>3. \A m \in times : n <= m
    BY <1>2
<1> QED
    BY <1>3 DEF Oldest

\* What is answered, case by case.
LEMMA AnswerCases ==
    ASSUME NEW t \in Triggers
    PROVE  \/ Response(t).status = "500" /\ Response(t).judged = <<>>
           \/ /\ Response(t).status = "503" /\ Response(t).judged = <<>>
              /\ NothingJudged(Judged(t))
           \/ /\ Response(t).status = "200" /\ Response(t).judged = Judged(t)
              /\ ~NothingJudged(Judged(t))
              /\ Response(t).generated = Oldest({got[t][k].at : k \in {j \in Keys : got[t][j].result = "ok"}})
<1>1. CASE \E k \in Keys : got[t][k].result = "broken"
    BY <1>1 DEF Response
<1>2. CASE (\A k \in Keys : got[t][k].result # "broken") /\ NothingJudged(Judged(t))
    <2>1. Response(t) = [status |-> "503", generated |-> 0, judged |-> <<>>]
        BY <1>2 DEF Response
    <2> QED
        BY <1>2, <2>1
<1>3. CASE (\A k \in Keys : got[t][k].result # "broken") /\ ~NothingJudged(Judged(t))
    <2>1. Response(t) =
            [status |-> "200", judged |-> Judged(t),
             generated |-> Oldest({got[t][k].at : k \in {j \in Keys : got[t][j].result = "ok"}})]
        BY <1>3 DEF Response
    <2> QED
        BY <1>3, <2>1
<1> QED
    BY <1>1, <1>2, <1>3

\* What is judged, as a function of days and regions.
LEMMA JudgedAs ==
    ASSUME NEW t \in Triggers
    PROVE  /\ DOMAIN Judged(t) = Dates(t) \X Regions
           /\ \A x \in Dates(t) \X Regions : Judged(t)[x] = Judgements(got[t], x[2], x[1])
BY DEF Judged

\* No answer rests on a forecast that had expired when its trigger arrived.
LEMMA FreshImplies == IInv => AnswerFresh
<1> SUFFICES ASSUME IInv, NEW t \in Triggers, answer[t].status = "200"
             PROVE  /\ answer[t].generated > began[t] - Ttl
                    /\ \A k \in Keys : got[t][k].result = "ok" => answer[t].generated <= got[t][k].at
    BY DEF AnswerFresh
<1> DEFINE times == {got[t][k].at : k \in {j \in Keys : got[t][j].result = "ok"}}
<1>1. answer[t] = Response(t)
    BY DEF IInv, AnswerInv, NoAnswer
<1>2. ~NothingJudged(Judged(t)) /\ answer[t].generated = Oldest(times)
    BY <1>1, AnswerCases
<1>3. times \subseteq Nat
    BY DEF IInv, TypeOK, Loads
<1>4. times # {}
    <2>1. PICK x \in Dates(t) \X Regions : Judgements(got[t], x[2], x[1]) # {}
        BY <1>2, JudgedAs DEF NothingJudged
    <2>2. \E k \in Keys : got[t][k].result = "ok"
        BY <2>1, JudgedIfCovered
    <2> QED
        BY <2>2
<1>5. Oldest(times) \in times /\ \A n \in times : Oldest(times) <= n
    BY <1>3, <1>4, OldestIsOldest
<1>6. \A n \in times : n > began[t] - Ttl
    BY DEF IInv, FreshInv
<1> QED
    BY <1>2, <1>5, <1>6

\* The days and regions that are judged are those a forecast covers.
LEMMA GapsImply == IInv => FailuresLeaveGaps
<1> SUFFICES ASSUME IInv, NEW t \in Triggers, stage[t] = "answered", answer[t].status # "500"
             PROVE  LET covered == {x \in Dates(t) \X Regions :
                                       ShortDays(got[t], x[2], x[1]) # {} \/ InMid(got[t], x[2], x[1])}
                        given == {x \in DOMAIN answer[t].judged : answer[t].judged[x] # {}}
                    IN  given = covered /\ (answer[t].status = "503" <=> covered = {})
    BY DEF FailuresLeaveGaps
<1> DEFINE covered == {x \in Dates(t) \X Regions :
                          ShortDays(got[t], x[2], x[1]) # {} \/ InMid(got[t], x[2], x[1])}
           given == {x \in DOMAIN answer[t].judged : answer[t].judged[x] # {}}
<1>1. answer[t] = Response(t)
    BY DEF IInv, AnswerInv
<1>2. covered = {x \in Dates(t) \X Regions : Judged(t)[x] # {}}
    <2>1. \A x \in Dates(t) \X Regions :
            Judged(t)[x] # {} <=> ShortDays(got[t], x[2], x[1]) # {} \/ InMid(got[t], x[2], x[1])
        <3> SUFFICES ASSUME NEW x \in Dates(t) \X Regions
                     PROVE  Judged(t)[x] # {} <=> ShortDays(got[t], x[2], x[1]) # {} \/ InMid(got[t], x[2], x[1])
            OBVIOUS
        <3>1. x[2] \in Regions /\ Judged(t)[x] = Judgements(got[t], x[2], x[1])
            BY JudgedAs
        <3> QED
            BY <3>1, JudgedIfCovered
    <2> QED
        BY <2>1
<1>3. CASE answer[t].status = "503" /\ answer[t].judged = <<>> /\ NothingJudged(Judged(t))
    <2>1. covered = {}
        BY <1>2, <1>3, JudgedAs DEF NothingJudged
    <2>2. given = {}
        <3>1. DOMAIN answer[t].judged = {}
            BY <1>3
        <3> QED
            BY <3>1
    <2> QED
        BY <1>3, <2>1, <2>2
<1>4. CASE answer[t].status = "200" /\ answer[t].judged = Judged(t) /\ ~NothingJudged(Judged(t))
    <2>1. given = covered
        BY <1>2, <1>4, JudgedAs
    <2>2. covered # {}
        BY <1>2, <1>4, JudgedAs DEF NothingJudged
    <2> QED
        BY <1>4, <2>1, <2>2
<1> QED
    BY <1>1, <1>3, <1>4, AnswerCases

\* Where a grid has the whole day, the grids that have it decide.
LEMMA DetailImplies == IInv => DetailedForecastWins
<1> SUFFICES ASSUME IInv, NEW t \in Triggers, NEW x \in DOMAIN answer[t].judged,
                    FullDays(got[t], x[2], x[1]) # {}, NEW reasons \in answer[t].judged[x]
             PROVE  reasons # {} <=> \E g \in FullDays(got[t], x[2], x[1]) : Warnings[g] # {}
    BY DEF DetailedForecastWins
<1>1. answer[t].judged = <<>> \/ answer[t].judged = Judged(t)
    <2>1. CASE stage[t] = "answered"
        BY <2>1, AnswerCases DEF IInv, AnswerInv
    <2>2. CASE stage[t] # "answered"
        BY <2>2 DEF IInv, AnswerInv, NoAnswer
    <2> QED
        BY <2>1, <2>2
<1>2. DOMAIN answer[t].judged # {}
    OBVIOUS
<1>3. answer[t].judged = Judged(t)
    BY <1>1, <1>2
<1>4. answer[t].judged[x] = Merged(FullDays(got[t], x[2], x[1]))
    <2>1. Judged(t)[x] = Judgements(got[t], x[2], x[1])
        BY <1>3, JudgedAs
    <2> QED
        BY <1>3, <2>1 DEF Judgements
<1>5. reasons = UNION {Warnings[g] : g \in FullDays(got[t], x[2], x[1])}
    BY <1>4 DEF Merged
<1> QED
    BY <1>5

\* No answer rests on an expired forecast or hides how old its oldest one is;
\* failures are left as gaps, successes are used; and where a grid has the
\* whole day the grids decide (precheck_service.py:127).
THEOREM AnswersTruthful == Spec => []AnswerTrue
<1>1. IInv => AnswerTrue
    BY FreshImplies, GapsImply, DetailImplies DEF AnswerTrue
<1> QED
    BY <1>1, Invariance, PTL
-----------------------------------------------------------------------------
\* A trigger that loads arrived no longer than patience ago: the calls of the
\* agency time out, and so do the waits for another trigger's call.
InTime(patience) == \A t \in Triggers : stage[t] = "loading" => now <= began[t] + patience

\* At such a time the base time was the newest of a key that some trigger
\* could have, of those it asked for when it arrived.
Newest(k, at, base, patience) ==
    \E b \in Times :
        /\ b <= at /\ at <= b + patience
        /\ base \in Asked[b][k] /\ base + Delay <= at
        /\ \A c \in Asked[b][k] : c + Delay <= at => c <= base

\* What is cached and what was loaded was the newest, and what was loaded is as
\* old as the time to live and the patience of its trigger allow.
NewestInv(patience) ==
    /\ \A k \in Keys : fetched[k] # <<>> => Newest(k, entry[k].at, entry[k].base, patience)
    /\ \A t \in Triggers : \A k \in Keys : got[t][k].result = "ok" =>
          /\ Newest(k, got[t][k].at, got[t][k].base, patience)
          /\ got[t][k].at <= began[t] + patience

\* A fetch gets the newest forecast there is.
LEMMA FetchesNewest ==
    ASSUME NEW patience \in Nat, TypeOK, StageInv, InTime(patience),
           NEW t \in Triggers, NEW k \in Keys, task[t][k] = "fetching",
           NEW base \in Found(t, k), \A b \in Found(t, k) : b <= base
    PROVE  Newest(k, now, base, patience)
<1>1. stage[t] = "loading" /\ began[t] \in Times /\ began[t] <= now
    BY DEF TypeOK, StageInv
<1>2. now <= began[t] + patience
    BY <1>1 DEF InTime
<1>3. base \in Asked[began[t]][k] /\ base + Delay <= now /\ \A c \in Asked[began[t]][k] : c + Delay <= now => c <= base
    BY DEF Found
<1> QED
    BY <1>1, <1>2, <1>3 DEF Newest

\* What is the newest stays so as long as it is not replaced.
LEMMA NewestStays ==
    ASSUME NEW k, NEW at, NEW base, NEW patience
    PROVE  Newest(k, at, base, patience)' <=> Newest(k, at, base, patience)
BY DEF Newest

\* What a load leaves in the cache and returns is the newest.
LEMMA NewestLoaded ==
    ASSUME NEW patience \in Nat, IInv, InTime(patience), NewestInv(patience),
           NEW t \in Triggers, NEW k \in Keys, LoadStep(t, k)
    PROVE  /\ fetched'[k] # <<>> => Newest(k, entry'[k].at, entry'[k].base, patience)
           /\ got'[t][k].result = "ok" =>
                 Newest(k, got'[t][k].at, got'[t][k].base, patience) /\ got'[t][k].at <= now
<1>1. TypeOK /\ StageInv /\ EntryInv
    BY DEF IInv
<1>2. fetched[k] # <<>> => Newest(k, entry[k].at, entry[k].base, patience) /\ entry[k].at <= now
    BY <1>1 DEF NewestInv, EntryInv
<1>3. CASE task[t][k] = "queued" /\ UNCHANGED <<got, cache>>
    <2>1. got[t][k].result # "ok"
        BY <1>1, <1>3 DEF StageInv, Pending
    <2> QED
        BY <1>2, <1>3, <2>1 DEF cache
<1>4. CASE /\ task[t][k] = "locking" /\ UNCHANGED cache /\ now < entry[k].until
           /\ got'[t][k] = Received(entry[k].at, entry[k].base)
    <2>1. fetched[k] # <<>>
        BY <1>1, <1>4 DEF TypeOK, EntryInv
    <2> QED
        BY <1>2, <1>4, <2>1 DEF cache, Received
<1>5. CASE task[t][k] = "locking" /\ UNCHANGED <<got, entry, fetched>>
    <2>1. got[t][k].result # "ok"
        BY <1>1, <1>5 DEF StageInv, Pending
    <2> QED
        BY <1>2, <1>5, <2>1
<1>6. CASE /\ task[t][k] = "fetching"
           /\ \E base \in Int :
                 /\ base \in Found(t, k) /\ \A b \in Found(t, k) : b <= base
                 /\ entry' = [entry EXCEPT ![k] = [until |-> now + Ttl, at |-> now, base |-> base]]
                 /\ got'[t][k] = Received(now, base)
    <2>1. PICK base \in Found(t, k) :
            /\ \A b \in Found(t, k) : b <= base
            /\ entry' = [entry EXCEPT ![k] = [until |-> now + Ttl, at |-> now, base |-> base]]
            /\ got'[t][k] = Received(now, base)
        BY <1>6
    <2>2. Newest(k, now, base, patience)
        BY <1>1, <1>6, <2>1, FetchesNewest
    <2>3. entry'[k].at = now /\ entry'[k].base = base
        BY <1>1, <2>1 DEF TypeOK
    <2>4. now <= now
        BY <1>1 DEF TypeOK
    <2> QED
        BY <2>1, <2>2, <2>3, <2>4 DEF Received
<1>7. CASE got'[t][k].result \in {"failed", "broken"} /\ UNCHANGED <<entry, fetched>>
    BY <1>2, <1>7
<1> QED
    BY <1>1, <1>3, <1>4, <1>5, <1>6, <1>7, LoadMoves

\* So all that is cached and was loaded stays the newest,
LEMMA NewestKept ==
    ASSUME NEW patience \in Nat, IInv, InTime(patience), NewestInv(patience), [Next]_vars
    PROVE  NewestInv(patience)'
<1>1. TypeOK /\ StageInv
    BY DEF IInv
<1>2. ASSUME NEW t \in Triggers, NEW k \in Keys, LoadStep(t, k) PROVE NewestInv(patience)'
    <2>1. UNCHANGED <<now, stage, began, answer>> /\ task[t][k] \in {"queued", "locking", "fetching"}
        BY <1>1, <1>2, LoadMoves
    <2>2. now <= began[t] + patience /\ now \in Nat /\ began[t] \in Nat
        BY <1>1, <2>1 DEF TypeOK, StageInv, InTime
    <2>3. PICK load \in Loads : got' = [got EXCEPT ![t][k] = load]
        BY <1>1, <1>2, LoadMoves
    <2>4. ASSUME NEW j \in Keys, j # k
          PROVE  fetched'[j] = fetched[j] /\ entry'[j] = entry[j]
        BY <1>1, <1>2, <2>4, CacheMoves DEF TypeOK
    <2>5. ASSUME NEW u \in Triggers, NEW j \in Keys, u # t \/ j # k
          PROVE  got'[u][j] = got[u][j]
        BY <1>1, <2>3, <2>5 DEF TypeOK
    <2>6. got'[t][k].at \in Nat
        BY <1>1, <2>3 DEF TypeOK, Loads
    <2>7. /\ fetched'[k] # <<>> => Newest(k, entry'[k].at, entry'[k].base, patience)
          /\ got'[t][k].result = "ok" =>
                Newest(k, got'[t][k].at, got'[t][k].base, patience) /\ got'[t][k].at <= now
        BY <1>2, NewestLoaded
    <2>8. ASSUME NEW j \in Keys, fetched'[j] # <<>>
          PROVE  Newest(j, entry'[j].at, entry'[j].base, patience)
        BY <2>4, <2>7, <2>8 DEF NewestInv
    <2>9. ASSUME NEW u \in Triggers, NEW j \in Keys, got'[u][j].result = "ok"
          PROVE  /\ Newest(j, got'[u][j].at, got'[u][j].base, patience)
                 /\ got'[u][j].at <= began'[u] + patience
        <3>1. CASE u = t /\ j = k
            BY <2>1, <2>2, <2>6, <2>7, <2>9, <3>1
        <3>2. CASE ~(u = t /\ j = k)
            BY <2>1, <2>5, <2>9, <3>2 DEF NewestInv
        <3> QED
            BY <3>1, <3>2
    <2> QED
        BY <2>8, <2>9, NewestStays DEF NewestInv
<1>3. ASSUME NEW t \in Triggers, Arrive(t) PROVE NewestInv(patience)'
    <2>1. \A k \in Keys : got[t][k].result # "ok"
        BY <1>1, <1>3 DEF Arrive, StageInv, Pending
    <2>2. UNCHANGED <<got, entry, fetched>> /\ began' = [began EXCEPT ![t] = now]
        BY <1>3 DEF Arrive, cache
    <2>3. \A u \in Triggers : u # t => began'[u] = began[u]
        BY <1>1, <2>2 DEF TypeOK
    <2> QED
        BY <2>1, <2>2, <2>3, NewestStays DEF NewestInv
<1>4. CASE UNCHANGED <<began, got, entry, fetched>>
    BY <1>4, NewestStays DEF NewestInv
<1> QED
    BY <1>2, <1>3, <1>4 DEF Next, Answer, Tick, cache, vars

\* when the triggers are in time.
LEMMA NewestAlways ==
    ASSUME NEW patience \in Nat
    PROVE  Spec /\ []InTime(patience) => []NewestInv(patience)
<1>1. Init => NewestInv(patience)
    BY DEF Init, NewestInv, Pending
<1>2. IInv /\ InTime(patience) /\ NewestInv(patience) /\ [Next]_vars => NewestInv(patience)'
    BY NewestKept
<1> QED
    BY <1>1, <1>2, Invariance, PTL DEF Spec

-----------------------------------------------------------------------------
\* The forecasts join if what is used together was asked for within less than
\* four hours: at 18 o'clock the mid-term forecast begins a day later, and the
\* short-term one reaches that day from its base time of 14 o'clock on.
InStep(patience) == Ttl + 2 * patience + SHORT_PUBLISH_DELAY <= 4 * Hour

\* The issue of an hour of a day.
Issue(d, h) == d * 24 * Hour + h * Hour

\* A time lies in the day of its date.
LEMMA DateBounds ==
    ASSUME NEW at \in Int
    PROVE  Date(at) \in Int /\ Date(at) * 1440 <= at /\ at < Date(at) * 1440 + 1440
BY DEF Date, Hour

\* The issues of two days are numbers, and finitely many.
LEMMA IssuesFinite ==
    ASSUME NEW day \in Int, NEW hours \in SUBSET (0..23)
    PROVE  IsFiniteSet(Issues(day, hours)) /\ Issues(day, hours) \subseteq Int
<1>1. Issues(day, hours) \subseteq ((day - 1) * 1440)..(day * 1440 + 1440)
    <2> SUFFICES ASSUME NEW c \in Issues(day, hours) PROVE c \in ((day - 1) * 1440)..(day * 1440 + 1440)
        OBVIOUS
    <2>1. PICK d \in {day - 1, day}, h \in hours : c = Issue(d, h)
        BY DEF Issues, Issue
    <2>2. d \in Int /\ h \in 0..23
        OBVIOUS
    <2>3. c = d * 1440 + h * 60
        BY <2>1, <2>2 DEF Issue, Hour
    <2> QED
        BY <2>2, <2>3
<1>2. (day - 1) * 1440 \in Int /\ day * 1440 + 1440 \in Int
    OBVIOUS
<1> QED
    <2>1. IsFiniteSet(((day - 1) * 1440)..(day * 1440 + 1440))
        BY <1>2, FS_Interval
    <2>2. ((day - 1) * 1440)..(day * 1440 + 1440) \subseteq Int
        OBVIOUS
    <2> QED
        BY <1>1, <2>1, <2>2, FS_Subset

\* What was published no later than an issue that is asked for, and not before
\* it, is among the issues of the same two days.
LEMMA IssueBetween ==
    ASSUME NEW limit \in Int, NEW hours \in SUBSET (0..23),
           NEW base \in Issues(Date(limit), hours),
           NEW d \in Int, NEW h \in hours, base < Issue(d, h), Issue(d, h) <= limit
    PROVE  Issue(d, h) \in Issues(Date(limit), hours)
<1> DEFINE day == Date(limit)
<1>1. day \in Int /\ day * 1440 <= limit /\ limit < day * 1440 + 1440
    BY DateBounds
<1>2. PICK e \in {day - 1, day} : \E k \in hours : base = Issue(e, k)
    BY DEF Issues, Issue
<1>3. PICK k \in hours : base = Issue(e, k)
    BY <1>2
<1>4. base = e * 1440 + k * 60 /\ Issue(d, h) = d * 1440 + h * 60
    BY <1>3 DEF Issue, Hour
<1>5. k \in 0..23 /\ h \in 0..23 /\ e \in Int
    BY <1>1
<1>6. d = day - 1 \/ d = day
    BY <1>1, <1>4, <1>5
<1> QED
    BY <1>6 DEF Issues, Issue

\* The issues after one of the two latest are at most one.
LEMMA OneAfter ==
    ASSUME NEW limit \in Int, NEW hours \in SUBSET (0..23),
           NEW base \in recent(Issues(Date(limit), hours), limit)
    PROVE  LET after == {c \in Issues(Date(limit), hours) : base < c /\ c <= limit}
           IN  /\ IsFiniteSet(after) /\ after \subseteq Int
               /\ Cardinality(after) \in Nat /\ Cardinality(after) < 2
               /\ base \in Int /\ base \in Issues(Date(limit), hours)
<1> DEFINE after == {c \in Issues(Date(limit), hours) : base < c /\ c <= limit}
<1>1. Date(limit) \in Int
    BY DateBounds
<1>2. IsFiniteSet(after) /\ after \subseteq Int
    BY <1>1, IssuesFinite, FS_Subset
<1>3. Cardinality(after) < 2 /\ base \in Issues(Date(limit), hours)
    BY DEF recent
<1>4. base \in Int
    BY <1>1, <1>3, IssuesFinite
<1> QED
    BY <1>2, <1>3, <1>4, FS_CardinalityType

\* One of the two latest issues is not before an issue that has another after it.
LEMMA NotThird ==
    ASSUME NEW limit \in Int, NEW hours \in SUBSET (0..23),
           NEW base \in recent(Issues(Date(limit), hours), limit),
           NEW d \in Int, NEW g \in hours, NEW h \in hours, g < h, Issue(d, h) <= limit
    PROVE  Issue(d, g) <= base
<1> DEFINE after == {c \in Issues(Date(limit), hours) : base < c /\ c <= limit}
<1>1. g \in 0..23 /\ h \in 0..23 /\ base \in Int /\ base \in Issues(Date(limit), hours)
    BY OneAfter
<1>2. /\ Issue(d, g) \in Int /\ Issue(d, h) \in Int /\ Issue(d, g) < Issue(d, h)
      /\ Issue(d, g) <= limit
    BY <1>1 DEF Issue, Hour
<1> SUFFICES ASSUME base < Issue(d, g) PROVE FALSE
    BY <1>1, <1>2
<1>3. {Issue(d, g), Issue(d, h)} \subseteq after
    <2>1. base < Issue(d, h)
        BY <1>1, <1>2
    <2> QED
        BY <1>1, <1>2, <2>1, IssueBetween
<1>4. Cardinality({Issue(d, g), Issue(d, h)}) = 2
    <2>1. Issue(d, h) \notin {Issue(d, g)}
        BY <1>2
    <2>2. IsFiniteSet({Issue(d, g)}) /\ Cardinality({Issue(d, g)}) = 1
        BY FS_Singleton
    <2>3. Cardinality({Issue(d, g)} \cup {Issue(d, h)}) = 1 + 1
        BY <2>1, <2>2, FS_AddElement
    <2>4. {Issue(d, g)} \cup {Issue(d, h)} = {Issue(d, g), Issue(d, h)}
        OBVIOUS
    <2> QED
        BY <2>3, <2>4
<1>5. Cardinality({Issue(d, g), Issue(d, h)}) <= Cardinality(after)
    BY <1>3, OneAfter, FS_Subset
<1>6. Cardinality(after) \in Nat /\ Cardinality(after) < 2
    BY OneAfter
<1> QED
    BY <1>4, <1>5, <1>6

\* Of the two latest issues, one that is not before any issue it could
\* have been taken for is not before any issue there is.
LEMMA NoneNewer ==
    ASSUME NEW limit \in Int, NEW hours \in SUBSET (0..23),
           NEW base \in recent(Issues(Date(limit), hours), limit),
           NEW d \in Int, NEW h \in hours, Issue(d, h) <= limit,
           Issue(d, h) \in recent(Issues(Date(limit), hours), limit) => Issue(d, h) <= base
    PROVE  Issue(d, h) <= base
<1> DEFINE cands == Issues(Date(limit), hours)
           y == Issue(d, h)
           after(c) == {e \in cands : c < e /\ e <= limit}
<1>1. base \in cands /\ base \in Int /\ h \in 0..23
    BY OneAfter
<1>2. y \in Int
    BY <1>1 DEF Issue, Hour
<1> SUFFICES ASSUME base < y PROVE FALSE
    BY <1>1, <1>2
<1>3. y \in cands
    BY <1>1, IssueBetween
<1>4. IsFiniteSet(after(base)) /\ after(base) \subseteq Int
      /\ Cardinality(after(base)) \in Nat /\ Cardinality(after(base)) < 2
    BY OneAfter
<1>5. after(y) \subseteq after(base)
    <2> SUFFICES ASSUME NEW e \in after(y) PROVE e \in after(base)
        OBVIOUS
    <2>1. e \in Int
        BY DateBounds, IssuesFinite
    <2> QED
        BY <1>1, <1>2, <2>1
<1>6. Cardinality(after(y)) < 2
    <2>1. IsFiniteSet(after(y)) /\ Cardinality(after(y)) <= Cardinality(after(base))
        BY <1>4, <1>5, FS_Subset
    <2>2. Cardinality(after(y)) \in Nat
        BY <2>1, FS_CardinalityType
    <2> QED
        BY <1>4, <2>1, <2>2
<1>7. y \in recent(cands, limit)
    BY <1>3, <1>6 DEF recent
<1> QED
    BY <1>1, <1>2, <1>7

\* Load k of t was asked for at time b and fetched at time at.
AskedAt(patience, t, k, b, at) ==
    /\ began[t] - Ttl - patience < b /\ b <= at
    /\ began[t] - Ttl < at /\ at <= began[t] + patience
    /\ got[t][k].base \in Asked[b][k] /\ got[t][k].base + Delay <= at
    /\ \A c \in Asked[b][k] : c + Delay <= at => c <= got[t][k].base

\* What was loaded, seen from the time its trigger arrived: some trigger asked
\* for it a little before or after, and got the newest that it could.
LEMMA LoadedNewest ==
    ASSUME NEW patience \in Nat, IInv, NewestInv(patience),
           NEW t \in Triggers, NEW k \in Keys, got[t][k].result = "ok"
    PROVE  \E b \in Times : \E at \in Nat : AskedAt(patience, t, k, b, at)
<1>1. PICK b \in Times :
        /\ b <= got[t][k].at /\ got[t][k].at <= b + patience
        /\ got[t][k].base \in Asked[b][k] /\ got[t][k].base + Delay <= got[t][k].at
        /\ \A c \in Asked[b][k] : c + Delay <= got[t][k].at => c <= got[t][k].base
    BY DEF NewestInv, Newest
<1>2. began[t] - Ttl < got[t][k].at /\ got[t][k].at <= began[t] + patience
    BY DEF IInv, FreshInv, NewestInv
<1>3. b \in Nat /\ began[t] \in Nat /\ got[t][k].at \in Nat /\ Ttl \in Nat /\ Delay \in Nat
    BY TimesNatural, PrecheckOK DEF IInv, TypeOK, Loads
<1> QED
    BY <1>1, <1>2, <1>3 DEF AskedAt

\* A short-term forecast is of before the trigger's time, and not of before
\* 14 o'clock if that forecast was there.
LEMMA ShortLoaded ==
    ASSUME NEW patience \in Nat, IInv, NewestInv(patience), NEW t \in Triggers,
           NEW g \in Shorts, got[t][g].result = "ok"
    PROVE  /\ got[t][g].base \in Int /\ got[t][g].base <= began[t] + patience
           /\ \A d \in Int :
                 /\ Issue(d, 14) + SHORT_PUBLISH_DELAY + patience <= began[t] - Ttl + 1
                 /\ Issue(d, 14) + Delay <= began[t] - Ttl + 1
                 => Issue(d, 14) <= got[t][g].base
<1> DEFINE base == got[t][g].base
<1>1. g \in Keys /\ g \notin Mids
    BY PrecheckOK DEF Keys
<1>2. PICK b \in Times : \E at \in Nat : AskedAt(patience, t, g, b, at)
    BY <1>1, LoadedNewest
<1>3. PICK at \in Nat : AskedAt(patience, t, g, b, at)
    BY <1>2
<1> USE DEF AskedAt
<1> DEFINE limit == b - SHORT_PUBLISH_DELAY
<1>4. Asked[b][g] = recent(Issues(Date(limit), SHORT_BASE_HOURS), limit)
    BY <1>1 DEF Asked, short_base_candidates
<1>5. /\ b \in Nat /\ began[t] \in Nat /\ Ttl \in Nat /\ Delay \in Nat
      /\ SHORT_PUBLISH_DELAY = 15 /\ limit \in Int
    BY TimesNatural, PrecheckOK DEF IInv, TypeOK, SHORT_PUBLISH_DELAY
<1>6. base \in Int /\ base <= limit
    BY <1>3, <1>1, <1>4, AskedNumbers DEF recent
<1>7. ASSUME NEW d \in Int,
             Issue(d, 14) + SHORT_PUBLISH_DELAY + patience <= began[t] - Ttl + 1,
             Issue(d, 14) + Delay <= began[t] - Ttl + 1
      PROVE  Issue(d, 14) <= base
    <2>1. 14 \in SHORT_BASE_HOURS /\ SHORT_BASE_HOURS \in SUBSET (0..23) /\ Date(limit) \in Int
        BY <1>5, DateBounds DEF SHORT_BASE_HOURS
    <2>2. Issue(d, 14) \in Int
        BY DEF Issue, Hour
    <2>3. Issue(d, 14) <= limit /\ Issue(d, 14) + Delay <= at
        BY <1>3, <1>5, <1>7, <2>2
    <2>4. Issue(d, 14) \in recent(Issues(Date(limit), SHORT_BASE_HOURS), limit) => Issue(d, 14) <= base
        BY <1>3, <1>4, <2>3
    <2> QED
        BY <1>3, <1>4, <1>5, <2>1, <2>3, <2>4, NoneNewer
<1> QED
    BY <1>3, <1>5, <1>6, <1>7

\* A mid-term forecast is an issue that was there at the trigger's time, and
\* not of before 6 o'clock if that of 18 o'clock was made, too.
LEMMA MidLoaded ==
    ASSUME NEW patience \in Nat, IInv, NewestInv(patience), NEW t \in Triggers,
           NEW k \in Mids, got[t][k].result = "ok"
    PROVE  /\ \E d \in Int : \E h \in MID_ISSUE_HOURS : got[t][k].base = Issue(d, h)
           /\ got[t][k].base <= began[t] + patience
           /\ got[t][k].base + Delay <= began[t] + patience
           /\ \A d \in Int :
                 Issue(d, 18) + patience <= began[t] - Ttl + 1 => Issue(d, 6) <= got[t][k].base
<1> DEFINE base == got[t][k].base
<1>1. k \in Keys
    BY DEF Keys
<1>2. PICK b \in Times : \E at \in Nat : AskedAt(patience, t, k, b, at)
    BY <1>1, LoadedNewest
<1>3. PICK at \in Nat : AskedAt(patience, t, k, b, at)
    BY <1>2
<1> USE DEF AskedAt
<1>4. base \in recent(Issues(Date(b), MID_ISSUE_HOURS), b)
    BY <1>1, <1>3 DEF Asked, mid_issue_candidates
<1>5. b \in Nat /\ began[t] \in Nat /\ Ttl \in Nat /\ Delay \in Nat /\ Date(b) \in Int
    BY TimesNatural, PrecheckOK, DateBounds DEF IInv, TypeOK
<1>6. /\ 6 \in MID_ISSUE_HOURS /\ 18 \in MID_ISSUE_HOURS
      /\ MID_ISSUE_HOURS \in SUBSET (0..23)
    BY DEF MID_ISSUE_HOURS
<1>7. base \in Int /\ base <= b /\ base \in Issues(Date(b), MID_ISSUE_HOURS)
    BY <1>4, <1>5, <1>6, OneAfter DEF recent
<1>8. \E d \in Int : \E h \in MID_ISSUE_HOURS : base = Issue(d, h)
    <2>1. PICK d \in {Date(b) - 1, Date(b)} : \E h \in MID_ISSUE_HOURS : base = Issue(d, h)
        BY <1>7 DEF Issues, Issue
    <2>2. d \in Int
        BY <1>5
    <2> QED
        BY <2>1, <2>2
<1>9. ASSUME NEW d \in Int, Issue(d, 18) + patience <= began[t] - Ttl + 1
      PROVE  Issue(d, 6) <= base
    <2>1. Issue(d, 18) \in Int
        BY DEF Issue, Hour
    <2>2. Issue(d, 18) <= b
        BY <1>3, <1>5, <1>9, <2>1
    <2> QED
        BY <1>4, <1>5, <1>6, <2>2, NotThird
<1> QED
    BY <1>3, <1>5, <1>7, <1>8, <1>9

\* A short-term forecast says something of the days from that of its base time
\* to the third after it, or the fourth from 12 o'clock on.
LEMMA ShortCovers ==
    ASSUME NEW loads, NEW g, NEW day \in Int, loads[g].result = "ok", loads[g].base \in Int,
           1440 * day <= loads[g].base + 84 * 60, loads[g].base < 1440 * day + 23 * 60
    PROVE  HoursIn(loads, g, day) > 0
<1> DEFINE base == loads[g].base
           first == base \div Hour + 1 - 24 * day
<1>1. first \in Int /\ first <= 23 /\ 0 <= first + 83
    BY DEF Hour
<1>2. (IF first < 0 THEN 0 ELSE first) \in HoursOf(base, day)
    BY <1>1 DEF HoursOf
<1>3. IsFiniteSet(HoursOf(base, day))
    BY DayHours, FS_Subset DEF HoursOf
<1>4. Cardinality(HoursOf(base, day)) \in Nat /\ Cardinality(HoursOf(base, day)) # 0
    BY <1>2, <1>3, FS_CardinalityType, FS_EmptySet
<1> QED
    BY <1>4 DEF HoursIn

\* The days of the mid-term forecast, from its issue on.
LEMMA MidCovers ==
    ASSUME NEW d \in Int, NEW h \in MID_ISSUE_HOURS, NEW day \in Int,
           day >= (IF h = 6 THEN d + 4 ELSE d + 5), day <= d + 10
    PROVE  day \in DatesOf(Issue(d, h))
<1>1. h \in {6, 18}
    BY DEF MID_ISSUE_HOURS
<1>2. Date(Issue(d, h)) = d /\ Issue(d, h) % 1440 = h * 60
    BY <1>1 DEF Date, Issue, Hour
<1>3. \E n \in (IF h = 6 THEN 4 ELSE 5)..10 : day = d + n
    <2>1. day - d \in (IF h = 6 THEN 4 ELSE 5)..10 /\ day = d + (day - d)
        OBVIOUS
    <2> QED
        BY <2>1
<1>4. Issue(d, h) % (24 * Hour) = 6 * Hour <=> h = 6
    BY <1>1, <1>2 DEF Hour
<1> QED
    BY <1>2, <1>3, <1>4 DEF DatesOf

\* Where the mid-term forecast has not begun the short-term one has not ended,
\* when all of them arrived.
LEMMA DaysJoin ==
    ASSUME NEW patience \in Nat, InStep(patience), FORECAST_DAYS <= 9,
           IInv, NewestInv(patience), NEW t \in Triggers,
           \A k \in Keys : got[t][k].result = "ok",
           NEW r \in Regions, NEW g \in Grids[r], NEW day \in Dates(t)
    PROVE  HoursIn(got[t], g, day) > 0 \/ InMid(got[t], r, day)
<1> DEFINE short == got[t][g].base
           mid == got[t][MidKey[r]].base
           B == began[t]
<1>1. g \in Shorts /\ g \in Keys /\ MidKey[r] \in Mids /\ MidKey[r] \in Keys
    BY DEF Shorts, Mids, Keys
<1>2. /\ short \in Int /\ short <= B + patience
      /\ \A d \in Int :
            /\ Issue(d, 14) + SHORT_PUBLISH_DELAY + patience <= B - Ttl + 1
            /\ Issue(d, 14) + Delay <= B - Ttl + 1
            => Issue(d, 14) <= short
    BY <1>1, ShortLoaded
<1>3. /\ mid <= B + patience /\ mid + Delay <= B + patience
      /\ \A d \in Int : Issue(d, 18) + patience <= B - Ttl + 1 => Issue(d, 6) <= mid
    BY <1>1, MidLoaded
<1>4. PICK d \in Int : \E hour \in MID_ISSUE_HOURS : mid = Issue(d, hour)
    BY <1>1, MidLoaded
<1>5. PICK h \in MID_ISSUE_HOURS : mid = Issue(d, h)
    BY <1>4
<1>6. h \in {6, 18} /\ mid = d * 1440 + h * 60
    BY <1>5 DEF Issue, Hour, MID_ISSUE_HOURS
<1>7. /\ B \in Nat /\ Ttl \in Nat /\ Delay \in Nat /\ SHORT_PUBLISH_DELAY = 15
      /\ Ttl + 2 * patience + 15 <= 240
    BY PrecheckOK DEF IInv, TypeOK, InStep, SHORT_PUBLISH_DELAY, Hour
<1>8. Date(B) \in Int /\ Date(B) * 1440 <= B /\ B < Date(B) * 1440 + 1440
    <2>1. B \in Int
        BY <1>7
    <2> QED
        BY <2>1 DEF Date, Hour
<1>9. day \in Int /\ Date(B) + 1 <= day /\ day <= Date(B) + 9
    <2>1. PICK n \in 1..FORECAST_DAYS : day = Date(B) + n
        BY DEF Dates
    <2>2. n \in Int /\ 1 <= n /\ n <= 9
        BY PrecheckOK
    <2> QED
        BY <1>8, <2>1, <2>2
<1>10. day <= d + 10
    <2>1. /\ Issue(Date(B) - 1, 18) = Date(B) * 1440 - 360
          /\ Issue(Date(B) - 1, 6) = Date(B) * 1440 - 1080 /\ Date(B) - 1 \in Int
        BY <1>8 DEF Issue, Hour
    <2>2. Issue(Date(B) - 1, 6) <= mid
        BY <1>3, <1>7, <1>8, <2>1
    <2> QED
        BY <1>6, <1>9, <1>8, <2>1, <2>2
<1>11. CASE day >= (IF h = 6 THEN d + 4 ELSE d + 5)
    <2>1. day \in DatesOf(mid)
        BY <1>5, <1>9, <1>10, <1>11, MidCovers
    <2> QED
        BY <1>1, <2>1 DEF InMid
<1>12. CASE ~(day >= (IF h = 6 THEN d + 4 ELSE d + 5))
    <2>1. 1440 * day <= short + 84 * 60
        <3>1. CASE h = 18
            <4>1. Issue(d, 14) = d * 1440 + 840
                BY DEF Issue, Hour
            <4>2. Issue(d, 14) <= short
                BY <1>2, <1>3, <1>6, <1>7, <3>1, <4>1
            <4> QED
                BY <1>2, <1>9, <1>12, <3>1, <4>1, <4>2
        <3>2. CASE h = 6
            <4>1. Issue(d - 1, 14) = d * 1440 - 600 /\ d - 1 \in Int
                BY DEF Issue, Hour
            <4>2. Issue(d - 1, 14) <= short
                BY <1>2, <1>3, <1>6, <1>7, <3>2, <4>1
            <4> QED
                BY <1>2, <1>9, <1>12, <3>2, <4>1, <4>2
        <3> QED
            BY <1>6, <3>1, <3>2
    <2>2. short < 1440 * day + 23 * 60
        BY <1>2, <1>7, <1>9, <1>8
    <2> QED
        BY <1>1, <1>2, <1>9, <2>1, <2>2, ShortCovers
<1> QED
    BY <1>11, <1>12

\* So no day is missed in an answer that all forecasts arrived for.
LEMMA NewestImplies ==
    ASSUME NEW patience \in Nat, InStep(patience), FORECAST_DAYS <= 9,
           \A r \in Regions : Grids[r] # {}, IInv, NewestInv(patience)
    PROVE  NoDayMissed
<1> SUFFICES ASSUME NEW t \in Triggers, stage[t] = "answered",
                    \A k \in Keys : got[t][k].result = "ok",
                    NEW x \in Dates(t) \X Regions
             PROVE  answer[t].judged[x] # {}
    BY DEF NoDayMissed
<1>1. x[1] \in Dates(t) /\ x[2] \in Regions
    OBVIOUS
<1>2. PICK g \in Grids[x[2]] : TRUE
    BY <1>1
<1>3. HoursIn(got[t], g, x[1]) > 0 \/ InMid(got[t], x[2], x[1])
    BY <1>1, DaysJoin
<1>4. Judgements(got[t], x[2], x[1]) # {}
    BY <1>1, <1>3, JudgedIfCovered DEF ShortDays
<1>5. Judged(t)[x] # {} /\ ~NothingJudged(Judged(t))
    <2>1. Judged(t)[x] = Judgements(got[t], x[2], x[1]) /\ x \in DOMAIN Judged(t)
        BY JudgedAs
    <2> QED
        BY <1>4, <2>1 DEF NothingJudged
<1>6. answer[t] = Response(t)
    BY DEF IInv, AnswerInv
<1>7. \A k \in Keys : got[t][k].result # "broken"
    OBVIOUS
<1>8. answer[t].judged = Judged(t)
    BY <1>5, <1>6, <1>7, AnswerCases DEF Response
<1> QED
    BY <1>5, <1>8

\* The clock goes on at most once and by no more than patience.
Once(patience) == \A at \in Starts, n \in Steps : at + n \notin Starts /\ n <= patience

\* Triggers are in time when the clock cannot leave them behind.
LEMMA OnceInTime ==
    ASSUME NEW patience \in Nat, Once(patience)
    PROVE  Spec => []InTime(patience)
<1> DEFINE Inv == \A t \in Triggers : stage[t] # "new" =>
                     now <= began[t] + patience /\ (now \in Starts => began[t] = now)
<1>1. Init => Inv
    BY DEF Init
<1>2. IInv /\ Inv /\ [Next]_vars => Inv'
    <2> SUFFICES ASSUME IInv, Inv, [Next]_vars PROVE Inv'
        OBVIOUS
    <2>1. TypeOK /\ StageInv
        BY DEF IInv
    <2>2. ASSUME NEW t \in Triggers, Arrive(t) PROVE Inv'
        BY <2>1, <2>2 DEF TypeOK, Arrive
    <2>3. ASSUME NEW t \in Triggers, Answer(t) PROVE Inv'
        <3>1. \A u \in Triggers : stage'[u] # "new" => stage[u] # "new"
            BY <2>1, <2>3 DEF TypeOK, Answer
        <3> QED
            BY <2>3, <3>1 DEF Answer
    <2>4. ASSUME NEW t \in Triggers, NEW k \in Keys, LoadStep(t, k) PROVE Inv'
        <3>1. UNCHANGED <<now, stage, began, answer>>
            BY <2>1, <2>4, LoadMoves
        <3> QED
            BY <3>1
    <2>5. CASE Tick
        <3>1. PICK n \in Steps : now \in Starts /\ now' = now + n /\ n <= patience
            BY <2>5 DEF Tick, Once
        <3>2. now' \notin Starts /\ now \in Nat /\ n \in Nat
            BY <2>1, <3>1, PrecheckOK DEF Once, TypeOK
        <3> QED
            BY <2>5, <3>1, <3>2 DEF Tick
    <2>6. CASE UNCHANGED vars
        BY <2>6 DEF vars
    <2> QED
        BY <2>2, <2>3, <2>4, <2>5, <2>6 DEF Next
<1>3. Inv => InTime(patience)
    BY DEF InTime
<1> QED
    BY <1>1, <1>2, <1>3, Invariance, PTL DEF Spec

\* The forecasts are asked of grids, of every region, and for up to nine days.
Asking == FORECAST_DAYS <= 9 /\ \A r \in Regions : Grids[r] # {}

\* With those, and as long as no trigger takes longer than patience, every day
\* and region is judged in an answer that all forecasts arrived for, whatever
\* the clock does and however late the agency publishes (precheck_service.py:100).
THEOREM DaysJudgedInTime ==
    ASSUME NEW patience \in Nat, InStep(patience), Asking
    PROVE  Spec /\ []InTime(patience) => []NoDayMissed
<1>1. IInv /\ NewestInv(patience) => NoDayMissed
    BY NewestImplies DEF Asking
<1> QED
    BY <1>1, Invariance, NewestAlways, PTL

\* So it is in every behaviour of a clock that cannot leave a trigger behind.
THEOREM DaysJudged ==
    ASSUME NEW patience \in Nat, InStep(patience), Asking, Once(patience)
    PROVE  Spec => []NoDayMissed
<1> QED
    BY OnceInTime, DaysJudgedInTime, PTL
=============================================================================
