------------------------------ MODULE Precheck ------------------------------
(***************************************************************************)
(* Weather precheck (src/app/trips/services/precheck_service.py,           *)
(* weather_risk.py, kma_client.py).                                        *)
(*                                                                         *)
(* Triggers that arrive together need the same forecasts of the weather    *)
(* agency (KMA): one short-term forecast per grid, one mid-term forecast   *)
(* per region.  Each trigger loads all of them with a thread pool of its   *)
(* own, through a cache that the process shares: one lock per key, entries *)
(* with a time to live, failures not stored.  It then judges every day and *)
(* region from what it got.                                                *)
(*                                                                         *)
(* Time is counted in minutes; a step between two ticks takes none.        *)
(***************************************************************************)
EXTENDS KmaClient, Sequences, Functions, Folds

CONSTANTS
    Triggers,     \* calls of POST /trips/precheck
    Regions,      \* REGIONS
    Grids,        \* Grids[r]: the short_grids of region r
    MidKey,       \* MidKey[r]: the mid_reg_id of region r
    Weather,      \* Weather[k]: what KMA says of a day in its forecasts for key k
    Delay,        \* minutes until KMA has a forecast after its base time
    Ttl,          \* precheck_cache_ttl_seconds
    FORECAST_DAYS,
    PoolSize,     \* max_workers
    MayBreak,     \* keys for which KMA's answer may raise something else than KmaError
    Starts,       \* times at which a behaviour may begin
    Steps         \* bound: time goes on once, by one of these

Mids == {MidKey[r] : r \in Regions}
Shorts == UNION {Grids[r] : r \in Regions}
Keys == Shorts \cup Mids
NoTrigger == "no trigger"

ASSUME PrecheckOK ==
    /\ IsFiniteSet(Keys)
    /\ Shorts \cap Mids = {}
    /\ Ttl \in Nat \ {0}
    /\ FORECAST_DAYS \in Nat \ {0}
    /\ Delay \in Nat
    /\ PoolSize \in Nat \ {0}
    /\ MayBreak \subseteq Keys
    /\ Starts \subseteq Nat /\ Steps \subseteq Nat \ {0}
    /\ NoTrigger \notin Triggers

VARIABLES
    now,       \* the clock
    stage,     \* stage[t]: where trigger t is
    began,     \* began[t]: when t arrived
    task,      \* task[t][k]: where the pool of t is with the load of key k
    got,       \* got[t][k]: what load returned
    lock,      \* lock[k]: the trigger whose thread holds the lock of k
    entry,     \* entry[k]: the cached forecast
    fetched,   \* history: fetched[k], when k was fetched with success
    answer     \* answer[t]: the response to t

vars == <<now, stage, began, task, got, lock, entry, fetched, answer>>
cache == <<lock, entry, fetched>>
-----------------------------------------------------------------------------
(***************************************************************************)
(* Judging a forecast.  Amounts are in tenths of a millimetre of rain or   *)
(* centimetre of snow, one number per hour of the day.                     *)
(***************************************************************************)
Total(amounts) == FoldFunction(LAMBDA a, b : a + b, 0, amounts)

JudgeShortDay(d) ==
    {w \in {"heavy_rain", "heavy_snow"} :
        \/ w = "heavy_rain" /\ (Total(d.rain) >= 300 \/ \E a \in Range(d.rain) : a >= 150)
        \/ w = "heavy_snow" /\ Total(d.snow) >= 50}

JudgeMidDay(d) ==
    {w \in {"rain_likely", "snow_likely"} :
        /\ \E p \in d.probabilities : p >= 60
        /\ w \in d.phrases}

\* What is warned of a day in a forecast for each key.
Warnings == [k \in Keys |-> IF k \in Mids THEN JudgeMidDay(Weather[k]) ELSE JudgeShortDay(Weather[k])]

FullDayHours == 12

\* The date has so many hours in the forecast a grid got.
HoursIn(loads, g, day) ==
    IF loads[g].result = "ok" THEN Cardinality(HoursOf(loads[g].base, day)) ELSE 0

\* The grids of r whose forecasts say something of the day, or all of it.
ShortDays(loads, r, day) == {g \in Grids[r] : HoursIn(loads, g, day) > 0}
FullDays(loads, r, day) == {g \in Grids[r] : HoursIn(loads, g, day) >= FullDayHours}

InMid(loads, r, day) ==
    loads[MidKey[r]].result = "ok" /\ day \in DatesOf(loads[MidKey[r]].base)

Merged(grids) == {UNION {Warnings[g] : g \in grids}}

\* Mutant: a day and region without any forecast counts as good weather.
JudgementsFilled(loads, r, day) ==
    CASE FullDays(loads, r, day) # {} -> Merged(FullDays(loads, r, day))
      [] FullDays(loads, r, day) = {} /\ InMid(loads, r, day) -> {Warnings[MidKey[r]]}
      [] OTHER -> IF \E k \in Keys : loads[k].result = "ok"
                  THEN Merged(ShortDays(loads, r, day)) ELSE {}

\* A judgement is a set of reasons; no judgement is the empty set of them.
Judgements(loads, r, day) ==
    CASE FullDays(loads, r, day) # {} -> Merged(FullDays(loads, r, day))
      [] FullDays(loads, r, day) = {} /\ InMid(loads, r, day) -> {Warnings[MidKey[r]]}
      [] FullDays(loads, r, day) = {} /\ ~InMid(loads, r, day) /\ ShortDays(loads, r, day) # {} ->
            Merged(ShortDays(loads, r, day))
      [] OTHER -> {}

\* Tomorrow and the days after it, as seen when the trigger arrived.
Dates(t) == {Date(began[t]) + n : n \in 1..FORECAST_DAYS}

Judged(t) == [x \in Dates(t) \X Regions |-> Judgements(got[t], x[2], x[1])]
-----------------------------------------------------------------------------
(***************************************************************************)
(* Loading.                                                                *)
(***************************************************************************)
\* A forecast is known by its key and its base time.
Pending == [result |-> "pending", at |-> 0, base |-> 0]
Failed(how) == [result |-> how, at |-> 0, base |-> 0]
Received(at, base) == [result |-> "ok", at |-> at, base |-> base]

Arrive(t) ==
    /\ stage[t] = "new"
    /\ stage' = [stage EXCEPT ![t] = "loading"]
    /\ began' = [began EXCEPT ![t] = now]
    /\ task' = [task EXCEPT ![t] = [k \in Keys |-> "queued"]]
    /\ UNCHANGED <<now, got, cache, answer>>

\* A thread of the pool takes a load; the short-term ones were queued first.
TakeLoad(t, k) ==
    /\ task[t][k] = "queued"
    /\ k \in Mids => \A g \in Shorts : task[t][g] # "queued"
    /\ Cardinality({j \in Keys : task[t][j] \in {"locking", "fetching"}}) < PoolSize
    /\ task' = [task EXCEPT ![t][k] = "locking"]
    /\ UNCHANGED <<now, stage, began, got, cache, answer>>

\* The load of key k by t is over.
Loaded(t, k, what) ==
    /\ got' = [got EXCEPT ![t][k] = what]
    /\ task' = [task EXCEPT ![t][k] = "done"]

\* Mutant: the entry is looked up without the lock of the key.
LookUpUnlocked(t, k) ==
    /\ task[t][k] = "locking"
    /\ IF now < entry[k].until
       THEN Loaded(t, k, Received(entry[k].at, entry[k].base)) /\ UNCHANGED lock
       ELSE /\ lock' = [lock EXCEPT ![k] = t]
            /\ task' = [task EXCEPT ![t][k] = "fetching"]
            /\ UNCHANGED got
    /\ UNCHANGED <<now, stage, began, entry, fetched, answer>>

\* The thread gets the lock of the key: a live entry is used at once,
\* otherwise the thread fetches and keeps the lock meanwhile.
LookUp(t, k) ==
    /\ task[t][k] = "locking"
    /\ lock[k] = NoTrigger
    /\ IF now < entry[k].until
       THEN Loaded(t, k, Received(entry[k].at, entry[k].base)) /\ UNCHANGED lock
       ELSE /\ lock' = [lock EXCEPT ![k] = t]
            /\ task' = [task EXCEPT ![t][k] = "fetching"]
            /\ UNCHANGED got
    /\ UNCHANGED <<now, stage, began, entry, fetched, answer>>

\* The base times a load asks for, by the time its trigger arrived.
Times == Starts \cup {at + n : at \in Starts, n \in Steps}
Asked == [at \in Times |-> [k \in Keys |->
            IF k \in Mids THEN mid_issue_candidates(at) ELSE short_base_candidates(at)]]

\* Those KMA has a forecast of.
Found(t, k) == {base \in Asked[began[t]][k] : base + Delay <= now}

FetchSucceeds(t, k) ==
    /\ task[t][k] = "fetching"
    /\ \E base \in Found(t, k) :
          /\ \A b \in Found(t, k) : b <= base
          /\ entry' = [entry EXCEPT ![k] = [until |-> now + Ttl, at |-> now, base |-> base]]
          /\ Loaded(t, k, Received(now, base))
    /\ fetched' = [fetched EXCEPT ![k] = Append(@, now)]
    /\ lock' = [lock EXCEPT ![k] = NoTrigger]
    /\ UNCHANGED <<now, stage, began, answer>>

\* Mutant: a failed fetch leaves the lock of the key behind.
FetchFailsLocked(t, k) ==
    /\ task[t][k] = "fetching"
    /\ Loaded(t, k, Failed("failed"))
    /\ UNCHANGED <<now, stage, began, lock, entry, fetched, answer>>

\* A KmaError (transport, HTTP or result code, no data, bad format), which
\* load logs; the next thread in line for the lock fetches again.
FetchFails(t, k) ==
    /\ task[t][k] = "fetching"
    /\ Loaded(t, k, Failed("failed"))
    /\ lock' = [lock EXCEPT ![k] = NoTrigger]
    /\ UNCHANGED <<now, stage, began, entry, fetched, answer>>

\* A JSON answer of another shape (`body` or an item no object) raises an
\* AttributeError, which load does not catch.
FetchBreaks(t, k) ==
    /\ k \in MayBreak
    /\ task[t][k] = "fetching"
    /\ Loaded(t, k, Failed("broken"))
    /\ lock' = [lock EXCEPT ![k] = NoTrigger]
    /\ UNCHANGED <<now, stage, began, entry, fetched, answer>>
-----------------------------------------------------------------------------
Oldest(times) == CHOOSE n \in times : \A m \in times : n <= m

NothingJudged(judged) == \A x \in DOMAIN judged : judged[x] = {}

Response(t) ==
    LET loads == got[t]
        times == {loads[k].at : k \in {j \in Keys : loads[j].result = "ok"}}
    IN  CASE \E k \in Keys : loads[k].result = "broken" ->
                [status |-> "500", generated |-> 0, judged |-> <<>>]
          [] (\A k \in Keys : loads[k].result # "broken") /\ NothingJudged(Judged(t)) ->
                [status |-> "503", generated |-> 0, judged |-> <<>>]
          [] OTHER ->
                [status |-> "200", generated |-> Oldest(times), judged |-> Judged(t)]

\* All loads are over: judge and answer.
Answer(t) ==
    /\ stage[t] = "loading"
    /\ \A k \in Keys : task[t][k] = "done"
    /\ stage' = [stage EXCEPT ![t] = "answered"]
    /\ answer' = [answer EXCEPT ![t] = Response(t)]
    /\ UNCHANGED <<now, began, task, got, cache>>

Tick ==
    /\ now \in Starts
    /\ \E n \in Steps : now' = now + n
    /\ UNCHANGED <<stage, began, task, got, cache, answer>>
-----------------------------------------------------------------------------
Init ==
    /\ now \in Starts
    /\ stage = [t \in Triggers |-> "new"]
    /\ began = [t \in Triggers |-> 0]
    /\ task = [t \in Triggers |-> [k \in Keys |-> "none"]]
    /\ got = [t \in Triggers |-> [k \in Keys |-> Pending]]
    /\ lock = [k \in Keys |-> NoTrigger]
    /\ entry = [k \in Keys |-> [until |-> 0, at |-> 0, base |-> 0]]
    /\ fetched = [k \in Keys |-> <<>>]
    /\ answer = [t \in Triggers |->
                    [status |-> "none", generated |-> 0, judged |-> <<>>]]

FetchEnds(t, k) == FetchSucceeds(t, k) \/ FetchFails(t, k) \/ FetchBreaks(t, k)

LoadStep(t, k) == TakeLoad(t, k) \/ LookUp(t, k) \/ FetchEnds(t, k)

Next ==
    \/ \E t \in Triggers :
          Arrive(t) \/ Answer(t) \/ \E k \in Keys : LoadStep(t, k)
    \/ Tick

Spec == Init /\ [][Next]_vars

\* Threads are scheduled and every call of KMA ends (it has an HTTP timeout).
Fairness ==
    \A t \in Triggers :
        WF_vars(Answer(t)) /\ \A k \in Keys : WF_vars(LoadStep(t, k))

FairSpec == Spec /\ Fairness
-----------------------------------------------------------------------------
\* Triggers that come together get a forecast with one call: two successful
\* fetches of a key, by any threads, are a whole time to live apart.
FetchesApart ==
    \A k \in Keys : \A n \in 1..(Len(fetched[k]) - 1) :
        fetched[k][n + 1] >= fetched[k][n] + Ttl

\* To the triggers the cache is a store that answers at once: however long a
\* fetch takes, nobody fetches or stores what is still good, all take what is
\* good, and no failure leaves anything behind.
Store == INSTANCE ForecastStore WITH
    Clients <- Triggers, clock <- now, kept <- entry, loaded <- got

LoadsAtomic == Store!StoreSpec

\* No answer rests on a forecast that had expired when its trigger arrived,
\* and generated_at admits the oldest one that was judged.
AnswerFresh ==
    \A t \in Triggers : answer[t].status = "200" =>
        /\ answer[t].generated > began[t] - Ttl
        /\ \A k \in Keys : got[t][k].result = "ok" => answer[t].generated <= got[t][k].at

\* A day and region are judged in the answer exactly if some forecast that
\* arrived covers them: a failure is never passed off as good weather, and a
\* success is never lost.  Without any, the answer is 503.
FailuresLeaveGaps ==
    \A t \in Triggers : stage[t] = "answered" /\ answer[t].status # "500" =>
        LET covered == {x \in Dates(t) \X Regions :
                           ShortDays(got[t], x[2], x[1]) # {} \/ InMid(got[t], x[2], x[1])}
            given == {x \in DOMAIN answer[t].judged : answer[t].judged[x] # {}}
        IN  given = covered /\ (answer[t].status = "503" <=> covered = {})

\* A warning of any grid of a region that has the whole day forecast is in
\* the answer, and a region whose grids have the whole day without a warning
\* is not marked by the coarser mid-term forecast.
DetailedForecastWins ==
    \A t \in Triggers : \A x \in DOMAIN answer[t].judged :
        LET whole == FullDays(got[t], x[2], x[1])
        IN  whole # {} => \A reasons \in answer[t].judged[x] :
               reasons # {} <=> \E g \in whole : Warnings[g] # {}

\* When all forecasts arrived, every day asked for is judged: at any hour, with
\* the newest issues not published yet, and with entries that were fetched
\* before midnight or before an issue that starts a day later.
NoDayMissed ==
    \A t \in Triggers : stage[t] = "answered" /\ (\A k \in Keys : got[t][k].result = "ok") =>
        \A x \in Dates(t) \X Regions : answer[t].judged[x] # {}

\* An answer says what the forecasts that arrived say, gaps and warnings alike,
\* and none of them had expired.
AnswerTrue == AnswerFresh /\ FailuresLeaveGaps /\ DetailedForecastWins

\* The load can go on at once.
CanLoad(t, k) ==
    \/ /\ task[t][k] = "queued"
       /\ k \in Mids => \A g \in Shorts : task[t][g] # "queued"
       /\ Cardinality({j \in Keys : task[t][j] \in {"locking", "fetching"}}) < PoolSize
    \/ task[t][k] = "locking" /\ lock[k] = NoTrigger
    \/ task[t][k] = "fetching"

\* No load waits in a circle: a trigger can go on itself, or the one that has
\* the lock of a key it waits for can.
NobodyStuck ==
    \A t \in Triggers : stage[t] = "loading" =>
        \/ \A k \in Keys : task[t][k] = "done"
        \/ \E k \in Keys : CanLoad(t, k) \/ (lock[k] # NoTrigger /\ CanLoad(lock[k], k))

\* Every trigger is answered, whatever mix of hits, failures and waits for
\* another trigger's fetch its loads meet.
TriggerAnswered == \A t \in Triggers : stage[t] = "loading" ~> stage[t] = "answered"
=============================================================================
