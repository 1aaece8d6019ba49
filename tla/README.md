# TLA+ models of the AI server

This directory holds TLA+ specifications of the travel-AI server of this
repository (`src/app`, a FastAPI service), of its GPU worker (`src/serving`) and
of the scripts that make and judge what both serve (`src/scripts`), the TLC
configurations that check them on small instances, and proofs checked by TLAPS.

## 1. The system

One FastAPI process (`app/main.py`). Its coroutines run on one event loop; its
`def` endpoints run on a thread pool and share module-level objects. A worker of
its own decodes itineraries on a GPU. Scripts run by hand fill the database,
make training data, measure the verification of photos, and make the model the
worker loads; what they share is files.

| component | source | state it keeps | operations |
|---|---|---|---|
| photo-mission generation | `app/photomissions/pipeline_generate.py`, `gemini_client.py` | process-wide semaphore `_call_slots`, cleanup tasks, per-request chunk traces | `generate_missions` |
| photo verification | `app/photomissions/pipeline_verify.py`, `vlm_client.py`, `question_format.py` | shared HTTP client; per-request stage trace | `verify_photo`, `_with_fallback`, `score` |
| model inference routing | `app/trips/services/model/inference.py`, `runtime.py` | circuit breaker, CPU semaphore | `InferenceRouter.generate_trip` |
| weather precheck | `app/trips/services/precheck_service.py`, `kma_client.py`, `weather_risk.py` | forecast cache, one lock per key | `build_precheck` |
| trip orchestration | `app/trips/services/trip_orchestrator.py`, `db.py` | DB connection pool, three threads per request | `build_trip_plans` |
| trip selection | `slot_plan.py`, `trip_rule.py`, `place_selection.py`, `taste_share.py`, `group_score.py`, `model/selection.py`, `model/trip_selection.py`, `model/generation.py` | none (pure, plus candidate queries) | day and slot planning, ranking, drawing, filling up |
| place collector | `app/trips/services/collect_places.py` | progress file, DB tables | `collect_places` |
| itinerary decoding | `model/generation.py`, `scripts/semantic_id/decode.py`, `tokens.py` | places used so far, per request | `run_trip_request`, `generate_itinerary`, `beam_search` |
| GPU worker | `serving/runpod/handler.py` | loaded model and codes | `handler` |
| semantic-id pipeline | `scripts/semantic_id/` | the files of one version folder | `build_days`, `split`, `embed`, `rqvae`, `code_dict`, `train_data`, `train`, `eval_model`, `export_onnx`, `package_bundle` |
| training data | `scripts/build_train_pilot.py`, `build_train_550.py`, `write_train_missions.py`, `build_train_dataset.py` | list of photos, `missions.jsonl`, labels | choosing photos, writing missions, making examples |
| evaluation | `scripts/split_eval.py`, `generate_eval_missions.py`, `write_photo_missions.py`, `baseline_verify.py`, `measure_eval_b.py`, `eval_cases.py` | the split, mission files with their meta file, result files | splitting, generating, measuring, counting |
| application core | `app/main.py`, `app/core` | settings | start-up checks, API-key check |
| other scripts | `scripts/` | none that others read | timing, tables, checks |

### How the parts interact

- **Requests and the event loop.** The photo endpoints are coroutines of one
  event loop. What two of them share is the semaphore `_call_slots` (generate)
  and one HTTP client (verify). An action of these models is what one task does
  between two awaits.
- **Requests and threads.** `POST /trips/place-selection` and
  `POST /trips/precheck` are `def` endpoints: they run on threads of the web
  server and start thread pools of their own. They share the DB connection pool
  (`db.py`), the model router with its breaker and CPU slots (`runtime.py`), and
  the forecast cache. An action of these models is what one thread does between
  two points where another thread can be seen.
- **Place selection, from the outside in.** `build_trip_plans` starts three
  runs (TripPlans). Each run queries the pool and either fills a plan by the
  rules or asks the model (TripSelection). A model call goes through the router
  (ModelRouting). In TripPlans a model call is one step that may fail; in
  TripSelection what the model chooses is free.
- **Photo verification** asks the own model, Gemini, or one after the other;
  **mission generation** always asks Gemini.
- **The scripts of the version folder** (`scripts/semantic_id`) hand each other
  files: days and their split into parts, of which the last is sealed until the
  final evaluation; vectors and codes of places; examples, a trained model, and
  the bundle. **The GPU worker** loads the two files of the bundle and decodes
  one request after another. ModelRelease composes the two.
- **Training data and evaluation** hand each other files too, and share the split
  of photos: no photo, picture, travel or place of the evaluation may get into
  the training set. Their scripts are restarted after failures and continue the
  file they find.
- **The collector** is a process of its own. It fills the tables that place
  selection reads; the types it stores are the ones the deal breakers and
  weather filters look at.

### What is hard about them

| kind | where |
|---|---|
| cancellation between a wake-up and the task that was woken | workers of `pipeline_generate.py` waiting for a slot |
| two cancellations of one task, and a cleanup that outlives it | `generate_missions` under `asyncio.timeout` and `shield` |
| checks done under a lock and acted on after it | `CircuitBreaker.allow`, `get_router` |
| late reports of calls that began under another state | the breaker |
| locks held over network calls | `ForecastCache.get` |
| a pool that refuses instead of waiting, shared by three threads of each request | `db.py`, `trip_orchestrator.py` |
| several timers on one call, a late event loop, a budget split between two services | `_with_fallback`, `vlm_client.score` |
| a crash between two commits, and a progress file outside the database | `collect_places.py` |
| a file continued by a later start with other options, or after a death | `write_train_missions.py`, `generate_eval_missions.py`, `baseline_verify.py`, `rqvae.py` |
| a part of the data that must stay unseen while everything before it is rebuilt | `split_eval.py`, `semantic_id/split.py` |
| counters and caps shared by several passes over overlapping sources | `build_train_550.py`, `model/generation.py` |
| overlapping pools, fallbacks to other categories, a second path that starts over | `trip_rule.py`, `model/trip_selection.py` |

`PROJECT.json` lists the hazards one by one, at the line where they bite, with
the properties that would catch them.

## 2. Modules

Every component has its TLC instance in `MCM.tla` and the `.cfg` files named
after it; TripSelection and TripPlans share `MCTrips`. Theorems about a module
`M` are in `MProofs.tla`, except that `TripProofs` is about TripSelection and
TripPlans, `TrainSetProofs` about the three modules of the training data, and
`ScriptProofs` about EvalCases and ModelRelease with what they are composed of.
The first seven components below stand alone (KmaClient has the dates Precheck
judges by, and Precheck instantiates ForecastStore). The other three components
are built in layers: TrainSet extends TrainMissions, which extends TrainPhotos;
EvalCases extends EvalMeasure, EvalMissions and EvalSplit, one script after the
other, and instantiates JobLog; ModelRelease composes SemanticId (on
SemanticCodes and SemanticDays) with Itinerary. No module uses a RECURSIVE
operator.
Definitions whose comment begins with "Mutant:" are wrong on purpose:
each replaces a definition of the model the way a plausible bug would, and the
property named for it in `PROJECT.json` must then fail.

### PhotoGenerate — `pipeline_generate.py`, `gemini_client.py`

`at`, `chunk` and `attempts` follow the worker tasks of `_write_chunks`, `todo`
is their shared iterator, `trace` the `ChunkTrace.status` of each chunk. `sem`
is `asyncio.Semaphore` as CPython implements it (free permits, the FIFO of
waiters, the waiters already given a permit), modelled from its use and marked
external. `parent`, `cancels`, `pending` and `carrying` follow the task of the
request: who cancelled it, which `cancel()` is not yet delivered, whether it is
unwinding; `cleanup` follows the task that runs `_stop_workers`; `outcome` is
the answer.

`WorkerStart`, `GetSlot`, `CancelWaiting`, `CallSucceeds`, `CallFails`,
`CancelRunning` and `CancelRaises` (closing a cancelled call raises an exception,
which counts as a failed attempt of any kind) are the steps of a worker between awaits;
`Arrive`, `CancelParent`, `WorkersWake`, `ParentCancelled` and `ParentReturns`
those of the request; `StopWorkers` and `WorkersStopped` those of the cleanup. A
failure is represented by the answer it would lead to (429, 502, 504, or a
program error). Chunk contents and the pairing with places are left out, and so
are `start()` and `close()`.

### ModelRouting — `model/inference.py`, `model/runtime.py`

One call at a time per thread: `GetRouter` and `RouterBuilt` (the `lru_cache`
that does not lock while it builds), `BuildFails` (the constructor raises, and the
next call builds again), `TryGpu` (`allow`), `GpuSucceeds`,
`GpuFails`, `GpuBreaks` (an answer that is no JSON object), `TryCpu`, `CpuEnds`.
Every router has a breaker of its own (`failures`, `age`) and CPU slots (`free`);
a router is named by the thread that built it. `age` is the time since
`opened_at`, up to the cooldown. `failures` stops at the threshold: the code
counts on, but only compares. `trial` is history for `OneTrial`.

### PhotoVerify — `pipeline_verify.py`, `vlm_client.py`, `question_format.py`

One request. `CheckSource` may end it with 422, or with 500 when the URL makes
the parser raise. `settings` are those `settings_errors` lets through, `lag` is how
late the event loop may run a timer, `now` counts ticks since the model stage
was entered. `phase` goes through source check, download, the four phases of an
HTTP attempt (pool, connect, write, read) and Gemini. `due` is the timer of the
current phase, and `SelfDeadline + Guard` and the limit of the stage are the
other two (`Timers`). `Advance` moves on or restarts a phase (a response in pieces
restarts the read timeout, which is why the guard exists). `TimedOut`,
`TransportFails`, `ErrorResponse`, `SelfResponds`, `GuardCuts` and `SelfBreaks`
end an attempt; `RetryOrFail` and `SelfFails` decide on a second one, the
fallback, or the failure. `GeminiAnswers`, `GeminiFails`, `StageCut` and `Cancel`
end the rest. `route`, `fallback`, `selfStatus` and `answeredBy` are the fields
of `VerifyTrace` that the log is written from.

One request is enough because requests share the HTTP client only: what others
do shows as a wait for a connection of any length. Gemini's own retries are
left out, since only the limit of the stage bounds them in time, and a cancelled
Gemini call is assumed to end with the cancellation (PhotoGenerate treats the
case in which it does not).

### KmaClient, ForecastStore, Precheck — `precheck_service.py`, `weather_risk.py`, `kma_client.py`

`KmaClient` has the base times the client asks for and the dates a forecast says
something of, in minutes. In `Precheck`, `task` and `got` follow the loads of
each trigger's pool, `lock` and `entry` are the cache, `fetched` is history.
`TakeLoad` is the pool (short-term loads were submitted first), `LookUp` is the
look into the cache under the key's lock, `FetchSucceeds`, `FetchFails` and
`FetchBreaks` end a fetch, `Answer` judges and responds. A fetch asks by the
clock at its trigger's arrival (`began`), gets what the agency has by then
(`Delay`), and leaves a forecast known by its base time, which another trigger
may use on the next day. The rules of `weather_risk.py` are operators on amounts
in tenths. Pages and the parsing of their fields are part of the step.

`ForecastStore` is what the cache promises: a load is one step that uses a good
value, keeps a new one, or fails and keeps nothing. Precheck implements it
(`Store`, `LoadsAtomic`): waiting for the lock and fetching are steps the store
does not see.

### TripPlans — `trip_orchestrator.py`, `db.py`, `router.py`

`run` follows the three pool threads of each request and the fallback on the
request thread, `stage` the request thread, `plans` the results, `inUse` the
pool's count. A run asks, is refused or gets a connection, and ends; a
model run then calls the model. `TakeRule`, `TakeModel`, `TakeFallback` and
`Leave` are the request thread, which cannot leave the `with` before its pool
threads have ended. What a plan holds is TripSelection's subject.

### TripSelection — `slot_plan.py`, `trip_rule.py`, `place_selection.py`, `model/trip_selection.py`, `model/generation.py`, `taste_share.py`

One trip, filled slot by slot: `RuleFills` draws from the first `PickWidth`
unused places of a pool, and turns to the next category in the fallback order
when it is empty; `ModelFills` takes any unused place of the merged pools that
the model has a code of; `JudgeModel` accepts a model trip or starts over with
the rules. `Eligible`, `Top` and `Limit` are the query: categories, deal
breakers, outdoor and night types, order, LIMIT. What a seed or the beam search
chooses is free. Each place has a rank of its own, whereas the query leaves the
order of equal scores open. The model path's POOL_LIMIT of 3000 is taken as no
limit.

### PlaceCollector — `collect_places.py`

The process is `stage`, `combo`, `pos`, `typePos` and its two counters; the
progress file is `progress`, and the tables are `rows`, `typeRows`, `reviewed`,
`categories` and `regions`. Each insert is a transaction, hence an action.
`Crash` may come between any two, `ParseFails` wherever the code reads the
answer, and `Start` runs the script again. Retries inside one call are one step.
`results` is history.

### TrainPhotos, TrainMissions, TrainSet — the training data

`TrainPhotos` is the choice of photos. `_take` goes round its pools and lets a
travel give one photo, then two, then three, then a second photo of one visit:
`Rule`, `NextTurn`, `Draw`, `StepOver` and `PassTurn` are its loop, one candidate
a step. `Takes` lists what the 550 run takes in order (categories, spare photos,
look-alikes); `PilotDrawn`, `LabelPilot`, `Reuse`, `Reserve` and `FinalCheck` are
what comes between, and `OpenFile`, `FillFile` and `Crash550` write the lists,
one file a step. The order of candidates of one pool, decided by a seed, is free.

`TrainMissions` is `write_train_missions.py`: `log` is `missions.jsonl`, `tried`
the `done_ids` of a run, `phase` its three parts, `asked` the call that is under
way. `StartWriter` reads the file and takes any command of `Commands`, with the
number of missions it asks for (`QuotaOf`); every answer, usable, unusable or an
error, is a choice; `CrashWriter` may come at any point, between two lines of the
file: after a death within a line every start ends with a JSON error until a
person removes the line. `TrainSet` labels what was written and makes the examples
(`merge_missions`, `select`). A person, who labels, is an external action.

### JobLog, EvalSplit, EvalMissions, EvalMeasure, EvalCases — the evaluation

`EvalSplit` is the split by travels. `EvalMissions` generates missions for set B:
`missions` are the lines of each output file, `meta` what its meta file says,
`run` the script that runs with what it read at its start; `aug` is the file of
`write_photo_missions.py`. `EvalMeasure` adds the two measuring scripts:
`results` holds the lines of each case in the order they were appended, and
`opened` is history: a measurement was started with `--open-final`. A person
labels a photo of set B up to twice: for the mission of the service (`LabelB`) and
for the one written for it (`LabelAug`), which makes it a case of the augmentation;
those without a label make no case. `EvalCases` is the count:
reading, `dedupe`, relabelling, the side, and the measures. One script runs at a
time, of any kind, with any command of the configuration, and `EndScript` (it
ends, or dies) may come between any two calls.

`JobLog` is the abstract specification of a file that is continued: lines are
only appended, and never for a job that has an answer. `ALog`, `AugLog` and
`CompareLog` map set A, the augmentation and the comparison of prompts to it;
`JobsDoneOnce` is the refinement. Set B promises less: its file of plain missions
may get a second mission for a photo when regrouped, and `VerdictStays` says what
holds all the same.

### SemanticCodes, SemanticDays, SemanticId — the version folder

`SemanticCodes` and `SemanticDays` are operators: collision numbers, the
dictionary, the trie and the beam search; days from visits, the choice of a part for each traveller, and the examples of a day.
The beams of a level are a set: the code sorts them by score and path, no two have the
same path, and so the slice `[:width]` is the set of those with fewer than
`width` others before them (`Before`, `Ahead`, `Leading`, with Python's reading of
a negative bound).
`SemanticId` is the folder: `files` maps each file to its content, to nothing, or
to `Torn`; `job` is the running script with the files it has still to write.
Every script is an action that reads what the code reads, refuses what the code
refuses, and leaves its writes to `WriteNext`; `Die` stops it between two files
or within one. `learned` and `judged` are history: the travellers whose days were read
for training, and those measured as the sealed part. The travel log and the place table may change
between any two scripts; what is learned (vectors, codes, losses, NaN among them)
is a free choice.

### Itinerary, ModelRelease — the worker

`Itinerary` is one request at a time: `Receive` checks it as `handler` and
`run_trip_request` do and either replies or starts; `Slot` decodes one slot,
`SlotRaises` is a code that has no token, `NextDay` and `Finish` the loops around
it. The model is an arbitrary cost of every node of the trie, chosen anew for
each slot (`Costings`).
`ModelRelease` starts the worker from the files of the bundle.

## 3. Runs

| run | instance | question and result |
|---|---|---|
| `generate_safety` | requests of three chunks and one, two slots, two attempts, all failures, `CancelMayRaise` | Permits, wake-ups, chunks, answers and cleanups under every interleaving: holds. |
| `generate_live` | two chunks and one, one slot, `CancelMayRaise = FALSE` | Every request is answered and every slot returns even if Gemini hangs: holds. |
| `routing` | three threads, threshold 2, cooldown 2, one CPU slot | The load stays right while routers are built twice; once the GPU works for good, and a router could be built, the breaker closes for good: holds. |
| `routing_trial` | two threads | "One trial call after the cooldown" (`inference.py:134`): violated, all callers get through. |
| `collector` | two places, three overlapping combinations, limit 2, two interruptions, three outages | The progress file tells the truth, types are inserted once and lost only to an interruption, a run is given up over failed calls only when they came in a row, everything completes in the end: holds. |
| `collector_parse` | the same | "Five in a row" of malformed answers (`collect_places.py:451`): violated, successes between them do not count them back. |
| `precheck` | two triggers, a region with two grids, nine days, beginning at 05:31, 17:31 or 23:31 with one step of 29 or 30 minutes, a time to live of 30 minutes, pools of two threads | Concurrent loads are those of the store, answers say what the forecasts that arrived say and miss no day between them, every trigger is answered: holds. |
| `trips` | sixteen places with overlapping categories, one and two days, weather on none or one of them, width 2, spare 3; beside it two requests of three threads, five connections | No place twice, true counts, every slot settled and none skipped because of LIMIT; isolation of failures, nothing behind the answer, every request served unless its own query hangs: holds. |
| `photo_verify` | budget 12, own deadline 4 or 9, Gemini 5, reserve 4, margin 2, guard 1, lag up to 2 | Gemini's share kept, log truthful, no blank answer passes, the stage ends in time: holds. |
| `train_data` | ten photos of two sources, two regions and one category; two missions wanted (a forced and a plain one) or three (a second plain one); two starts of each script; two command lines | Nothing barred and nothing twice gets into the training set, records fit together, and quotas are met or the photos used up: holds. |
| `evaluation` | two photos in each set, one travel in both, one photo of set B without a label; three starts among all scripts; five command lines of generation, eight of measuring, four of counting | The final side stays unseen, files are not mixed, answered jobs are not done again (the refinement of JobLog), each count is exact: holds. |
| `model_release` | three places, four travellers, codes of two levels and two values, two states of the log and the table, one death; eight requests | The sealed part stays unread, one coding goes through folder and bundle, the search is exact, the trip decoded right, the codes served: holds. |

### Bounds, and why they are enough

- *generate_safety*: three chunks for two workers make a worker go round its
  loop; the second request makes slots go between requests; two attempts give
  the first and the last. More workers add no new kind of waiter (a waiter is
  live, dead or granted, and all three meet here), and the account of the
  permits is proved for any number.
- *generate_live*: one slot makes everybody wait for everybody. Liveness
  checking multiplies the states, hence the smaller instance.
- *routing*: two threads race and the third comes later. The threshold of two is
  the least with a count between closed and open.
- *collector*: the first two combinations overlap in a place, the first may
  answer differently in a rerun, the third may find nothing. Two interruptions
  allow a crash in the rerun after a crash. The bounds `MaxInterruptions` and
  `MaxOutages` are in the guards of `Crash`, `ParseFails` and `SearchFails`;
  `AllCompleted` rests on them (troubles end at some time).
- *precheck*: after the step of time (`Steps`) a mid-term forecast has been issued
  or a day has begun, and an entry is one minute short of its time to live, or at
  it. The agency is 40 minutes late (`Delay`), so that the newest issue asked for
  is missing at some of the times. Three keys on two threads make loads queue; one
  of them (`MayBreak`) may get an answer of an unexpected shape.
- *trips*: seven night places against a limit of six make LIMIT bite; the
  daytime categories run dry and fall back; food places are also daytime places;
  one place falls to a deal breaker. Two days are enough for a place to be wanted
  again on another day; the theorems cover any length. Six threads and five
  connections, so that the pool refuses. One query per run (`MaxQueries = 1`):
  after a query a run is where it was before, and the account of the pool is
  proved for any number of queries. The trip and the plans share no variable, and
  no property speaks of both: `MCTrips` moves each while the other stands where it
  began, and so meets every state of either.
- *train_data*: two photos of one travel, two copies of one file, a picture, a
  travel and a place that are barred, and two photos of one visit make every rule
  of `Usage.fits` and every bar decide something. Two starts (`MaxRuns`,
  `MaxStarts`) make the second find what the first left; one cap on calls ends a
  start in the middle. The photos of one travel, and those of one visit, are
  interchangeable, hence the symmetry.
- *evaluation*: `MaxScripts = 3` is a start, a start that continues with other
  options, and one more; the count is checked in every state between scripts, as
  if made there. Two photos on each side of a pair of files are enough to leave
  one answered and one not.
- *model_release*: `Levels = 2` stands for the three levels of the code, and
  the beam makes `Levels + 1` steps as the code makes four. Two codings, one with
  two places of one code and one with a collision number at its limit, and
  `MaxDeaths = 1`, since a death leaves a file torn or missing and the second
  death could only do the same again. No script runs once the worker has started:
  the worker has loaded its files and would not notice. `VIEW` tells states apart
  by what is served from then on.
- *photo_verify*: the own deadline lies below and above Gemini's share, the
  guard within the margin, and the lag beyond what the margin covers, so that
  the fallback is both made and skipped. Time needs no bound, since timers stop
  the clock.

`CHECK_DEADLOCK FALSE` is set where the system ends by itself: a fixed set of
requests or triggers that have all been answered (TripPlans, Precheck,
PhotoVerify), a trip that is filled (TripSelection), or scripts that nobody
starts again (TrainSet, EvalCases).

### Fairness

- PhotoGenerate: the event loop runs ready tasks, and the deadline's timer
  fires. Gemini need not answer. Arrivals and outer cancellations are not fair.
  `CancelMayRaise` is FALSE in the liveness run: with it a swallowed cancellation
  followed by a hanging attempt keeps the request waiting (a hazard in the
  list).
- ModelRouting: threads run, calls end (the GPU call has a timeout), time passes
  and requests keep coming. Nothing is assumed about the GPU, except that
  `BreakerRecovers` speaks of a GPU that works for good; nor that building a
  router ever succeeds, so that it speaks of a process in which one did.
- Precheck: threads run and a call of the agency ends (`kma_timeout_seconds`).
  Which loads succeed is open.
- TripPlans: threads run and a model call ends by its timeouts. `QueryEnds` is
  *not* fair, because `db.py` sets no `read_timeout`; `RequestServed` therefore
  excepts a request one of whose own queries hangs, and only that.
- PhotoVerify: time passes and due timers fire. Neither model is assumed to
  answer.
- PlaceCollector: the process goes on while it runs, and somebody runs it again.
- The scripts of TrainSet, EvalCases and ModelRelease are started by hand, and
  nothing is assumed about when; their properties are safety properties.

## 4. Proofs

All theorems are about every behaviour of a specification, for every value of the
constants that the assumptions allow, and rest on an inductive invariant. Most
are of the form `Spec => []P`; `VerdictsFinal` and the second half of
`SlotsNeverLost` are action properties, and `CacheIsStore`, `SetAIsJobLog`,
`AugmentationIsJobLog` and `ComparisonIsJobLog` are refinements.

The assumptions are the ranges of the constants and finiteness of the sets that
are counted; what `settings_errors` checks at start-up (PhotoVerify); that a code
has as many entries as the model has levels and no place has the number that stands
for none (`CodingAssumption`); that costs are numbers and a width the handler
accepts is one (`ItineraryAssumption`); and that the
batches of a command hold each photo once at most (`BatchAssumption`, of the
recursive `make_batches`, whose value the provers do not see). `ServedCodesFit`
has a hypothesis of its own, `TableKeepsPlaces`: while a version is made no place
is added or removed. Without it the collision tokens of the model and those of
the codes may be counted over different places. It is about groups of any size:
of the places of one code the first `MAX_COLLISION` can be served, and all of
these.

`DaysJudgedInTime` has three. `Asking`: every region has grids, and no more than
nine days are asked for. `InTime`: no trigger loads for longer than `patience`,
which its calls' timeouts and its waits for those of others bound
(`kma_timeout_seconds` is 10). `InStep`: the time to live, twice the patience
and the fifteen minutes of `SHORT_PUBLISH_DELAY` make no more than four hours;
with the half hour of `app/core/config.py` that allows a patience of 97 minutes.
Four hours, because the mid-term forecast begins a day later from 18 o'clock on, and
the short-term one reaches that day from its base time of 14 o'clock on. Nothing
is asked of `Delay`: what the agency publishes late, all triggers miss alike.
`DaysJudged` draws the same from a clock that goes on once, as in the run.

| module | proved | the invariant, and why it is needed |
|---|---|---|
| PhotoGenerateProofs | `TypeCorrect`, `PermitConservation`, `CallsBounded`, `WakeupsReachWaiters`, `ChunkHasOneWorker`, `NoWorkerLeftBehind`, `OutcomeTruthful`, `RequestsNeedNobody` | `IInv`: the permits are only accounted for if the queue holds exactly the waiting workers, each once, and every granted one is among them (`QueueInv`); a worker exists only after its request arrived (`ArrivedInv`). `ChunkInv`: an open chunk has one worker, and the chunks from `todo` on were not started, so that the iterator never meets an open one; for this the steps of a worker are reduced to four moves (`WorkerMoves`) that do not mention the semaphore. `ParentInv`: a cancellation of an unfinished request is pending or being carried. `BlameInv`: places and traces name the same failures, and only a cleanup cancels workers, so that a request that its workers wake is decided (`WakeDecides`). `AnswerInv` adds that an answer that depends on the chunks is given when they are settled. `StopInv`: a cleanup has told every worker of its request that had not ended to stop, and such a worker is gone with its next step. |
| ModelRoutingProofs | `TypesHold`, `BreakerTruthful`, `SlotConservation`, `LoadBounded` | `IInv`: a call has a router while it routes, the cache is filled before a router is used, and a router other than the cached one serves only its builder (`StrayRouterPrivate`). From that `LoadFromSlots` counts the runs of the cached router and of the others. |
| PrecheckProofs | `TypesHold`, `OneFetchPerTtl`, `CacheIsStore`, `AnswersTruthful`, `TriggersGoOn`, `DaysJudgedInTime`, `DaysJudged` | `IInv`: whoever fetches holds the lock of its key and found the entry missing or expired (`LockInv`), and the entry is the one fetched last (`EntryInv`), so that fetches of a key are a time to live apart. With that the end of a load is a step of the store and every other step leaves the store as it is (`LoadMoves`). A trigger loads between its arrival and its answer (`StageInv`), what it got had not expired when it arrived (`FreshInv`), and its answer is the one its loads call for (`AnswerInv`). `HolderInv`: a lock is held by a fetch, which can end. `NewestInv`: what is cached or loaded was the newest that some trigger could have when it was fetched (`LoadedNewest`); two such loads of a trigger were asked for close enough together that the days of the one end no earlier than those of the other begin. |
| PlaceCollectorProofs | `ProgressTruthful`, `TypesOnce`, `CallsStopRight`, `ParseStopsCumulate`, `PlacesStayWhole` | `IInv`: what the running process does not know from the progress file it has passed itself (`ProgressKnown`), the places before the current one are stored (`WorkDone`), the current one is as far as `stage` says (`CurrentDone`), and no types without a row. A noted combination is never answered again, so that its places stay stored. `GiveUpInv`: the counters are those of the failures since the start, in a row for searches and in all for parses. `DamageInv`: places that lack types and are not at hand (`Spoiled`) are no more than the interruptions. |
| TripProofs (the trip) | `TypesHold`, `PlacesDistinct`, `ExclusionsHold`, `LabelsHold`, `CountsHold`, `SlotsNeverLost` | `Inv`: `FilledRight` ties the kind of a slot to its category and to the night types; the counts follow from it, since the code tells evening places by type. `SlotInv`: a filled place stands in a slot already passed, and filled and skipped slots are the passed ones. For LIMIT: a pool that was cut holds LIMIT places (`TopMany`); while a slot is to be filled, fewer places are used than the plan has slots (`UsedFew`), and LIMIT is not less than that when the slots of other kinds fit into what it spares. A pool that is used up was therefore the whole category (`LimitSpares`). |
| TripProofs (three plans) | `PlansTypesHold`, `ConnectionsHold`, `StrategiesHold`, `FailuresIsolated`, `QuietAfterAnswer`, `LoadHolds` | `PlansInv`: `Fits` says which runs and results go with which stage of the request (`RunsFit`, `PlansFit`). |
| PhotoVerifyProofs | `StageInTime`, `ShareHolds`, `LogTruthful`, `BlanksNeverPass` | `Inv`: `Progress` ties the phase to the fields of the log, and `SelfInTime` bounds the time spent on the own model by its deadline, guard and lag, from which the share of Gemini follows by arithmetic. `BlankNeverPasses` is inductive by itself: only an answer of the own model can be graded by the rules, and there `Valid` leaves no blank to a `success`. |
| TrainSetProofs | `TrainInvariance`, `TrainingStaysSound`, `RecordsStayFit`, `QuotasStayFilled` | `TrainInv`. `ChoiceInv`: one set of counts of travels, visits and pictures goes through all sources of a run, and travels are reserved only after the look-alikes (`SpreadInv`, `BarredInv`). `FilesInv`: the first file of a run decides whose folder it is (`OrderInv`), and what is on file is what that run chose, also when it stopped between two files (`ContentInv`). `WriterInv`: a mission counts as tried before its call, and the quota holds with the call under way (`TriedInv`, `AskInv`); a swap aims at each photo once, and at a usable mission on file (`TargetInv`); a start without a cap leaves only settled photos behind it, and a settled one stays settled (`SettledInv`). `ExamplesInv`: examples are of photos on file. |
| ScriptProofs (evaluation) | `ResultFilesApart`, `FinalStaysUnseen`, `VerdictsFinal`, `SetAIsJobLog`, `AugmentationIsJobLog`, `ComparisonIsJobLog`, `JobsNeverRepeated`, `PlansOnRecord`, `EveryCaseCounted` | `OneRunInv`: a running measurement carries the model and format of every line its file holds, because the guard compared them at the start. `UnseenInv`: until opened, no final case is among the lines or among those the running script has still to do. `TodoInv`, `AugInv`, `CompareInv`: what a script has still to do has no answer on file, so that a step of it is a step of JobLog; for the comparison this needs that a batch has its missions for all of its photos or for none, and that batches are apart. `PlanInv`: a running generation has either no plan or the one in the meta file of its output. `ResultsOK`: the lines of a case are a sequence whose first answer is the one counted. |
| ScriptProofs (version folder) | `FinalStaysUnread`, `OneCodingThroughout`, `ServedCodesFit`, `SearchStaysExact`, `TripsDecoded` | `SealInv`: the split is never written twice (`SplitInv`), a running script has each file in its queue once (`QueueInv`), and whoever was learned from or judged has the part for it in the split that is on file (`PartsInv`). `CodeInv` says of what is on file *or still to be written* that it comes from the files before it: examples and codes of one coding (`CodedInv`, `OneIdsInv`), a model that speaks the codes of its examples (`ModelInv`), an export of that model (`ExportInv`), a bundle of both (`BundleInv`), and a meta file that names the loss of the model beside it (`LossInv`). From it `WorkerInv`: a worker that has started has a full code for each place and no two alike (`CodesFine`). On such codes the search is followed level by level (`SearchSteps`, `KeptRight`): a level keeps all beginnings of codes or as many as the width, because every beam has a child and no two share one (`ExpandMore`), and what it drops is overtaken by that many, because paths of one length are ordered strictly (`LexOrder`, `LeadingAre`). `TripInv`: a slot gets a place of its pool or none (`PickRight`), and the pool is what the slots before it have not taken (`ChosenAre`). |

`LabelsTrue`, `FallbackAddsNoLoad`, `CallLimit`, `StrayRouterPrivate`,
`FetchesApart`, `NobodyStuck`, `NeedsNobody` and the type invariants of
ModelRouting, Precheck, TripSelection and TripPlans are proved and not part of a
run.

**Only model-checked:** liveness (`EverythingServed`, `BreakerRecovers`,
`AllCompleted`, `TriggerAnswered`, `RequestServed`, the ending in
`StageEndsInTime`), since the prover has no support for ENABLED and fairness.
Two theorems are the part of such a property that is safety. `TriggersGoOn`: a
trigger without an answer can always go on, or the one it waits for can.
`RequestsNeedNobody`: a request of PhotoGenerate comes to its end without Gemini
and without the slots of others; its hypothesis, that closing a cancelled call
raises nothing, is the one of the run `generate_live`, and without it the
statement is false (`CancelRaises`).

## 5. What the models say about the code

Two statements of the repository do not hold: the runs `routing_trial` and
`collector_parse` produce the behaviour, and `PROJECT.json` quotes the lines.

- After the cooldown the breaker lets every caller through until the first has
  reported, not one trial call (`inference.py:134`).
- Malformed answers are counted over a whole run of the collector
  (`collect_places.py:512`), though the comment (`collect_places.py:451`), the
  messages and `adr-0001.md` speak of five in a row. `ParseStopsInARow` states what
  they say and is violated; the theorem `ParseStopsCumulate` is what the code does.

Met on the way, without a run of its own:

- Calls that reach `get_router` before the first one has returned build a router
  each (`runtime.py:18`). `CpuLoadBounded` says what that costs: CPU runs beyond
  the limit of `inference.py:6` only by calls that lost the race.
- A GPU answer of an unexpected shape (`inference.py:119`) raises what the breaker
  does not count, and the CPU is not tried (`GpuBreaks`).
- The guard of the own model's deadline can fire before any timeout of httpx
  without the event loop being late, since each phase of an attempt gets the
  whole time that was left at its start (`vlm_client.py:38`).
- After a swallowed cancellation a Gemini attempt has no timeout left
  (`gemini_client.py:57`).
- A forecast answer of an unexpected shape fails the whole trigger
  (`precheck_service.py:118`), and a refused connection in the run by the rules
  the whole request (`trip_orchestrator.py:97`).
- A crash after the row of a place and before its types leaves the place without
  them for good (`collect_places.py:503`), since a rerun finds the row
  (`collect_places.py:498` wants the whole array); `PlacesWhole` bounds the
  damage.
- An evening place counts toward the slots a valid model trip needs
  (`trip_orchestrator.py:60`), so that it can make up for a missing dinner,
  against the comment at `trip_orchestrator.py:56`.
- Places of equal score have no defined order in the query
  (`place_selection.py:126`), so that LIMIT and the seeded choice may differ from
  one call to the next.
- `int(width)` at `generation.py:108` raises for text, although the docstring
  (`generation.py:97`) says that wrong input is answered and nothing raised;
  `Receive` then ends in "raised".
- An empty dev part gives a loss of 0 (`train.py:69`), and a loss that is no
  number is never better than another (`train.py:122`): a run that diverges at
  once ends without a model file but with its meta file.
- `package_bundle.py` writes two files and asks only whether the folder exists:
  a death between them leaves a bundle that cannot be completed without removing
  it. The worker does not start from it.
- `DictionaryFits` needs that no script died: `rqvae.py` asks only for its last
  file, so that a rerun over a grown table leaves a dictionary of the first
  coding beside codes of the second.

## 6. Not modelled

| part | reason |
|---|---|
| `app/main.py`, `app/core` | Straight-line checks and text without state; the settings they let through are assumptions of PhotoVerify. |
| one-day functions of `model/selection.py` | Not on the path of a request any more; the itinerary is `Itinerary`. |
| what a model computes (`rqvae.py`, `model.py`, `embed.py`) | Numbers; a free choice in SemanticId and Itinerary. |
| texts (`text.py`, `place_text.py`, prompts), raw travel logs (`loader.py`) | Wording and parsing. |
| `sample_places` of `generate_eval_missions.py`, `--same-as` of `baseline_verify.py`; a death within the split file of `split_eval.py` or within a line of a file that is continued | One-off choices made by hand, whose results are read by a person before they are used. |
| paging and parsing in `kma_client.py` | One fetch is one step of Precheck. |
| timing, tables and checks (`measure_trip_plans.py`, `bench_*`, `eval_codes.py`, `eval_retrieval.py` and their like) | They read and print; nothing reads what they leave. |
| scores of `group_score.py` | A constant ranking in TripSelection. |
| schemas, prompts, deployment, SQL schema | Declarations. |

## 7. Plan

The parts that several actors share came first (generation, routing, cache,
pool), then crash recovery (collector), then the long sequential paths
(selection, verification), and then the scripts: training data, evaluation, and
the version folder with the worker that serves it. Next:

1. **Abstract specifications** of the server's parts: a counting semaphore that
   PhotoGenerate implements, and "three plans or an error" for TripPlans.
2. **Composition of decoding and selection**: the search of Itinerary in
   TripSelection in place of the free choice.
3. **Start-up** (`app/main.py`): the order of opening and closing what the
   requests share.
