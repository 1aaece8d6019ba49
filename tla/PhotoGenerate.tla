--------------------------- MODULE PhotoGenerate ---------------------------
(***************************************************************************)
(* Concurrent generation of photo missions                                 *)
(* (src/app/photomissions/pipeline_generate.py and gemini_client.py).      *)
(*                                                                         *)
(* A request splits its places into chunks and starts up to MaxCalls       *)
(* worker tasks, which take the chunks one after the other from a shared   *)
(* iterator and call Gemini while holding one slot of a semaphore shared   *)
(* by all requests of the process.  The request's task (the parent) waits  *)
(* for its workers, under a deadline and possibly an outer cancellation,   *)
(* and leaves the workers it abandons to a cleanup task.                   *)
(*                                                                         *)
(* One event loop runs everything, so an action is what one task does      *)
(* between two awaits.  The order in which ready tasks run is left open.   *)
(***************************************************************************)
EXTENDS Integers, FiniteSets, Sequences, SequencesExt

CONSTANTS
    Requests,        \* requests to generate missions
    Chunks,          \* Chunks[r]: number of chunks split_places makes of r
    MaxCalls,        \* MAX_CONCURRENT_CALLS: slots, and workers of a request
    MaxAttempts,     \* MAX_ATTEMPTS of generate_structured
    ErrorKinds,      \* the kinds of failure a Gemini attempt may meet
    CancelMayRaise   \* may cancelling a Gemini call raise another exception?

ASSUME ConstantsOK ==
    /\ IsFiniteSet(Requests)
    /\ Chunks \in [Requests -> Nat \ {0}]
    /\ MaxCalls \in Nat \ {0}
    /\ MaxAttempts \in Nat \ {0}
    /\ ErrorKinds \subseteq {"429", "502", "504", "bug"}
    /\ CancelMayRaise \in BOOLEAN

VARIABLES
    at,        \* at[w]: where worker task w is
    chunk,     \* chunk[w]: the chunk w took last, 0 before the first
    attempts,  \* attempts[w]: Gemini attempts of the call w is in, else 0
    asked,     \* workers with a cancel() not yet delivered
    sem,       \* the semaphore _call_slots
    todo,      \* todo[r]: the next chunk the iterator of r yields
    trace,     \* trace[r][c]: ChunkTrace.status, a failure by its kind
    parent,    \* parent[r]: where the task of the request is
    cancels,   \* cancels[r]: who cancelled the parent so far
    pending,   \* requests whose parent has a cancel() not yet delivered
    carrying,  \* requests whose parent is unwinding a CancelledError
    cleanup,   \* cleanup[r]: the task running _stop_workers
    outcome    \* outcome[r]: how generate_missions ended

vars == <<at, chunk, attempts, asked, sem, todo, trace, parent, cancels,
          pending, carrying, cleanup, outcome>>
workerVars == <<at, chunk, attempts, sem, todo, trace>>
parentVars == <<parent, cancels, pending, carrying, cleanup, outcome>>
-----------------------------------------------------------------------------
SmallerOf(m, n) == IF m < n THEN m ELSE n

Workers == Requests \X (1..MaxCalls)

\* The workers request w[1] creates: one per chunk, at most MaxCalls.
OwnWorkers(r) == {r} \X (1..SmallerOf(MaxCalls, Chunks[r]))

HttpFailures == {"429", "502", "504"}
Failures == HttpFailures \cup {"bug"}
Ended == {"returned", "http", "bug", "cancelled"}
Places == {"absent", "created", "waiting", "running"} \cup Ended
Statuses == {"not_started", "waiting", "running", "ok", "cancelled"} \cup Failures
Outcomes == {"none", "200", "500", "cancelled"} \cup HttpFailures

AllEnded(r) == \A w \in OwnWorkers(r) : at[w] \in Ended
Running == {w \in Workers : at[w] = "running"}
-----------------------------------------------------------------------------
(***************************************************************************)
(* asyncio.Semaphore: free permits, the FIFO of waiting futures and those  *)
(* of them that were already given a permit.  The future of a waiter that  *)
(* was cancelled before it was given one is dead: it stays in the queue    *)
(* until its task runs, but nobody wakes it.                               *)
(***************************************************************************)
Dead(s, w) == w \in asked /\ w \notin s.granted

Wakeable(s) == {w \in Range(s.waiters) : w \notin s.granted /\ w \notin asked}

FirstWakeable(s) ==
    s.waiters[SelectInSeq(s.waiters, LAMBDA w : w \in Wakeable(s))]

WakeNext(s) ==
    IF Wakeable(s) = {} THEN s
    ELSE [s EXCEPT !.free = @ - 1, !.granted = @ \cup {FirstWakeable(s)}]

Release(s) == WakeNext([s EXCEPT !.free = @ + 1])

Locked(s) == s.free = 0 \/ \E w \in Range(s.waiters) : ~Dead(s, w)

Leave(s, w) ==
    [free |-> s.free, waiters |-> RemoveFirst(s.waiters, w),
     granted |-> s.granted \ {w}]
-----------------------------------------------------------------------------
(***************************************************************************)
(* Worker tasks.                                                           *)
(***************************************************************************)
SetTrace(tr, w, status) == [tr EXCEPT ![w[1]][chunk[w]] = status]

\* The head of the worker's loop, up to its next await: take the next chunk
\* of the request and enter the semaphore, or return when there is none.
TakeNext(w, s, tr) ==
    LET r == w[1]
        c == todo[r]
    IN  \/ /\ c > Chunks[r]
           /\ at' = [at EXCEPT ![w] = "returned"]
           /\ sem' = s
           /\ trace' = tr
           /\ attempts' = [attempts EXCEPT ![w] = 0]
           /\ UNCHANGED <<chunk, todo>>
        \/ /\ c <= Chunks[r]
           /\ todo' = [todo EXCEPT ![r] = c + 1]
           /\ chunk' = [chunk EXCEPT ![w] = c]
           /\ \/ /\ Locked(s)
                 /\ at' = [at EXCEPT ![w] = "waiting"]
                 /\ sem' = [s EXCEPT !.waiters = Append(@, w)]
                 /\ trace' = [tr EXCEPT ![r][c] = "waiting"]
                 /\ attempts' = [attempts EXCEPT ![w] = 0]
              \/ /\ ~Locked(s)
                 /\ at' = [at EXCEPT ![w] = "running"]
                 /\ sem' = [s EXCEPT !.free = @ - 1]
                 /\ trace' = [tr EXCEPT ![r][c] = "running"]
                 /\ attempts' = [attempts EXCEPT ![w] = 1]

WorkerStart(w) ==
    /\ at[w] = "created"
    /\ TakeNext(w, sem, trace)
    /\ UNCHANGED <<asked, parentVars>>

\* Mutant: a woken waiter does not pass the wake-up on.
GetSlotKeepsWakeup(w) ==
    /\ at[w] = "waiting"
    /\ w \in sem.granted
    /\ w \notin asked
    /\ sem' = Leave(sem, w)
    /\ at' = [at EXCEPT ![w] = "running"]
    /\ attempts' = [attempts EXCEPT ![w] = 1]
    /\ trace' = SetTrace(trace, w, "running")
    /\ UNCHANGED <<chunk, todo, asked, parentVars>>

\* The future of a waiter completed: it leaves the queue with its permit and
\* wakes the next waiter if permits are left.
GetSlot(w) ==
    /\ at[w] = "waiting"
    /\ w \in sem.granted
    /\ w \notin asked
    /\ sem' = LET s == Leave(sem, w) IN IF s.free > 0 THEN WakeNext(s) ELSE s
    /\ at' = [at EXCEPT ![w] = "running"]
    /\ attempts' = [attempts EXCEPT ![w] = 1]
    /\ trace' = SetTrace(trace, w, "running")
    /\ UNCHANGED <<chunk, todo, asked, parentVars>>

\* Mutant: a cancelled waiter keeps the permit it was just given.
CancelWaitingLeaks(w) ==
    /\ at[w] = "waiting"
    /\ w \in asked
    /\ sem' = Leave(sem, w)
    /\ at' = [at EXCEPT ![w] = "cancelled"]
    /\ asked' = asked \ {w}
    /\ trace' = SetTrace(trace, w, "cancelled")
    /\ UNCHANGED <<chunk, attempts, todo, parentVars>>

\* A cancelled waiter leaves the queue; a permit it was given goes back.
CancelWaiting(w) ==
    /\ at[w] = "waiting"
    /\ w \in asked
    /\ sem' = IF w \in sem.granted THEN Release(Leave(sem, w)) ELSE Leave(sem, w)
    /\ at' = [at EXCEPT ![w] = "cancelled"]
    /\ asked' = asked \ {w}
    /\ trace' = SetTrace(trace, w, "cancelled")
    /\ UNCHANGED <<chunk, attempts, todo, parentVars>>

\* Mutant: the chunk's trace is not closed when the call ends badly.
EndCallUntraced(w, place, status) ==
    /\ at' = [at EXCEPT ![w] = place]
    /\ sem' = Release(sem)
    /\ attempts' = [attempts EXCEPT ![w] = 0]
    /\ UNCHANGED <<chunk, todo, trace>>

\* The worker leaves `async with slots` with an exception and its task ends.
EndCall(w, place, status) ==
    /\ at' = [at EXCEPT ![w] = place]
    /\ sem' = Release(sem)
    /\ trace' = SetTrace(trace, w, status)
    /\ attempts' = [attempts EXCEPT ![w] = 0]
    /\ UNCHANGED <<chunk, todo>>

\* generate_structured tries again, holding its slot.
Retry(w) ==
    /\ attempts' = [attempts EXCEPT ![w] = @ + 1]
    /\ UNCHANGED <<at, chunk, sem, todo, trace>>

\* A batch that covers every place: release the slot and go on.
CallSucceeds(w) ==
    /\ at[w] = "running"
    /\ w \notin asked
    /\ TakeNext(w, Release(sem), SetTrace(trace, w, "ok"))
    /\ UNCHANGED <<asked, parentVars>>

\* A failed attempt; `kind` is what write_descriptions would make of it.
\* 429 is never retried.
AttemptFails(w, kind) ==
    IF kind # "429" /\ attempts[w] < MaxAttempts
    THEN Retry(w)
    ELSE EndCall(w, IF kind = "bug" THEN "bug" ELSE "http", kind)

CallFails(w, kind) ==
    /\ at[w] = "running"
    /\ w \notin asked
    /\ AttemptFails(w, kind)
    /\ UNCHANGED <<asked, parentVars>>

\* The CancelledError passes generate_structured, which catches Exception.
CancelRunning(w) ==
    /\ at[w] = "running"
    /\ w \in asked
    /\ asked' = asked \ {w}
    /\ EndCall(w, "cancelled", "cancelled")
    /\ UNCHANGED parentVars

\* Closing the cancelled call raises an exception of its own instead: the
\* retry loop treats it like any failed attempt and the cancel is forgotten.
CancelRaises(w) ==
    /\ CancelMayRaise
    /\ at[w] = "running"
    /\ w \in asked
    /\ asked' = asked \ {w}
    /\ \E kind \in ErrorKinds : AttemptFails(w, kind)
    /\ UNCHANGED parentVars
-----------------------------------------------------------------------------
(***************************************************************************)
(* The task of a request and its cleanup task.                             *)
(***************************************************************************)
\* generate_missions up to asyncio.wait: the workers exist, none has run.
Arrive(r) ==
    /\ parent[r] = "new"
    /\ parent' = [parent EXCEPT ![r] = "waiting"]
    /\ at' = [w \in Workers |-> IF w \in OwnWorkers(r) THEN "created" ELSE at[w]]
    /\ UNCHANGED <<chunk, attempts, asked, sem, todo, trace, cancels, pending,
                   carrying, cleanup, outcome>>

\* The deadline's timer or an outer cancel() reaches the parent's task.
CancelParent(r, by) ==
    /\ parent[r] \in {"waiting", "cleanup"}
    /\ by \notin cancels[r]
    /\ cancels' = [cancels EXCEPT ![r] = @ \cup {by}]
    /\ pending' = pending \cup {r}
    /\ UNCHANGED <<workerVars, asked, parent, carrying, cleanup, outcome>>

EnterCleanup(r) ==
    /\ parent' = [parent EXCEPT ![r] = "cleanup"]
    /\ cleanup' = [cleanup EXCEPT ![r] = "created"]
    /\ UNCHANGED <<workerVars, asked, cancels, outcome>>

\* asyncio.wait(FIRST_EXCEPTION) returns: all workers ended, or one of them
\* with an exception (a cancelled worker does not count as one).
WorkersWake(r) ==
    /\ parent[r] = "waiting"
    /\ r \notin pending
    /\ \/ AllEnded(r)
       \/ \E w \in OwnWorkers(r) : at[w] \in {"http", "bug"}
    /\ EnterCleanup(r)
    /\ UNCHANGED <<pending, carrying>>

\* Mutant: an expired deadline is a 504 even if the caller cancelled as well.
CancelOutcomeDeadlineFirst(r) ==
    IF "deadline" \in cancels[r] THEN "504" ELSE "cancelled"

\* A CancelledError leaves asyncio.timeout: TimeoutError, hence 504, when the
\* deadline was the only one to cancel; otherwise it stays a cancellation.
CancelOutcome(r) == IF "outer" \in cancels[r] THEN "cancelled" ELSE "504"

Failed(r, kinds) == {c \in 1..Chunks[r] : trace[r][c] \in kinds}

\* pick_failure: a 429 if there is one, else the failure of the lowest chunk.
PickFailure(r) ==
    IF Failed(r, {"429"}) # {} THEN "429"
    ELSE trace[r][CHOOSE c \in Failed(r, HttpFailures) :
                      \A d \in Failed(r, HttpFailures) : c <= d]

\* After the cleanup: program errors first, then a chunk's failure, then the
\* batches, which assemble_missions zips strictly with the chunks.
WorkersOutcome(r) ==
    IF \E w \in OwnWorkers(r) : at[w] = "bug" THEN "500"
    ELSE IF Failed(r, HttpFailures) # {} THEN PickFailure(r)
    ELSE IF \A c \in 1..Chunks[r] : trace[r][c] = "ok" THEN "200"
    ELSE "500"

Finish(r, result) ==
    /\ parent' = [parent EXCEPT ![r] = "finished"]
    /\ outcome' = [outcome EXCEPT ![r] = result]
    /\ UNCHANGED <<workerVars, asked, cancels, cleanup>>

\* The parent runs with a cancel pending: it unwinds into the finally block,
\* or, already there, out of the shield while the cleanup task goes on.
ParentCancelled(r) ==
    /\ r \in pending
    /\ pending' = pending \ {r}
    /\ \/ /\ parent[r] = "waiting"
          /\ carrying' = carrying \cup {r}
          /\ EnterCleanup(r)
       \/ /\ parent[r] = "cleanup"
          /\ carrying' = carrying
          /\ Finish(r, CancelOutcome(r))

\* Mutant: the parent does not wait for the cleanup task.
ParentReturnsEarly(r) ==
    /\ parent[r] = "cleanup"
    /\ r \notin pending
    /\ Finish(r, IF r \in carrying THEN CancelOutcome(r) ELSE WorkersOutcome(r))
    /\ UNCHANGED <<pending, carrying>>

\* The cleanup task reported: the CancelledError goes on, or the result is used.
ParentReturns(r) ==
    /\ parent[r] = "cleanup"
    /\ cleanup[r] = "done"
    /\ r \notin pending
    /\ Finish(r, IF r \in carrying THEN CancelOutcome(r) ELSE WorkersOutcome(r))
    /\ UNCHANGED <<pending, carrying>>

\* Mutant: the cleanup waits for the workers without cancelling them.
StopWorkersGently(r) ==
    /\ cleanup[r] = "created"
    /\ \A w \in OwnWorkers(r) : at[w] # "created"
    /\ cleanup' = [cleanup EXCEPT ![r] = "stopping"]
    /\ UNCHANGED <<workerVars, asked, parent, cancels, pending, carrying, outcome>>

\* First step of _stop_workers.  The loop runs new tasks in creation order, so
\* the workers had their first step before it.
StopWorkers(r) ==
    /\ cleanup[r] = "created"
    /\ \A w \in OwnWorkers(r) : at[w] # "created"
    /\ cleanup' = [cleanup EXCEPT ![r] = "stopping"]
    /\ asked' = asked \cup {w \in OwnWorkers(r) : at[w] \notin Ended}
    /\ UNCHANGED <<workerVars, parent, cancels, pending, carrying, outcome>>

WorkersStopped(r) ==
    /\ cleanup[r] = "stopping"
    /\ AllEnded(r)
    /\ cleanup' = [cleanup EXCEPT ![r] = "done"]
    /\ UNCHANGED <<workerVars, asked, parent, cancels, pending, carrying, outcome>>
-----------------------------------------------------------------------------
Init ==
    /\ at = [w \in Workers |-> "absent"]
    /\ chunk = [w \in Workers |-> 0]
    /\ attempts = [w \in Workers |-> 0]
    /\ asked = {}
    /\ sem = [free |-> MaxCalls, waiters |-> <<>>, granted |-> {}]
    /\ todo = [r \in Requests |-> 1]
    /\ trace = [r \in Requests |-> [c \in 1..Chunks[r] |-> "not_started"]]
    /\ parent = [r \in Requests |-> "new"]
    /\ cancels = [r \in Requests |-> {}]
    /\ pending = {}
    /\ carrying = {}
    /\ cleanup = [r \in Requests |-> "none"]
    /\ outcome = [r \in Requests |-> "none"]

\* A step of the worker's task other than an answer of Gemini.
WorkerStep(w) ==
    WorkerStart(w) \/ GetSlot(w) \/ CancelWaiting(w) \/ CancelRunning(w)

GeminiStep(w) == CallSucceeds(w) \/ \E kind \in ErrorKinds : CallFails(w, kind)

ParentStep(r) ==
    WorkersWake(r) \/ ParentCancelled(r) \/ ParentReturns(r)

CleanupStep(r) == StopWorkers(r) \/ WorkersStopped(r)

\* Every request was answered and nothing is left to clean up.
Quiet ==
    /\ \A r \in Requests : parent[r] = "finished" /\ cleanup[r] = "done"
    /\ UNCHANGED vars

Next ==
    \/ \E w \in Workers : WorkerStep(w) \/ GeminiStep(w) \/ CancelRaises(w)
    \/ \E r \in Requests :
          \/ Arrive(r) \/ ParentStep(r) \/ CleanupStep(r)
          \/ \E by \in {"deadline", "outer"} : CancelParent(r, by)
    \/ Quiet

Spec == Init /\ [][Next]_vars

\* The event loop runs every ready task and timer.  Nothing is assumed about
\* Gemini: a call may hang, only the deadline is sure to come.
Fairness ==
    /\ \A w \in Workers : WF_vars(WorkerStep(w))
    /\ \A r \in Requests : /\ WF_vars(ParentStep(r))
                           /\ WF_vars(CleanupStep(r))
                           /\ WF_vars(CancelParent(r, "deadline"))

FairSpec == Spec /\ Fairness
-----------------------------------------------------------------------------
(***************************************************************************)
(* Properties.                                                             *)
(***************************************************************************)
\* Every variable keeps its shape.
TypeOK ==
    /\ at \in [Workers -> Places]
    /\ chunk \in [Workers -> Nat]
    /\ attempts \in [Workers -> 0..MaxAttempts]
    /\ asked \subseteq Workers
    /\ sem \in [free : 0..MaxCalls, waiters : Seq(Workers), granted : SUBSET Workers]
    /\ todo \in [Requests -> Nat]
    /\ DOMAIN trace = Requests
    /\ \A r \in Requests : trace[r] \in [1..Chunks[r] -> Statuses]
    /\ parent \in [Requests -> {"new", "waiting", "cleanup", "finished"}]
    /\ cancels \in [Requests -> SUBSET {"deadline", "outer"}]
    /\ pending \subseteq Requests
    /\ carrying \subseteq Requests
    /\ cleanup \in [Requests -> {"none", "created", "stopping", "done"}]
    /\ outcome \in [Requests -> Outcomes]

\* A permit of the process-wide semaphore is free, on its way to one waiter,
\* or held by one running call: no cancellation, failure or retry, in any
\* order, loses a permit or hands it out twice.
PermitsConserved ==
    /\ sem.granted \cap Running = {}
    /\ sem.free + Cardinality(sem.granted \cup Running) = MaxCalls

\* However many requests there are, no more than MAX_CONCURRENT_CALLS of them
\* call Gemini at the same time.
CallLimit == Cardinality(Running) <= MaxCalls

\* While a permit is free, a live waiter is left waiting only when another one
\* was just woken and will pass the wake-up on: no wake-up is lost.
NoLostWakeup ==
    sem.free > 0 /\ Wakeable(sem) # {} => sem.granted # {}

\* A chunk that is in the traces as waiting or running is the chunk of exactly
\* one worker in that place, and no worker is on a chunk that is settled: the
\* shared iterator never hands out a chunk twice.
OneWorkerPerChunk ==
    \A r \in Requests : \A c \in 1..Chunks[r] :
        LET on == {w \in OwnWorkers(r) : at[w] \in {"waiting", "running"} /\ chunk[w] = c}
        IN  IF trace[r][c] \in {"waiting", "running"}
            THEN \E w \in on : on = {w} /\ at[w] = trace[r][c]
            ELSE on = {}

\* What the client of r is told agrees with what happened to the chunks of r.
Explained(r) ==
    LET was(kind) == Failed(r, {kind}) # {}
        result == outcome[r]
    IN  /\ result = "200" => Failed(r, {"ok"}) = 1..Chunks[r]
        /\ result = "429" => was("429") /\ ~was("bug")
        /\ result = "502" => was("502") /\ ~was("429") /\ ~was("bug")
        /\ result = "504" =>
              \/ "deadline" \in cancels[r]
              \/ was("504") /\ ~was("429") /\ ~was("bug")
        /\ result = "500" => was("bug")

\* A 200 has every batch, a program error is never hidden behind an HTTP
\* status unless the request was cut short, and 500 needs one.
OutcomeExplained == \A r \in Requests : Explained(r)

\* An outer cancellation is never turned into an HTTP answer, whatever chunk
\* failure or deadline it meets.
OuterCancelPropagates ==
    \A r \in Requests :
        /\ "outer" \in cancels[r] => outcome[r] \in {"none", "cancelled"}
        /\ outcome[r] = "cancelled" => "outer" \in cancels[r]

\* Both, whatever comes first.
OutcomeRight == OutcomeExplained /\ OuterCancelPropagates

\* A request that was answered without a cancellation left no worker behind;
\* one that left early has a cleanup task that still looks after its workers.
NoStrayWorker ==
    \A r \in Requests : parent[r] = "finished" /\ ~AllEnded(r) =>
        /\ cancels[r] # {}
        /\ cleanup[r] \in {"created", "stopping"}

\* No request needs Gemini or another request to come to its end: before its
\* cleanup the deadline is still to come or a cancellation on its way, and the
\* cleanup has told every worker that had not ended to stop.
NeedsNobody ==
    \A r \in Requests :
        /\ parent[r] = "waiting" => "deadline" \notin cancels[r] \/ r \in pending
        /\ parent[r] = "cleanup" => cleanup[r] # "none"
        /\ cleanup[r] = "stopping" => \A w \in OwnWorkers(r) :
              at[w] \in Ended \/ (at[w] \in {"waiting", "running"} /\ w \in asked)

\* Every request that arrives is answered, even if Gemini never answers.
RequestAnswered ==
    \A r \in Requests : parent[r] = "waiting" ~> parent[r] = "finished"

\* Every permit comes back once the requests are over, also those of workers
\* whose parent left before them.
PermitsReturn == <>[](sem.free = MaxCalls /\ sem.waiters = <<>>)

\* No request waits for good and no call slot stays away for good.
EverythingServed == RequestAnswered /\ PermitsReturn
=============================================================================
