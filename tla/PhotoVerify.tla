----------------------------- MODULE PhotoVerify -----------------------------
(***************************************************************************)
(* Judging one photo (src/app/photomissions/pipeline_verify.py,            *)
(* vlm_client.py, question_format.py).                                     *)
(*                                                                         *)
(* A request is checked, its photo is fetched, and a model judges it: the  *)
(* server's own one ("self"), Gemini, or Gemini after "self" failed.  Each *)
(* call is bounded by timers.  Time is counted in ticks from the entry of  *)
(* the model stage.  A timer fires when it is due or, if the event loop is *)
(* busy, up to lag ticks later.                                            *)
(*                                                                         *)
(* Requests share the HTTP client only: what others do shows as a wait for *)
(* a connection of any length, so one request is enough.                   *)
(***************************************************************************)
EXTENDS Integers, FiniteSets

CONSTANTS
    Budget,          \* VERIFY_MODEL_BUDGET_SECONDS, where it is set
    OwnDeadlines,    \* values of VLM_DEADLINE_SECONDS
    GeminiDeadline,  \* VERIFY_GEMINI_DEADLINE_SECONDS
    Reserve,         \* MIN_GEMINI_START_BUDGET_SECONDS
    Margin, Guard,   \* BUDGET_MARGIN_SECONDS, DEADLINE_GUARD
    PoolTimeout, ConnectTimeout, WriteTimeout,
    MaxLag,          \* bound on the lag
    MaxScore,        \* match_score is in 0..MaxScore
    SelfScale, GeminiScale,   \* thresholds: [success, retry]
    None

\* What check_settings lets through, and the constants of vlm_client.
ASSUME VerifyOK ==
    /\ {Budget, GeminiDeadline, Reserve, Margin, Guard} \subseteq Nat \ {0}
    /\ {PoolTimeout, ConnectTimeout, WriteTimeout} \subseteq Nat \ {0}
    /\ OwnDeadlines \subseteq Nat \ {0}
    /\ {MaxLag, MaxScore} \subseteq Nat
    /\ Guard <= Margin
    /\ Budget - Reserve - Margin >= ConnectTimeout
    /\ {SelfScale, GeminiScale} \subseteq [success : 0..MaxScore, retry : 0..MaxScore]
    /\ None \notin Int \cup {"self", "gemini", "location_mismatch", "success"}

VARIABLES
    settings,    \* the settings the server was started with
    lag,         \* how late its event loop may be
    phase,       \* what the request is doing
    now,         \* ticks since the model stage was entered
    attempts,    \* trace["attempts"]
    left,        \* time left when the attempt began
    due,         \* when the timer of this phase of the attempt is due
    lastError,   \* trace["last_error"]
    route,       \* VerifyTrace.route
    fallback,    \* fallback_attempted, _succeeded, _skip_reason in one
    selfStatus,  \* VerifyTrace.self_error_status
    answeredBy,  \* VerifyTrace.answered_by
    vlm,         \* what the model answered
    end,         \* the answer of the server
    geminiAt     \* history: when Gemini was asked

config == <<settings, lag>>
timing == <<attempts, left, due, lastError>>
log == <<route, fallback, selfStatus, answeredBy>>
vars == <<config, phase, now, timing, log, vlm, end, geminiAt>>
-----------------------------------------------------------------------------
(***************************************************************************)
(* Grades.                                                                 *)
(***************************************************************************)
Null == "null"
Answers == [judgeable : {"yes", "no"}, target : {"enough", "short", "none", Null},
            condition : {"yes", "no", "na", Null}, place : {"yes", "no", "unknown", "na", Null}]
Scores == [score : 0..MaxScore]

\* Mutant: questions that could be asked may be left blank.
ValidIfJudgeable(a) == a.judgeable = "yes" => a.target # Null

\* QuestionAnswer._answered_what_can_be_asked
Valid(a) ==
    /\ a.judgeable = "yes" => a.target # Null /\ a.place # Null
    /\ a.target \in {"enough", "short"} => a.condition # Null

RuleGrade(a) ==
    CASE a.judgeable = "no" \/ a.place = "no" \/ a.target = "none"         -> "fail"
      [] OTHER -> IF a.target = "short" \/ a.condition = "no" \/ a.place = "unknown"
                  THEN "retry" ELSE "success"

ToGrade(score, scale) ==
    IF score >= scale.success THEN "success" ELSE IF score >= scale.retry THEN "retry" ELSE "fail"

ThresholdsFor(by) == IF by = "self" THEN SelfScale ELSE GeminiScale

\* _verify after score_photo: the kind of the answer decides how it is graded.
Grade(answer, by) ==
    IF answer \in Scores THEN ToGrade(answer.score, ThresholdsFor(by)) ELSE RuleGrade(answer)
-----------------------------------------------------------------------------
(***************************************************************************)
(* Deadlines and timers.                                                   *)
(***************************************************************************)
SelfPhases == {"pool", "connect", "write", "read"}
ModelPhases == SelfPhases \cup {"gemini"}
Phases == {"source", "download", "ended"} \cup ModelPhases

Least(a, b) == IF a <= b THEN a ELSE b

\* Mutant: the own model may wait until the end of the budget.
SelfDeadlineGreedy == IF settings.fallback THEN Least(settings.own, Budget) ELSE settings.own

\* What the share of Gemini leaves.
SelfShare == Budget - Reserve - Margin

\* The deadline of vlm_client.score.
SelfDeadline ==
    IF settings.fallback THEN Least(settings.own, SelfShare) ELSE settings.own

Remaining == SelfDeadline - now

\* The timeout of each phase of an attempt; reading has no other limit than
\* the time left.
TimeoutOf(p, remaining) ==
    CASE p = "pool"    -> Least(PoolTimeout, remaining)
      [] p = "connect" -> Least(ConnectTimeout, remaining)
      [] p = "write"   -> Least(WriteTimeout, remaining)
      [] p = "read"    -> remaining

\* The timeout around the whole model stage, if there is one.
StageGuarded == settings.backend = "gemini" \/ settings.fallback
StageDeadline == IF settings.backend = "gemini" THEN GeminiDeadline ELSE Budget + Guard

\* The timers that run.
Timers ==
    (IF phase \in SelfPhases THEN {due, SelfDeadline + Guard} ELSE {})
    \cup (IF StageGuarded THEN {StageDeadline} ELSE {})

\* The event loop runs a timer at most lag ticks late.
Tick ==
    /\ phase \in ModelPhases
    /\ \A d \in Timers : now < d + lag
    /\ now' = now + 1
    /\ UNCHANGED <<config, phase, timing, log, vlm, end, geminiAt>>
-----------------------------------------------------------------------------
(***************************************************************************)
(* Endings.                                                                *)
(***************************************************************************)
End(outcome, status, result, reason) ==
    /\ phase' = "ended"
    /\ end' = [outcome |-> outcome, status |-> status, result |-> result, reason |-> reason]
Fail(status) == End("error", status, None, None)

\* A model answered; nothing is awaited between this and the response.
Answered(answer, by) ==
    /\ answeredBy' = by
    /\ vlm' = answer
    /\ End("ok", 200, Grade(answer, by), None)
-----------------------------------------------------------------------------
(***************************************************************************)
(* Gemini, alone or as the fallback.                                       *)
(***************************************************************************)
AskGemini ==
    /\ phase' = "gemini"
    /\ geminiAt' = now
    /\ UNCHANGED end

\* Mutant: a fallback counts only once it has succeeded.
GeminiAnswersUncounted ==
    /\ phase = "gemini"
    /\ \E answer \in Scores : Answered(answer, "gemini")
    /\ UNCHANGED <<config, now, timing, route, fallback, selfStatus, geminiAt>>

GeminiAnswers ==
    /\ phase = "gemini"
    /\ \E answer \in Scores : Answered(answer, "gemini")
    /\ fallback' = IF fallback = "attempted" THEN "succeeded" ELSE fallback
    /\ UNCHANGED <<config, now, timing, route, selfStatus, geminiAt>>

\* _score_with_gemini maps 429, other API errors and unusable answers, and
\* HTTP timeouts; anything else leaves as it is, which the server answers
\* with 500.  (A TimeoutError of other origin gives 504 in the fallback.)
GeminiFails ==
    /\ phase = "gemini"
    /\ \E status \in {429, 502, 504, 500} : Fail(status)
    /\ UNCHANGED <<config, now, timing, log, vlm, geminiAt>>

\* Mutant: outside the serving hours Gemini is asked without a limit.
StageCutInHours ==
    /\ phase \in ModelPhases /\ StageGuarded /\ route # "off_hours"
    /\ now >= StageDeadline
    /\ Fail(504)
    /\ UNCHANGED <<config, now, timing, log, vlm, geminiAt>>

\* The timeout around the model stage cuts the call.
StageCut ==
    /\ phase \in ModelPhases /\ StageGuarded
    /\ now >= StageDeadline
    /\ Fail(504)
    /\ UNCHANGED <<config, now, timing, log, vlm, geminiAt>>
-----------------------------------------------------------------------------
(***************************************************************************)
(* The own model.                                                          *)
(***************************************************************************)
StartAttempt ==
    /\ attempts' = attempts + 1
    /\ left' = Remaining
    /\ phase' = "pool"
    /\ due' = now + TimeoutOf("pool", Remaining)
    /\ lastError' = None
    /\ UNCHANGED <<selfStatus, fallback, end, geminiAt>>

\* score raises an HTTPException; _with_fallback, if it is on, asks Gemini as
\* long as that has its share of the budget.  All statuses that score raises
\* are in FALLBACK_STATUSES.
SelfFails(status, error) ==
    /\ lastError' = error
    /\ UNCHANGED <<attempts, left, due>>
    /\ IF settings.fallback
       THEN /\ selfStatus' = status
            /\ IF Budget - now < Reserve
               THEN fallback' = "skipped" /\ Fail(status) /\ UNCHANGED geminiAt
               ELSE fallback' = "attempted" /\ AskGemini
       ELSE Fail(status) /\ UNCHANGED <<selfStatus, fallback, geminiAt>>

CanRetry == Remaining > 0 /\ Remaining > ConnectTimeout

\* _Retryable: a second attempt, or the 502 it carries.
RetryOrFail(error) ==
    IF attempts < 2 /\ CanRetry THEN StartAttempt ELSE SelfFails(502, error)

\* The attempt gets its connection (a kept one needs no connecting), sends the
\* photo and receives the answer, piece by piece.
Following(p) ==
    CASE p = "pool"    -> {"connect", "write"}
      [] p = "connect" -> {"connect", "write"}
      [] p = "write"   -> {"write", "read"}
      [] p = "read"    -> {"read"}

Advance ==
    /\ phase \in SelfPhases
    /\ \E p \in Following(phase) :
          /\ phase' = p
          /\ due' = now + TimeoutOf(p, left)
    /\ UNCHANGED <<config, now, attempts, left, lastError, log, vlm, end, geminiAt>>

\* _raise_transport_error, for the timeouts of httpx.
TimedOut ==
    /\ phase \in SelfPhases /\ now >= due
    /\ CASE phase = "pool"    -> SelfFails(503, "PoolTimeout")
         [] phase = "connect" -> RetryOrFail("ConnectTimeout")
         [] OTHER             -> SelfFails(504, "ReadTimeout")
    /\ UNCHANGED <<config, now, route, answeredBy, vlm>>

\* No connection, or it is lost.
TransportFails ==
    /\ phase \in SelfPhases \ {"pool"}
    /\ RetryOrFail("TransportError")
    /\ UNCHANGED <<config, now, route, answeredBy, vlm>>

\* A response that is no answer: 429, another 4xx, or a 5xx.
ErrorResponse ==
    /\ phase = "read"
    /\ SelfFails(429, None) \/ SelfFails(502, None) \/ RetryOrFail(None)
    /\ UNCHANGED <<config, now, route, answeredBy, vlm>>

\* A response with a content: _parse checks it against the format that was
\* asked for.
SelfResponds ==
    /\ phase = "read"
    /\ \/ \E answer \in (IF settings.format = "question" THEN Answers ELSE Scores) :
             /\ settings.format = "question" => Valid(answer)
             /\ Answered(answer, "self")
          /\ UNCHANGED <<timing, selfStatus, fallback, geminiAt>>
       \/ RetryOrFail("ValidationError") /\ UNCHANGED <<answeredBy, vlm>>
    /\ UNCHANGED <<config, now, route>>

\* The timeout around all attempts.
GuardCuts ==
    /\ phase \in SelfPhases
    /\ now >= SelfDeadline + Guard
    /\ SelfFails(504, "DeadlineExceeded")
    /\ UNCHANGED <<config, now, route, answeredBy, vlm>>

\* An error that is no HTTPException: it is not a case for the fallback.
SelfBreaks ==
    /\ phase \in SelfPhases
    /\ Fail(500)
    /\ UNCHANGED <<config, now, timing, log, vlm, geminiAt>>
-----------------------------------------------------------------------------
(***************************************************************************)
(* The request.                                                            *)
(***************************************************************************)
Ask(backend, path) ==
    /\ route' = path
    /\ IF backend = "self"
       THEN StartAttempt
       ELSE AskGemini /\ UNCHANGED <<timing, selfStatus, fallback>>

\* score_photo: which model is asked.  With a fallback, the own one only in its
\* serving hours; the clock is read this once.
ScorePhoto ==
    IF settings.backend = "gemini" THEN Ask("gemini", "gemini_backend")
    ELSE IF ~settings.fallback THEN Ask("self", "self")
    ELSE \/ Ask("self", "self")
         \/ Ask("gemini", "off_hours")

\* assert_allowed_source and is_clear_mismatch; urlparse raises on some URLs.
CheckSource ==
    /\ phase = "source"
    /\ \/ \E status \in {422, 500} : Fail(status)
       \/ End("ok", 200, "fail", "location_mismatch")
       \/ phase' = "download" /\ UNCHANGED end
    /\ UNCHANGED <<config, now, timing, log, vlm, geminiAt>>

\* fetch_image or prepare_image refuses the photo, or httpx refuses the URL
\* with an exception that is no HTTPError.
PhotoFails ==
    /\ phase = "download"
    /\ \E status \in {422, 500, 502, 504} : Fail(status)
    /\ UNCHANGED <<config, now, timing, log, vlm, geminiAt>>

PhotoReady ==
    /\ phase = "download"
    /\ ScorePhoto
    /\ UNCHANGED <<config, now, answeredBy, vlm>>

\* The task of the request is cancelled where it waits.
Cancel ==
    /\ phase \in {"download"} \cup ModelPhases
    /\ End("cancelled", None, None, None)
    /\ UNCHANGED <<config, now, timing, log, vlm, geminiAt>>
-----------------------------------------------------------------------------
Settings == [backend : {"gemini", "self"}, fallback : BOOLEAN,
             format : {"score", "question"}, own : OwnDeadlines]

Init ==
    /\ settings \in Settings
    /\ lag \in 0..MaxLag
    /\ phase = "source" /\ now = 0
    /\ attempts = 0 /\ left = 0 /\ due = 0 /\ lastError = None
    /\ route = "not_started" /\ fallback = "no"
    /\ selfStatus = None /\ answeredBy = None
    /\ vlm = None /\ end = None /\ geminiAt = None

SelfCall == Advance \/ TimedOut \/ TransportFails \/ ErrorResponse
            \/ SelfResponds \/ GuardCuts \/ SelfBreaks
GeminiCall == GeminiAnswers \/ GeminiFails
Next == CheckSource \/ PhotoFails \/ PhotoReady \/ Cancel
        \/ SelfCall \/ GeminiCall \/ StageCut \/ Tick

Spec == Init /\ [][Next]_vars

\* Time passes and due timers fire.  Neither model is assumed to answer.
FairSpec == Spec /\ WF_vars(Tick) /\ WF_vars(TimedOut) /\ WF_vars(GuardCuts) /\ WF_vars(StageCut)
-----------------------------------------------------------------------------
\* The model stage keeps its limit, retries, fallback and piecemeal responses
\* included: "retries together", as the comment on score says, and "the own
\* model and Gemini only run within this deadline" (_with_fallback).
AnsweredInTime ==
    /\ phase \in SelfPhases => now <= settings.own + Guard + lag
    /\ settings.backend = "gemini" => now <= GeminiDeadline + lag
    /\ settings.backend = "self" /\ settings.fallback => now <= Budget + Guard + lag
    /\ settings.backend = "self" /\ ~settings.fallback => now <= settings.own + Guard + lag

\* The share of the budget that is kept for Gemini: as a fallback it is asked
\* with the whole share left, and a failure of the own model reaches the user
\* instead only if the event loop was later than the margin allows.
GeminiShareKept ==
    /\ fallback \in {"attempted", "succeeded"} => geminiAt + Reserve <= Budget
    /\ settings.fallback /\ lag <= Margin - Guard => fallback # "skipped"

\* The rate of fallbacks is counted from the log: its fields tell the models
\* that were really asked and the one that answered, however the request ended.
LogTellsPath ==
    /\ route = "not_started" <=> attempts = 0 /\ geminiAt = None
    /\ route = "self" <=> attempts > 0
    /\ fallback \in {"attempted", "succeeded"} <=> attempts > 0 /\ geminiAt # None
    /\ fallback = "succeeded" <=> attempts > 0 /\ answeredBy = "gemini"
    /\ phase = "ended" =>
          (end.outcome = "ok" <=> answeredBy # None \/ end.reason = "location_mismatch")

\* "A question that could be asked and is null would match no rule and be a
\* success" (question_format.py): no answer with such a blank passes a photo.
BlankNeverPasses ==
    phase = "ended" /\ end.result = "success" /\ vlm \in Answers =>
        Null \notin {vlm.judgeable, vlm.target, vlm.condition, vlm.place}

\* The model stage ends even if no model ever answers.
ModelStageEnds == phase \in ModelPhases ~> phase = "ended"

\* The model stage keeps its limit and ends, with or without an answer.
StageEndsInTime == []AnsweredInTime /\ ModelStageEnds
=============================================================================
