-------------------------- MODULE PhotoVerifyProofs --------------------------
(***************************************************************************)
(* Proofs about PhotoVerify: for all values of the timeouts and budgets    *)
(* that the server starts with.                                            *)
(***************************************************************************)
EXTENDS PhotoVerify, TLAPS

\* The constants and settings that the arithmetic is about.
Shapes ==
    /\ settings \in Settings /\ lag \in Nat /\ now \in Nat
    /\ attempts \in Nat
    /\ phase \in Phases

\* How far a request has got, by its phase.
Before == attempts = 0 /\ geminiAt = None /\ route = "not_started"
          /\ fallback = "no" /\ answeredBy = None
OnSelf == attempts > 0 /\ geminiAt = None /\ route = "self"
          /\ fallback = "no" /\ answeredBy = None /\ settings.backend = "self"
OnGemini ==
    /\ geminiAt # None /\ answeredBy = None /\ StageGuarded
    /\ route \in {"self", "off_hours", "gemini_backend"}
    /\ route = "self" <=> attempts > 0
    /\ IF attempts > 0 THEN fallback = "attempted" ELSE fallback = "no"

Progress ==
    /\ phase \in {"source", "download"} => Before /\ now = 0
    /\ phase \in SelfPhases => OnSelf
    /\ phase = "gemini" => OnGemini

\* The own model's deadline, which the share of Gemini depends on.
SelfInTime == phase \in SelfPhases => now <= SelfDeadline + Guard + lag

Inv == Shapes /\ Progress /\ SelfInTime /\ AnsweredInTime /\ GeminiShareKept /\ LogTellsPath
-----------------------------------------------------------------------------
\* The deadline of the own model is a time, and leaves Gemini its share.
LEMMA Deadlines ==
    ASSUME settings \in Settings
    PROVE  /\ SelfDeadline \in Int /\ settings.own \in Nat
           /\ SelfDeadline <= settings.own
           /\ settings.fallback => SelfDeadline <= Budget - Reserve - Margin
           /\ ~settings.fallback => SelfDeadline = settings.own
           /\ settings.fallback \in BOOLEAN /\ settings.backend \in {"gemini", "self"}
           /\ SelfDeadline >= 1
<1>1. settings.own \in Nat \ {0}
  BY VerifyOK DEF Settings
<1>2. Budget - Reserve - Margin \in Int /\ Budget - Reserve - Margin >= 1
  BY VerifyOK
<1> QED
  BY <1>1, <1>2 DEF SelfDeadline, SelfShare, Least, Settings

\* The invariant holds at the start.
LEMMA InitInv == Init => Inv
<1> SUFFICES ASSUME Init PROVE Inv
  OBVIOUS
<1>1. Shapes /\ Progress
  BY VerifyOK DEF Init, Shapes, Progress, Before, Phases, ModelPhases, SelfPhases
<1>2. SelfInTime /\ GeminiShareKept /\ LogTellsPath
  BY DEF Init, SelfInTime, GeminiShareKept, LogTellsPath, SelfPhases
<1>3. AnsweredInTime
  <2>1. settings.own \in Nat
    BY Deadlines DEF Init
  <2> QED
    BY <2>1, VerifyOK DEF Init, AnsweredInTime, SelfPhases
<1> QED
  BY <1>1, <1>2, <1>3 DEF Inv
-----------------------------------------------------------------------------
\* A step that leaves settings and clock alone keeps the limits of the stage,
\* if it does not start a call of the own model.
LEMMA LimitsStep ==
    ASSUME Inv, UNCHANGED <<settings, lag, now>>, phase' \in SelfPhases => phase \in SelfPhases
    PROVE  AnsweredInTime' /\ SelfInTime'
<1>1. SelfDeadline' = SelfDeadline
  BY DEF SelfDeadline
<1> QED
  BY <1>1 DEF Inv, AnsweredInTime, SelfInTime

\* An ending, whatever it is, that changes no field of the log.
LEMMA EndStep ==
    ASSUME Inv, NEW outcome, NEW status, NEW result, NEW reason,
           End(outcome, status, result, reason),
           UNCHANGED <<config, now, attempts, log, geminiAt>>,
           phase # "ended",
           outcome = "ok" <=> answeredBy # None \/ reason = "location_mismatch"
    PROVE  Inv'
<1>1. phase' = "ended" /\ end'.outcome = outcome /\ end'.reason = reason
  BY DEF End
<1>2. AnsweredInTime' /\ SelfInTime'
  BY <1>1, LimitsStep DEF config, SelfPhases
<1>3. Shapes' /\ Progress'
  BY <1>1 DEF Inv, Shapes, Progress, config, Phases, ModelPhases, SelfPhases
<1>4. GeminiShareKept' /\ LogTellsPath'
  BY <1>1 DEF Inv, GeminiShareKept, LogTellsPath, config, log
<1> QED
  BY <1>2, <1>3, <1>4 DEF Inv

\* An answer of a model.
LEMMA AnswerStep ==
    ASSUME Inv, NEW answer, NEW by, Answered(answer, by),
           UNCHANGED <<config, now, attempts, route, selfStatus, geminiAt>>,
           \/ phase \in SelfPhases /\ by = "self" /\ UNCHANGED fallback
           \/ /\ phase = "gemini" /\ by = "gemini"
              /\ fallback' = IF fallback = "attempted" THEN "succeeded" ELSE fallback
    PROVE  Inv'
<1>1. phase' = "ended" /\ end'.outcome = "ok" /\ end'.reason = None /\ answeredBy' = by
  BY DEF Answered, End
<1>2. AnsweredInTime' /\ SelfInTime'
  BY <1>1, LimitsStep DEF config, SelfPhases
<1>3. Shapes' /\ Progress'
  BY <1>1 DEF Inv, Shapes, Progress, config, Phases, ModelPhases, SelfPhases
<1>4. by # None /\ None # "location_mismatch"
  BY VerifyOK
<1>5. GeminiShareKept'
  BY DEF Inv, GeminiShareKept, Progress, OnSelf, OnGemini, config
<1>6. LogTellsPath'
  BY <1>1, <1>4 DEF Inv, LogTellsPath, Progress, OnSelf, OnGemini, SelfPhases
<1> QED
  BY <1>2, <1>3, <1>5, <1>6 DEF Inv

\* Gemini is asked.
LEMMA AskStep ==
    ASSUME Inv, AskGemini,
           UNCHANGED <<config, now, attempts, answeredBy>>, StageGuarded,
           \/ /\ phase = "download" /\ route' \in {"off_hours", "gemini_backend"}
              /\ UNCHANGED fallback
           \/ /\ phase \in SelfPhases /\ settings.fallback /\ UNCHANGED route
              /\ fallback' = "attempted" /\ now + Reserve <= Budget
    PROVE  Inv'
<1>1. phase' = "gemini" /\ geminiAt' = now /\ UNCHANGED end
  BY DEF AskGemini
<1>2. AnsweredInTime' /\ SelfInTime'
  BY <1>1, LimitsStep DEF config, SelfPhases
<1>3. now \in Nat /\ geminiAt' # None /\ StageGuarded'
  BY <1>1, VerifyOK DEF Inv, Shapes, StageGuarded, config
<1>4. Shapes' /\ Progress'
  BY <1>1, <1>3 DEF Inv, Shapes, Progress, Before, OnSelf, OnGemini, config, Phases, ModelPhases, SelfPhases
<1>5. GeminiShareKept'
  BY <1>1 DEF Inv, GeminiShareKept, Progress, Before, OnSelf, config
<1>6. LogTellsPath'
  BY <1>1, <1>3, VerifyOK DEF Inv, Shapes, LogTellsPath, Progress, Before, OnSelf
<1> QED
  BY <1>2, <1>4, <1>5, <1>6 DEF Inv

\* The own model fails: the time that its timers allow it decides what is left
\* for Gemini.
LEMMA SelfFailsStep ==
    ASSUME Inv, phase \in SelfPhases, NEW status, NEW error, SelfFails(status, error),
           UNCHANGED <<config, now, route, answeredBy, vlm>>
    PROVE  Inv'
<1>1. OnSelf /\ phase # "ended" /\ UNCHANGED attempts
  BY DEF Inv, Progress, SelfFails, SelfPhases
<1>2. CASE ~settings.fallback
  <2>1. Fail(status) /\ UNCHANGED <<selfStatus, fallback, geminiAt>>
    BY <1>2 DEF SelfFails
  <2>2. "error" # "ok" /\ answeredBy = None /\ None # "location_mismatch"
    BY <1>1, VerifyOK DEF OnSelf
  <2> QED
    BY <1>1, <2>1, <2>2, EndStep DEF Fail, log, config
<1>3. CASE settings.fallback /\ Budget - now < Reserve
  <2>1. fallback' = "skipped" /\ Fail(status) /\ UNCHANGED geminiAt
    BY <1>3 DEF SelfFails
  <2>2. phase' = "ended" /\ end'.outcome = "error" /\ end'.reason = None
    BY <2>1 DEF Fail, End
  <2>3. AnsweredInTime' /\ SelfInTime'
    BY <2>2, LimitsStep DEF config, SelfPhases
  <2>4. Shapes' /\ Progress'
    BY <1>1, <2>2 DEF Inv, Shapes, Progress, config, Phases, ModelPhases, SelfPhases
  <2>5. lag > Margin - Guard
    <3>1. now <= SelfDeadline + Guard + lag
      BY DEF Inv, SelfInTime
    <3>2. SelfDeadline \in Int /\ SelfDeadline <= Budget - Reserve - Margin
      BY <1>3, Deadlines DEF Inv, Shapes
    <3> QED
      BY <1>3, <3>1, <3>2, VerifyOK DEF Inv, Shapes
  <2>6. ~(lag <= Margin - Guard)
    BY <2>5, VerifyOK DEF Inv, Shapes
  <2>7. GeminiShareKept'
    BY <2>1, <2>6 DEF GeminiShareKept, config
  <2>8. LogTellsPath'
    BY <1>1, <2>1, <2>2, VerifyOK DEF LogTellsPath, OnSelf
  <2> QED
    BY <2>3, <2>4, <2>7, <2>8 DEF Inv
<1>4. CASE settings.fallback /\ ~(Budget - now < Reserve)
  <2>1. fallback' = "attempted" /\ AskGemini
    BY <1>4 DEF SelfFails
  <2>2. now + Reserve <= Budget
    BY <1>4, VerifyOK DEF Inv, Shapes
  <2>3. StageGuarded
    BY <1>4 DEF StageGuarded
  <2> QED
    BY <1>1, <1>4, <2>1, <2>2, <2>3, AskStep
<1> QED
  BY <1>2, <1>3, <1>4

\* An attempt begins, the first or the second.
LEMMA StartStep ==
    ASSUME Inv, StartAttempt, UNCHANGED <<config, now, answeredBy>>,
           \/ phase \in SelfPhases /\ UNCHANGED route
           \/ phase = "download" /\ route' = "self" /\ settings.backend = "self"
    PROVE  Inv'
<1>1. /\ attempts' = attempts + 1 /\ phase' = "pool"
      /\ UNCHANGED <<fallback, end, geminiAt>>
  BY DEF StartAttempt
<1>2. attempts' \in Nat /\ attempts' > 0
  BY <1>1 DEF Inv, Shapes
<1>3. Shapes' /\ Progress'
  BY <1>1, <1>2 DEF Inv, Shapes, Progress, Before, OnSelf, config, Phases, ModelPhases, SelfPhases
<1>4. AnsweredInTime' /\ SelfInTime'
  <2>1. CASE phase \in SelfPhases
    BY <2>1, LimitsStep DEF config
  <2>2. CASE phase = "download"
    <3>1. now' = 0 /\ lag' \in Nat /\ settings' \in Settings
      BY <2>2 DEF Inv, Progress, Shapes, config
    <3>2. SelfDeadline' \in Int /\ SelfDeadline' >= 1 /\ settings'.own \in Nat
      BY <3>1, Deadlines DEF SelfDeadline, config
    <3> QED
      BY <3>1, <3>2, VerifyOK DEF AnsweredInTime, SelfInTime
  <2> QED
    BY <2>1, <2>2
<1>5. GeminiShareKept'
  BY <1>1 DEF Inv, GeminiShareKept, config
<1>6. LogTellsPath'
  BY <1>1, <1>2, VerifyOK DEF Inv, LogTellsPath, Progress, Before, OnSelf
<1> QED
  BY <1>3, <1>4, <1>5, <1>6 DEF Inv

\* A retry, or a failure.
LEMMA RetryStep ==
    ASSUME Inv, phase \in SelfPhases, NEW error, RetryOrFail(error),
           UNCHANGED <<config, now, route, answeredBy, vlm>>
    PROVE  Inv'
BY StartStep, SelfFailsStep DEF RetryOrFail
-----------------------------------------------------------------------------
\* Every step keeps the invariant.
LEMMA NextInv == Inv /\ [Next]_vars => Inv'
<1> SUFFICES ASSUME Inv, [Next]_vars PROVE Inv'
  OBVIOUS
<1>1. CASE CheckSource
  <2>1. phase = "source" /\ Before /\ UNCHANGED <<config, now, attempts, log, geminiAt>>
    BY <1>1 DEF CheckSource, Inv, Progress, timing
  <2>2. CASE \E status \in {422, 500} : Fail(status)
    <3>1. PICK status : Fail(status)
      BY <2>2
    <3> QED
      BY <2>1, <3>1, EndStep, VerifyOK DEF Fail, Before
  <2>3. CASE End("ok", 200, "fail", "location_mismatch")
    BY <2>1, <2>3, EndStep DEF Before
  <2>4. CASE phase' = "download" /\ UNCHANGED end
    <3>1. AnsweredInTime' /\ SelfInTime'
      BY <2>1, <2>4, LimitsStep DEF config, SelfPhases
    <3> QED
      BY <2>1, <2>4, <3>1 DEF Inv, Shapes, Progress, Before, config, log, GeminiShareKept,
         LogTellsPath, Phases, ModelPhases, SelfPhases
  <2> QED
    BY <1>1, <2>2, <2>3, <2>4 DEF CheckSource
<1>2. CASE PhotoFails
  <2>1. phase = "download" /\ Before /\ UNCHANGED <<config, now, attempts, log, geminiAt>>
    BY <1>2 DEF PhotoFails, Inv, Progress, timing
  <2>2. PICK status : Fail(status)
    BY <1>2 DEF PhotoFails
  <2> QED
    BY <2>1, <2>2, EndStep, VerifyOK DEF Fail, Before
<1>3. CASE PhotoReady
  <2>1. phase = "download" /\ Before /\ UNCHANGED <<config, now, answeredBy, vlm>>
    BY <1>3 DEF PhotoReady, Inv, Progress
  <2>2. settings.backend \in {"gemini", "self"}
    BY DEF Inv, Shapes, Settings
  <2>3. CASE Ask("self", "self") /\ settings.backend = "self"
    BY <2>1, <2>3, StartStep DEF Ask
  <2>4. CASE Ask("gemini", "gemini_backend") /\ settings.backend = "gemini"
    BY <2>1, <2>4, AskStep DEF Ask, StageGuarded, timing
  <2>5. CASE Ask("gemini", "off_hours") /\ settings.fallback
    BY <2>1, <2>5, AskStep DEF Ask, StageGuarded, timing
  <2> QED
    BY <1>3, <2>2, <2>3, <2>4, <2>5 DEF PhotoReady, ScorePhoto
<1>4. CASE Cancel
  <2>1. /\ phase \in {"download"} \cup ModelPhases /\ answeredBy = None
        /\ UNCHANGED <<config, now, attempts, log, geminiAt>>
    BY <1>4 DEF Cancel, Inv, Progress, Before, OnSelf, OnGemini, ModelPhases, timing
  <2> QED
    BY <1>4, <2>1, EndStep, VerifyOK DEF Cancel, ModelPhases, SelfPhases
<1>5. CASE SelfCall
  <2>1. phase \in SelfPhases /\ OnSelf
    BY <1>5 DEF SelfCall, Advance, TimedOut, TransportFails, ErrorResponse, SelfResponds,
       GuardCuts, SelfBreaks, SelfPhases, Inv, Progress
  <2>2. CASE Advance
    <3>1. phase' \in SelfPhases /\ UNCHANGED <<config, now, attempts, log, end, geminiAt>>
      BY <2>1, <2>2 DEF Advance, Following, SelfPhases
    <3>2. AnsweredInTime' /\ SelfInTime'
      BY <2>1, <3>1, LimitsStep DEF config
    <3> QED
      BY <2>1, <3>1, <3>2 DEF Inv, Shapes, Progress, OnSelf, config, log, GeminiShareKept,
         LogTellsPath, Phases, ModelPhases, SelfPhases
  <2>3. CASE TimedOut
    BY <2>1, <2>3, SelfFailsStep, RetryStep DEF TimedOut
  <2>4. CASE TransportFails
    BY <2>1, <2>4, RetryStep DEF TransportFails
  <2>5. CASE ErrorResponse
    BY <2>1, <2>5, SelfFailsStep, RetryStep DEF ErrorResponse
  <2>6. CASE SelfResponds
    <3>1. UNCHANGED <<config, now, route>>
      BY <2>6 DEF SelfResponds
    <3>2. CASE \E answer : Answered(answer, "self")
                           /\ UNCHANGED <<timing, selfStatus, fallback, geminiAt>>
      BY <2>1, <3>1, <3>2, AnswerStep DEF timing
    <3>3. CASE RetryOrFail("ValidationError") /\ UNCHANGED <<answeredBy, vlm>>
      BY <2>1, <3>1, <3>3, RetryStep
    <3> QED
      BY <2>6, <3>2, <3>3 DEF SelfResponds
  <2>7. CASE GuardCuts
    BY <2>1, <2>7, SelfFailsStep DEF GuardCuts
  <2>8. CASE SelfBreaks
    BY <2>1, <2>8, EndStep, VerifyOK DEF SelfBreaks, Fail, OnSelf, timing, SelfPhases
  <2> QED
    BY <1>5, <2>2, <2>3, <2>4, <2>5, <2>6, <2>7, <2>8 DEF SelfCall
<1>6. CASE GeminiAnswers
  <2>1. PICK answer \in Scores : Answered(answer, "gemini")
    BY <1>6 DEF GeminiAnswers
  <2> QED
    BY <1>6, <2>1, AnswerStep DEF GeminiAnswers, timing
<1>7. CASE GeminiFails
  <2>1. phase = "gemini" /\ answeredBy = None /\ UNCHANGED <<config, now, attempts, log, geminiAt>>
    BY <1>7 DEF GeminiFails, Inv, Progress, OnGemini, timing
  <2>2. PICK status : Fail(status)
    BY <1>7 DEF GeminiFails
  <2> QED
    BY <2>1, <2>2, EndStep, VerifyOK DEF Fail
<1>8. CASE StageCut
  <2>1. /\ phase \in ModelPhases /\ answeredBy = None
        /\ UNCHANGED <<config, now, attempts, log, geminiAt>>
    BY <1>8 DEF StageCut, Inv, Progress, OnSelf, OnGemini, ModelPhases, timing
  <2> QED
    BY <1>8, <2>1, EndStep, VerifyOK DEF StageCut, Fail, ModelPhases, SelfPhases
<1>9. CASE Tick
  <2>1. /\ phase \in ModelPhases /\ now' = now + 1
        /\ UNCHANGED <<config, phase, timing, log, vlm, end, geminiAt>>
    BY <1>9 DEF Tick
  <2>2. Shapes' /\ now' \in Nat /\ lag \in Nat
    BY <2>1 DEF Inv, Shapes, config, timing
  <2>3. Progress'
    BY <2>1 DEF Inv, Progress, Before, OnSelf, OnGemini, StageGuarded, ModelPhases, SelfPhases,
       config, timing, log
  <2>4. GeminiShareKept' /\ LogTellsPath'
    BY <2>1 DEF Inv, GeminiShareKept, LogTellsPath, config, timing, log
  <2>5. /\ SelfDeadline \in Int /\ SelfDeadline <= settings.own /\ settings.own \in Nat
        /\ SelfDeadline' = SelfDeadline
    BY <2>1, Deadlines DEF Inv, Shapes, SelfDeadline, config
  <2>6. phase \in SelfPhases => now < SelfDeadline + Guard + lag
    BY <1>9 DEF Tick, Timers
  <2>7. StageGuarded => now < StageDeadline + lag
    BY <1>9 DEF Tick, Timers
  <2>8. SelfInTime'
    BY <2>1, <2>2, <2>5, <2>6, VerifyOK DEF Inv, Shapes, SelfInTime, config
  <2>9. phase' \in SelfPhases => now' <= settings'.own + Guard + lag'
    BY <2>1, <2>2, <2>5, <2>6, VerifyOK DEF Inv, Shapes, config
  <2>10. settings'.backend = "gemini" => now' <= GeminiDeadline + lag'
    BY <2>1, <2>2, <2>7, VerifyOK DEF Inv, Shapes, StageGuarded, StageDeadline, config
  <2>11. settings'.backend = "self" /\ settings'.fallback => now' <= Budget + Guard + lag'
    BY <2>1, <2>2, <2>7, VerifyOK DEF Inv, Shapes, StageGuarded, StageDeadline, config
  <2>12. settings'.backend = "self" /\ ~settings'.fallback => now' <= settings'.own + Guard + lag'
    <3>1. settings.backend = "self" /\ ~settings.fallback => phase \in SelfPhases
      BY <2>1 DEF Inv, Progress, OnGemini, StageGuarded, ModelPhases
    <3> QED
      BY <2>1, <2>9, <3>1 DEF config
  <2> QED
    BY <2>2, <2>3, <2>4, <2>8, <2>9, <2>10, <2>11, <2>12 DEF Inv, AnsweredInTime
<1>10. CASE UNCHANGED vars
  BY <1>10 DEF Inv, vars, config, timing, log, Shapes, Progress, Before, OnSelf, OnGemini,
     StageGuarded, SelfInTime, SelfDeadline, AnsweredInTime, GeminiShareKept, LogTellsPath
<1> QED
  BY <1>1, <1>2, <1>3, <1>4, <1>5, <1>6, <1>7, <1>8, <1>9, <1>10 DEF Next, GeminiCall
-----------------------------------------------------------------------------
\* The model stage keeps its limit, for all budgets, deadlines and timeouts.
THEOREM StageInTime == Spec => []AnsweredInTime
<1>1. Inv => AnsweredInTime
  BY DEF Inv
<1> QED
  BY <1>1, InitInv, NextInv, PTL DEF Spec

\* A margin that covers guard and lag keeps Gemini its share: a failure of the
\* own model always reaches Gemini, with the whole share of the budget left.
THEOREM ShareHolds == Spec => []GeminiShareKept
<1>1. Inv => GeminiShareKept
  BY DEF Inv
<1> QED
  BY <1>1, InitInv, NextInv, PTL DEF Spec

\* The log tells the path, however the request ended.
THEOREM LogTruthful == Spec => []LogTellsPath
<1>1. Inv => LogTellsPath
  BY DEF Inv
<1> QED
  BY <1>1, InitInv, NextInv, PTL DEF Spec
-----------------------------------------------------------------------------
\* No questionnaire is a score.
LEMMA KindsApart == ASSUME NEW a \in Answers PROVE a \notin Scores
<1>1. ASSUME a \in Scores PROVE FALSE
  <2>1. DOMAIN a = {"score"}
    BY <1>1 DEF Scores
  <2>2. DOMAIN a = {"judgeable", "target", "condition", "place"}
    BY DEF Answers
  <2> QED
    BY <2>1, <2>2
<1> QED
  BY <1>1

\* The rules let no valid questionnaire with a blank pass.
LEMMA RulesSeeBlanks ==
    ASSUME NEW a \in Answers, Valid(a), Grade(a, "self") = "success"
    PROVE  Null \notin {a.judgeable, a.target, a.condition, a.place}
<1>1. RuleGrade(a) = "success"
  BY KindsApart DEF Grade
<1>2. a.judgeable # "no" /\ a.place # "no" /\ a.target # "none"
  BY <1>1 DEF RuleGrade
<1>3. /\ a.judgeable \in {"yes", "no"} /\ a.target \in {"enough", "short", "none", Null}
  BY DEF Answers
<1> QED
  BY <1>2, <1>3 DEF Valid, Null

\* An end that is no pass says nothing about blanks.
LEMMA EndWithoutPass ==
    ASSUME NEW outcome, NEW status, NEW result, NEW reason,
           End(outcome, status, result, reason), result # "success"
    PROVE  BlankNeverPasses'
  BY DEF End, BlankNeverPasses

\* A failure is no pass.
LEMMA FailureBlank == ASSUME NEW status, Fail(status) PROVE BlankNeverPasses'
  BY EndWithoutPass, VerifyOK DEF Fail

\* Neither is a step that goes on.
LEMMA GoesOnBlank == ASSUME phase' # "ended" PROVE BlankNeverPasses'
  BY DEF BlankNeverPasses

\* What follows a failure of the own model.
LEMMA SelfFailsBlank ==
    ASSUME NEW status, NEW error, SelfFails(status, error) PROVE BlankNeverPasses'
<1>1. Fail(status) \/ AskGemini
  BY DEF SelfFails
<1> QED
  BY <1>1, FailureBlank, GoesOnBlank DEF AskGemini

LEMMA RetryBlank == ASSUME NEW error, RetryOrFail(error) PROVE BlankNeverPasses'
<1>1. StartAttempt \/ SelfFails(502, error)
  BY DEF RetryOrFail
<1> QED
  BY <1>1, SelfFailsBlank, GoesOnBlank DEF StartAttempt

\* A questionnaire that could have been answered and has a blank never passes a
\* photo, for any settings and whatever was tried before.
THEOREM BlanksNeverPass == Spec => []BlankNeverPasses
<1>1. Init => BlankNeverPasses
  BY DEF Init, BlankNeverPasses
<1>2. BlankNeverPasses /\ [Next]_vars => BlankNeverPasses'
  <2> SUFFICES ASSUME BlankNeverPasses, [Next]_vars PROVE BlankNeverPasses'
    OBVIOUS
  <2>1. CASE CheckSource
    <3>1. \/ \E status \in {422, 500} : Fail(status)
          \/ End("ok", 200, "fail", "location_mismatch")
          \/ phase' = "download"
      BY <2>1 DEF CheckSource
    <3> QED
      BY <3>1, FailureBlank, EndWithoutPass, GoesOnBlank
  <2>2. CASE PhotoFails \/ GeminiFails \/ StageCut \/ SelfBreaks
    BY <2>2, FailureBlank DEF PhotoFails, GeminiFails, StageCut, SelfBreaks
  <2>3. CASE PhotoReady
    <3>1. phase' \in {"pool", "gemini"}
      BY <2>3 DEF PhotoReady, ScorePhoto, Ask, StartAttempt, AskGemini
    <3> QED
      BY <3>1, GoesOnBlank
  <2>4. CASE Cancel
    BY <2>4, EndWithoutPass, VerifyOK DEF Cancel
  <2>5. CASE Advance
    BY <2>5, GoesOnBlank DEF Advance, Following, SelfPhases
  <2>6. CASE TimedOut
    <3>1. \/ \E status, error : SelfFails(status, error)
          \/ \E error : RetryOrFail(error)
      BY <2>6 DEF TimedOut
    <3> QED
      BY <3>1, SelfFailsBlank, RetryBlank
  <2>7. CASE TransportFails \/ ErrorResponse \/ GuardCuts
    BY <2>7, SelfFailsBlank, RetryBlank DEF TransportFails, ErrorResponse, GuardCuts
  <2>8. CASE SelfResponds
    <3>1. CASE RetryOrFail("ValidationError")
      BY <3>1, RetryBlank
    <3>2. ASSUME NEW answer, Answered(answer, "self"),
                 answer \in (IF settings.format = "question" THEN Answers ELSE Scores),
                 settings.format = "question" => Valid(answer)
          PROVE  BlankNeverPasses'
      <4>1. vlm' = answer /\ (end'.result = "success" => Grade(answer, "self") = "success")
        BY <3>2 DEF Answered, End
      <4>2. answer \in Answers => Valid(answer)
        BY <3>2, KindsApart
      <4> QED
        BY <4>1, <4>2, RulesSeeBlanks DEF BlankNeverPasses
    <3> QED
      BY <2>8, <3>1, <3>2 DEF SelfResponds
  <2>9. CASE GeminiAnswers
    <3>1. vlm' \in Scores
      BY <2>9 DEF GeminiAnswers, Answered
    <3> QED
      BY <3>1, KindsApart DEF BlankNeverPasses
  <2>10. CASE Tick
    BY <2>10, GoesOnBlank DEF Tick, ModelPhases, SelfPhases
  <2>11. CASE UNCHANGED vars
    BY <2>11 DEF vars, BlankNeverPasses
  <2> QED
    BY <2>1, <2>2, <2>3, <2>4, <2>5, <2>6, <2>7, <2>8, <2>9, <2>10, <2>11
       DEF Next, SelfCall, GeminiCall
<1> QED
  BY <1>1, <1>2, PTL DEF Spec
=============================================================================
