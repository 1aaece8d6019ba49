---------------------------- MODULE ScriptProofs ----------------------------
(* What holds of the scripts that are started by hand, again and again: of   *)
(* the measurements (EvalCases) for all photos, labels, models and commands, *)
(* of the itinerary model's pipeline (ModelRelease) for every log, shuffle,  *)
(* coding, payload and cost, and of both for any number of starts and deaths.*)
EXTENDS EvalCases, ModelRelease, SequenceTheorems, FiniteSetTheorems, WellFoundedInduction, TLAPS
-----------------------------------------------------------------------------
(***************************************************************************)
(* The measurements.                                                       *)
(***************************************************************************)
Progs == {"a", "b"}

\* The result files are sequences of lines, one for each key.
ResultsOK ==
  /\ results = [prog \in Progs |-> [k \in CaseKeys[prog] |-> results[prog][k]]]
  /\ \A prog \in Progs : \A k \in CaseKeys[prog] : \E W : results[prog][k] \in Seq(W)

\* Every line of a file is of one run, and of the run that is appending to it.
Same(r, s) == r.model = s.model /\ r.fmt = s.fmt

OneRunInv ==
  /\ OneRunPerResult
  /\ run.prog \in Progs =>
       \A k \in CaseKeys[run.prog] : \A i \in DOMAIN results[run.prog][k] :
         Same(results[run.prog][k][i], [model |-> run.tag[1], fmt |-> run.tag[2]])

\* The sides part the travels; unless it was opened, what has been measured
\* or is about to be is of the side dev.
SidesInv == split # <<>> => \E dev : split = SidesOf(dev)

OnDev(k) == split # <<>> /\ k[2] \in split["dev"]

UnseenInv ==
  /\ SidesInv
  /\ ~opened =>
       /\ \A prog \in Progs : \A k \in CaseKeys[prog] : results[prog][k] # <<>> => OnDev(k)
       /\ run.prog \in Progs => \A x \in run.todo : OnDev(x.key)

\* The cases of set A that are left to do have no reply, and one job each.
TodoInv ==
  run.prog = "a" =>
    /\ \A x \in run.todo : x.key \in KeysA => ~Done("a", x.key)
    /\ \A x, y \in run.todo : x.key = y.key => x = y
-----------------------------------------------------------------------------
\* A call appends one line to one key of its own file.
LEMMA CallAppends ==
  ASSUME ResultsOK, NEW prog \in Progs, Call(prog)
  PROVE  \E x \in run.todo, reply \in judge :
           LET line == [model |-> run.tag[1], fmt |-> run.tag[2], reply |-> reply]
           IN  /\ run' = [run EXCEPT !.todo = @ \ {x}]
               /\ \A other \in Progs : \A k \in CaseKeys[other] :
                    results'[other][k] = IF other = prog /\ k = x.key
                                         THEN Append(results[other][k], line) ELSE results[other][k]
<1>1. PICK x \in run.todo, reply \in judge :
        /\ results' = [results EXCEPT ![prog][x.key] =
             Append(@, [model |-> run.tag[1], fmt |-> run.tag[2], reply |-> reply])]
        /\ run' = [run EXCEPT !.todo = @ \ {x}]
  BY DEF Call
<1>2. \A other \in Progs : \A k \in CaseKeys[other] :
        results'[other][k] = IF other = prog /\ k = x.key
          THEN Append(results[other][k], [model |-> run.tag[1], fmt |-> run.tag[2], reply |-> reply])
          ELSE results[other][k]
  BY <1>1 DEF ResultsOK
<1> QED
  BY <1>1, <1>2

\* The files keep their form,
LEMMA CallKeepsForm ==
  ASSUME ResultsOK, NEW prog \in Progs, Call(prog)
  PROVE  ResultsOK'
<1>1. PICK x, line : results' = [results EXCEPT ![prog][x.key] = Append(@, line)]
  BY DEF Call
<1>2. results' = [p \in Progs |-> [k \in CaseKeys[p] |-> results'[p][k]]]
  BY <1>1 DEF ResultsOK
<1>3. ASSUME NEW p \in Progs, NEW k \in CaseKeys[p] PROVE \E W : results'[p][k] \in Seq(W)
  <2>1. PICK W : results[p][k] \in Seq(W)
    BY DEF ResultsOK
  <2>2. CASE p = prog /\ k = x.key
    <3>1. results'[p][k] = Append(results[p][k], line)
      BY <1>1, <2>2 DEF ResultsOK
    <3>2. results[p][k] \in Seq(W \cup {line}) /\ line \in W \cup {line}
      BY <2>1, SeqMonotonic
    <3>3. Append(results[p][k], line) \in Seq(W \cup {line})
      BY <3>2
    <3> QED
      BY <3>1, <3>3
  <2>3. CASE ~(p = prog /\ k = x.key)
    <3>1. results'[p][k] = results[p][k]
      BY <1>1, <2>3 DEF ResultsOK
    <3> QED
      BY <2>1, <3>1
  <2> QED
    BY <2>2, <2>3
<1>4. CaseKeys' = CaseKeys
  BY DEF CaseKeys, KeysA, KeysB
<1> QED
  BY <1>2, <1>3, <1>4 DEF ResultsOK

\* as does every step.
LEMMA FormKept ==
  ASSUME ResultsOK, [EvalNext]_evalVars PROVE ResultsOK'
<1>1. CASE UNCHANGED results
  <2>1. CaseKeys' = CaseKeys
    BY DEF CaseKeys, KeysA, KeysB
  <2> QED
    BY <1>1, <2>1 DEF ResultsOK
<1>2. CASE CallA
  BY <1>2, CallKeepsForm DEF CallA, Progs
<1>3. CASE CallB
  BY <1>3, CallKeepsForm DEF CallB, Progs
<1> QED
  BY <1>1, <1>2, <1>3
  DEF EvalNext, SplitStep, MissionStep, StartA, StartB, Start, EndScript, evalVars

\* The file an append goes to is of the run that appends.
LEMMA CallKeepsRun ==
  ASSUME ResultsOK, OneRunInv, NEW prog \in Progs, Call(prog)
  PROVE  OneRunInv'
<1>1. PICK x \in run.todo, reply \in judge :
        LET line == [model |-> run.tag[1], fmt |-> run.tag[2], reply |-> reply]
        IN  /\ run' = [run EXCEPT !.todo = @ \ {x}]
            /\ \A other \in Progs : \A k \in CaseKeys[other] :
                 results'[other][k] = IF other = prog /\ k = x.key
                                      THEN Append(results[other][k], line) ELSE results[other][k]
  BY CallAppends
<1> DEFINE line == [model |-> run.tag[1], fmt |-> run.tag[2], reply |-> reply]
<1>2. run.prog = prog /\ CaseKeys' = CaseKeys
  BY DEF Call, CaseKeys, KeysA, KeysB
<1>3. \A k \in CaseKeys[prog] : \A i \in DOMAIN results[prog][k] : Same(results[prog][k][i], line)
  BY <1>2 DEF OneRunInv, Same
<1>4. ASSUME NEW k \in CaseKeys[prog], NEW i \in DOMAIN results'[prog][k]
      PROVE  Same(results'[prog][k][i], line)
  <2>1. PICK W : results[prog][k] \in Seq(W)
    BY DEF ResultsOK
  <2>2. CASE k = x.key
    <3>1. results'[prog][k] = Append(results[prog][k], line)
      BY <1>1, <2>2
    <3>2. i \in DOMAIN results[prog][k] \/ results'[prog][k][i] = line
      BY <2>1, <3>1
    <3>3. i \in DOMAIN results[prog][k] => results'[prog][k][i] = results[prog][k][i]
      BY <2>1, <3>1
    <3> QED
      BY <1>3, <3>2, <3>3 DEF Same
  <2>3. CASE k # x.key
    BY <1>1, <1>3, <2>3
  <2> QED
    BY <2>2, <2>3
<1>5. \A other \in Progs \ {prog} : \A k \in CaseKeys[other] : results'[other][k] = results[other][k]
  BY <1>1
<1>6. OneRunPerResult'
  <2> SUFFICES ASSUME NEW p \in Progs, NEW k \in CaseKeys[p], NEW l \in CaseKeys[p],
                      NEW i \in DOMAIN results'[p][k], NEW j \in DOMAIN results'[p][l]
               PROVE  Same(results'[p][k][i], results'[p][l][j])
    BY <1>2 DEF OneRunPerResult, Same, Progs
  <2>1. CASE p = prog
    BY <1>4, <2>1 DEF Same
  <2>2. CASE p # prog
    BY <1>5, <2>2 DEF OneRunInv, OneRunPerResult, Same, Progs
  <2> QED
    BY <2>1, <2>2
<1>7. run'.prog = prog /\ run'.tag = run.tag
  BY <1>1, <1>2
<1> QED
  BY <1>2, <1>4, <1>6, <1>7 DEF OneRunInv, Same

\* Only a measurement's start leaves a run of a measurement that was none, and
\* only its calls change the files.
LEMMA OtherSteps ==
  ASSUME EvalNext, ~StartA, ~StartB, ~CallA, ~CallB
  PROVE  UNCHANGED <<results, opened>> /\ (run' = run \/ run'.prog \notin Progs)
<1>1. CASE SplitStep
  BY <1>1 DEF SplitStep
<1>2. CASE MissionStep
  <2>1. UNCHANGED <<results, opened>>
    BY <1>2 DEF MissionStep
  <2>2. CASE StartGen
    <3>1. \E tag, jobs, cap : Begin("gen", tag, jobs, cap)
      BY <2>2 DEF StartGen
    <3>2. run'.prog = "gen"
      BY <3>1 DEF Begin
    <3> QED
      BY <2>1, <3>2 DEF Progs
  <2>3. CASE CallBatch
    BY <2>3, <2>1 DEF CallBatch, Progs
  <2>4. CASE StartAug
    BY <2>4, <2>1 DEF StartAug, Begin, Progs
  <2>5. CASE WriteMission
    BY <2>5, <2>1 DEF WriteMission, Progs
  <2> QED
    BY <1>2, <2>2, <2>3, <2>4, <2>5 DEF MissionStep
<1>3. CASE EndScript
  BY <1>3 DEF EndScript, NoRun, Progs
<1> QED
  BY <1>1, <1>2, <1>3 DEF EvalNext

\* A measurement that starts finds only lines of its own run.
LEMMA StartKeepsRun ==
  ASSUME OneRunInv, NEW c \in MeasureCommands, c.prog \in Progs, Start(c)
  PROVE  OneRunInv'
<1>1. /\ UNCHANGED results /\ CaseKeys' = CaseKeys
      /\ run'.prog = c.prog /\ run'.tag = <<c.model, c.fmt>>
  BY DEF Start, Begin, CaseKeys, KeysA, KeysB
<1>2. \A k \in CaseKeys[c.prog] : \A i \in DOMAIN results[c.prog][k] :
        results[c.prog][k][i].model = c.model /\ results[c.prog][k][i].fmt = c.fmt
  BY DEF Start, out_conflict
<1>3. OneRunPerResult'
  BY <1>1 DEF OneRunInv, OneRunPerResult
<1> QED
  BY <1>1, <1>2, <1>3 DEF OneRunInv, Same

\* Every step keeps the files of one run.
LEMMA RunKept ==
  ASSUME ResultsOK, OneRunInv, [EvalNext]_evalVars PROVE OneRunInv'
<1>1. CASE CallA
  BY <1>1, CallKeepsRun DEF CallA, Progs
<1>2. CASE CallB
  BY <1>2, CallKeepsRun DEF CallB, Progs
<1>3. CASE StartA \/ StartB
  BY <1>3, StartKeepsRun DEF StartA, StartB, Progs
<1>4. CASE EvalNext /\ ~StartA /\ ~StartB /\ ~CallA /\ ~CallB
  <2>1. UNCHANGED results /\ (run' = run \/ run'.prog \notin Progs) /\ CaseKeys' = CaseKeys
    BY <1>4, OtherSteps DEF CaseKeys, KeysA, KeysB
  <2> QED
    BY <2>1 DEF OneRunInv, OneRunPerResult
<1>5. CASE UNCHANGED evalVars
  <2>1. UNCHANGED <<results, run>> /\ CaseKeys' = CaseKeys
    BY <1>5 DEF evalVars, CaseKeys, KeysA, KeysB
  <2> QED
    BY <2>1 DEF OneRunInv, OneRunPerResult
<1> QED
  BY <1>1, <1>2, <1>3, <1>4, <1>5

\* At first there are no lines.
LEMMA EmptyFiles ==
  ASSUME EvalInit
  PROVE  ResultsOK /\ \A prog \in Progs : \A k \in CaseKeys[prog] : results[prog][k] = <<>>
<1>1. results = [prog \in Progs |-> [k \in CaseKeys[prog] |-> <<>>]]
  BY DEF EvalInit, Progs
<1>2. \A prog \in Progs : \A k \in CaseKeys[prog] : results[prog][k] = <<>> /\ results[prog][k] \in Seq({})
  BY <1>1
<1> QED
  BY <1>1, <1>2 DEF ResultsOK

\* A command without --open-final works on the side dev, or on nothing.
LEMMA DevOnly ==
  ASSUME NEW c, c.split \in Sides \cup {"none"}, ~split_error(c), ~c.open
  PROVE  c.split = "dev"
  BY DEF split_error, Sides

\* The sides share no travel.
LEMMA SidesPart ==
  ASSUME SidesInv, split # <<>>, NEW p \in split["dev"], NEW q \in split["final"]
  PROVE  Travel[q] # Travel[p]
<1>1. PICK dev : split = SidesOf(dev)
  BY DEF SidesInv
<1>2. Travel[p] \in dev
  BY <1>1 DEF SidesOf, Sides
<1>3. Travel[q] \notin dev
  BY <1>1 DEF SidesOf, Sides
<1> QED
  BY <1>2, <1>3

\* The split is made once.
LEMMA SplitKept ==
  ASSUME [EvalNext]_evalVars
  PROVE  split' = split \/ (split = <<>> /\ SidesInv')
<1>1. CASE SplitStep
  BY <1>1 DEF SplitStep, SplitOnce, SidesInv, SidesOf
<1>2. CASE MissionStep
  BY <1>2 DEF MissionStep, StartGen, CallBatch, StartAug, WriteMission
<1>3. CASE StartA \/ StartB
  BY <1>3 DEF StartA, StartB, Start
<1>4. CASE CallA \/ CallB
  BY <1>4 DEF CallA, CallB, Call
<1>5. CASE EndScript \/ UNCHANGED evalVars
  BY <1>5 DEF EndScript, evalVars
<1> QED
  BY <1>1, <1>2, <1>3, <1>4, <1>5 DEF EvalNext

\* A call puts a line to a case of its own list only.
LEMMA CallUnseen ==
  ASSUME ResultsOK, UnseenInv, NEW prog \in Progs, Call(prog)
  PROVE  UnseenInv'
<1>1. PICK x \in run.todo, reply \in judge :
        LET line == [model |-> run.tag[1], fmt |-> run.tag[2], reply |-> reply]
        IN  /\ run' = [run EXCEPT !.todo = @ \ {x}]
            /\ \A other \in Progs : \A k \in CaseKeys[other] :
                 results'[other][k] = IF other = prog /\ k = x.key
                                      THEN Append(results[other][k], line) ELSE results[other][k]
  BY CallAppends
<1>2. UNCHANGED <<split, opened>> /\ run.prog = prog /\ CaseKeys' = CaseKeys
  BY DEF Call, CaseKeys, KeysA, KeysB
<1>3. run'.prog = prog /\ run'.todo \subseteq run.todo
  BY <1>1, <1>2
<1>4. ~opened => OnDev(x.key) /\ \A y \in run'.todo : OnDev(y.key)
  BY <1>2, <1>3 DEF UnseenInv
<1>5. ASSUME ~opened, NEW other \in Progs, NEW k \in CaseKeys[other], results'[other][k] # <<>>
      PROVE  OnDev(k)
  <2>1. CASE other = prog /\ k = x.key
    BY <1>4, <1>5, <2>1
  <2>2. CASE ~(other = prog /\ k = x.key)
    <3>1. results[other][k] # <<>>
      BY <1>1, <1>5, <2>2
    <3> QED
      BY <1>5, <3>1 DEF UnseenInv
  <2> QED
    BY <2>1, <2>2
<1> QED
  BY <1>2, <1>4, <1>5 DEF UnseenInv, SidesInv, OnDev

\* A measurement that is not opened starts on the side dev.
LEMMA StartUnseen ==
  ASSUME UnseenInv, NEW c \in MeasureCommands, c.prog \in Progs, Start(c)
  PROVE  UnseenInv'
<1>1. UNCHANGED <<split, results>> /\ opened' = (opened \/ c.open) /\ CaseKeys' = CaseKeys
  BY DEF Start, missionVars, CaseKeys, KeysA, KeysB
<1>2. run'.todo \subseteq Cases(c)
  BY DEF Start, Begin, Capped
<1>3. ASSUME ~opened' PROVE \A x \in run'.todo : OnDev(x.key)
  <2>1. c.split = "dev"
    BY <1>1, <1>3, DevOnly, MeasureAssumption DEF Start
  <2>2. split # <<>> /\ \A x \in Cases(c) : x.key[2] \in split["dev"]
    BY <2>1 DEF Start, Cases
  <2> QED
    BY <1>2, <2>2 DEF OnDev
<1> QED
  BY <1>1, <1>3 DEF UnseenInv, SidesInv, OnDev

\* A result file never holds lines of two models or formats, whatever command
\* lines it was appended to with (baseline_verify.py:215).
THEOREM ResultFilesApart == EvalSpec => []OneRunPerResult
<1>1. EvalInit => ResultsOK /\ OneRunInv
  <2> SUFFICES ASSUME EvalInit PROVE ResultsOK /\ OneRunInv
    OBVIOUS
  <2>1. ResultsOK /\ \A prog \in Progs : \A k \in CaseKeys[prog] : results[prog][k] = <<>>
    BY EmptyFiles
  <2>2. run.prog \notin Progs
    BY DEF EvalInit, NoRun, Progs
  <2> QED
    BY <2>1, <2>2 DEF OneRunInv, OneRunPerResult, Progs
<1>2. ResultsOK /\ OneRunInv /\ [EvalNext]_evalVars => (ResultsOK /\ OneRunInv)'
  BY FormKept, RunKept
<1>3. OneRunInv => OneRunPerResult
  BY DEF OneRunInv
<1> QED
  BY <1>1, <1>2, <1>3, PTL DEF EvalSpec

\* Every step keeps the final side unseen.
LEMMA UnseenKept ==
  ASSUME ResultsOK, UnseenInv, [EvalNext]_evalVars PROVE UnseenInv'
<1>1. CASE CallA
  BY <1>1, CallUnseen DEF CallA, Progs
<1>2. CASE CallB
  BY <1>2, CallUnseen DEF CallB, Progs
<1>3. CASE StartA \/ StartB
  BY <1>3, StartUnseen DEF StartA, StartB, Progs
<1>4. ASSUME UNCHANGED <<results, opened>>, run' = run \/ run'.prog \notin Progs
      PROVE  UnseenInv'
  <2>1. split' = split \/ (split = <<>> /\ SidesInv')
    BY SplitKept
  <2>2. CaseKeys' = CaseKeys
    BY DEF CaseKeys, KeysA, KeysB
  <2>3. CASE split' = split
    BY <1>4, <2>2, <2>3 DEF UnseenInv, SidesInv, OnDev
  <2>4. CASE split = <<>> /\ SidesInv'
    <3>1. \A k : ~OnDev(k)
      BY <2>4 DEF OnDev
    <3> QED
      BY <1>4, <2>2, <2>4, <3>1 DEF UnseenInv
  <2> QED
    BY <2>1, <2>3, <2>4
<1>5. CASE EvalNext /\ ~StartA /\ ~StartB /\ ~CallA /\ ~CallB
  BY <1>4, <1>5, OtherSteps
<1>6. CASE UNCHANGED evalVars
  BY <1>4, <1>6 DEF evalVars
<1> QED
  BY <1>1, <1>2, <1>3, <1>5, <1>6

\* What was measured is of the side dev, and so is what is counted.
LEMMA UnseenImplies == ASSUME UnseenInv PROVE FinalUnseen
<1>1. ASSUME ~opened, NEW prog \in Progs, NEW k \in CaseKeys[prog], results[prog][k] # <<>>,
             NEW p \in split["final"]
      PROVE  Travel[p] # Travel[k[2]]
  BY <1>1, SidesPart DEF UnseenInv, OnDev
<1>2. ASSUME NEW c \in CountCommands, Accepted(c), ~c.open, NEW x \in Report(c), NEW p \in split["final"]
      PROVE  Travel[p] # Travel[x.key[2]]
  <2>1. c.split = "dev"
    BY <1>2, DevOnly, CountAssumption DEF Accepted
  <2>2. split # <<>>
    BY <1>2, <2>1 DEF Accepted
  <2>3. x.key[2] \in split["dev"]
    BY <1>2, <2>1 DEF Report, apply_split
  <2> QED
    BY <2>2, <2>3, SidesPart DEF UnseenInv
<1> QED
  BY <1>1, <1>2 DEF FinalUnseen, Progs

\* No photo of a travel of the final side is sent to a model or counted before
\* somebody opens it, in whatever order the scripts run and die
\* (split_eval.py:134).
THEOREM FinalStaysUnseen == EvalSpec => []FinalUnseen
<1>1. EvalInit => ResultsOK /\ UnseenInv
  <2> SUFFICES ASSUME EvalInit PROVE ResultsOK /\ UnseenInv
    OBVIOUS
  <2>1. ResultsOK /\ \A prog \in Progs : \A k \in CaseKeys[prog] : results[prog][k] = <<>>
    BY EmptyFiles
  <2>2. split = <<>> /\ run.prog \notin Progs
    BY DEF EvalInit, NoRun, Progs
  <2> QED
    BY <2>1, <2>2 DEF UnseenInv, SidesInv
<1>2. ResultsOK /\ UnseenInv /\ [EvalNext]_evalVars => (ResultsOK /\ UnseenInv)'
  BY FormKept, UnseenKept
<1>3. UnseenInv => FinalUnseen
  BY UnseenImplies
<1> QED
  BY <1>1, <1>2, <1>3, PTL DEF EvalSpec

\* Some natural numbers have a least one.
LEMMA LeastOfSome ==
  ASSUME NEW S, S \subseteq Nat, S # {}
  PROVE  \E n \in S : \A k \in S : n <= k
<1>1. PICK n \in S : \A k \in S : ~(<<k, n>> \in OpToRel(<, Nat))
  BY NatLessThanWellFounded, WFMin
<1>2. \A k \in S : ~(k < n)
  BY <1>1 DEF OpToRel
<1> QED
  BY <1>2

\* The line of a case that is counted, as an operator on its lines.
Answers(s) == {i \in DOMAIN s : Judged(s[i])}
CountedLine(s) == s[IF Answers(s) = {} THEN 1 ELSE Min(Answers(s))]

\* A sequence that grows at its end keeps its first answer.
LEMMA FirstAnswerStays ==
  ASSUME NEW W, NEW s \in Seq(W), NEW line, Answers(s) # {}
  PROVE  /\ Answers(Append(s, line)) # {} /\ Min(Answers(s)) \in DOMAIN s
         /\ Min(Answers(Append(s, line))) = Min(Answers(s))
<1> DEFINE A == Answers(s)
           B == Answers(Append(s, line))
<1>0. /\ A = {i \in DOMAIN s : Judged(s[i])}
      /\ B = {i \in DOMAIN Append(s, line) : Judged(Append(s, line)[i])}
      /\ A # {}
  BY DEF Answers
<1> HIDE DEF A, B
<1>1. /\ DOMAIN s = 1..Len(s) /\ Len(s) \in Nat /\ DOMAIN Append(s, line) = 1..(Len(s) + 1)
      /\ \A i \in DOMAIN s : Append(s, line)[i] = s[i]
  OBVIOUS
<1>2. A \subseteq B /\ B \subseteq A \cup {Len(s) + 1} /\ A \subseteq 1..Len(s)
  BY <1>0, <1>1
<1>3. PICK m \in A : \A i \in A : m <= i
  <2>1. A \subseteq Nat
    BY <1>2
  <2> QED
    BY <1>0, <2>1, LeastOfSome
<1>4. Min(A) = m
  <2>1. \A n \in A : (\A i \in A : n <= i) => n = m
    BY <1>1, <1>2, <1>3
  <2>2. Min(A) \in A /\ \A i \in A : Min(A) <= i
    BY <1>3 DEF Min
  <2> QED
    BY <2>1, <2>2
<1>5. Min(B) = m
  <2>1. m \in B /\ \A i \in B : m <= i
    BY <1>1, <1>2, <1>3
  <2>2. \A n \in B : (\A i \in B : n <= i) => n = m
    BY <1>1, <1>2, <2>1
  <2> QED
    BY <2>1, <2>2 DEF Min
<1> QED
  BY <1>0, <1>1, <1>2, <1>3, <1>4, <1>5 DEF A, B

\* A line more changes nothing for a case whose counted line was judged.
LEMMA CountedStays ==
  ASSUME NEW W, NEW s \in Seq(W), s # <<>>, Judged(CountedLine(s)), NEW line
  PROVE  CountedLine(Append(s, line)) = CountedLine(s)
<1>1. Answers(s) # {}
  <2>1. 1 \in DOMAIN s
    OBVIOUS
  <2> QED
    BY <2>1 DEF Answers, CountedLine
<1>2. /\ Answers(Append(s, line)) # {} /\ Min(Answers(s)) \in DOMAIN s
      /\ Min(Answers(Append(s, line))) = Min(Answers(s))
  BY <1>1, FirstAnswerStays
<1>3. \A i \in DOMAIN s : Append(s, line)[i] = s[i]
  OBVIOUS
<1> QED
  BY <1>1, <1>2, <1>3 DEF CountedLine

\* In a step the lines of a case stay or grow by one.
LEMMA LinesGrow ==
  ASSUME ResultsOK, [EvalNext]_evalVars, NEW prog \in Progs, NEW k \in CaseKeys[prog]
  PROVE  results'[prog][k] = results[prog][k] \/ \E line : results'[prog][k] = Append(results[prog][k], line)
<1>1. CASE CallA
  BY <1>1, CallAppends DEF CallA, Progs
<1>2. CASE CallB
  BY <1>2, CallAppends DEF CallB, Progs
<1>3. CASE UNCHANGED results
  BY <1>3
<1>4. CallA \/ CallB \/ UNCHANGED results
  <2>1. CASE StartA \/ StartB
    BY <2>1 DEF StartA, StartB, Start
  <2>2. CASE UNCHANGED evalVars
    BY <2>2 DEF evalVars
  <2> QED
    BY <2>1, <2>2, OtherSteps
<1> QED
  BY <1>1, <1>2, <1>3, <1>4

\* What a case was counted as, it stays, whatever is started, fails or is
\* repeated later (eval_cases.py:207).
THEOREM VerdictsFinal == EvalSpec => VerdictStays
<1> DEFINE Stays ==
      \A k \in KeysA \cup KeysB :
        results[IF k[1] = "A" THEN "a" ELSE "b"][k] # <<>> /\ Judged(dedupe(k)) => dedupe(k)' = dedupe(k)
<1>1. EvalInit => ResultsOK
  BY EmptyFiles
<1>2. ResultsOK /\ [EvalNext]_evalVars => ResultsOK'
  BY FormKept
<1>3. ResultsOK /\ [EvalNext]_evalVars => Stays
  <2> SUFFICES ASSUME ResultsOK, [EvalNext]_evalVars, NEW k \in KeysA \cup KeysB,
                      results[IF k[1] = "A" THEN "a" ELSE "b"][k] # <<>>, Judged(dedupe(k))
               PROVE  dedupe(k)' = dedupe(k)
    OBVIOUS
  <2> DEFINE prog == IF k[1] = "A" THEN "a" ELSE "b"
             s == results[prog][k]
  <2>1. prog \in Progs /\ k \in CaseKeys[prog]
    BY DEF Progs, CaseKeys, KeysA, KeysB
  <2>2. dedupe(k) = CountedLine(s) /\ dedupe(k)' = CountedLine(results'[prog][k])
    BY DEF dedupe, LinesOf, CountedLine, Answers
  <2>3. PICK W : s \in Seq(W)
    BY <2>1 DEF ResultsOK
  <2>4. s # <<>> /\ Judged(CountedLine(s))
    BY <2>2
  <2>5. results'[prog][k] = s \/ \E line : results'[prog][k] = Append(s, line)
    BY <2>1, LinesGrow
  <2> HIDE DEF prog, s
  <2> QED
    BY <2>2, <2>3, <2>4, <2>5, CountedStays
<1> QED
  BY <1>1, <1>2, <1>3, PTL DEF EvalSpec, VerdictStays
-----------------------------------------------------------------------------
\* A call takes its case off the list, and the others keep their lines.
LEMMA CallKeepsTodo ==
  ASSUME ResultsOK, TodoInv, CallA PROVE TodoInv'
<1>1. PICK x \in run.todo, reply \in judge :
        LET line == [model |-> run.tag[1], fmt |-> run.tag[2], reply |-> reply]
        IN  /\ run' = [run EXCEPT !.todo = @ \ {x}]
            /\ \A other \in Progs : \A k \in CaseKeys[other] :
                 results'[other][k] = IF other = "a" /\ k = x.key
                                      THEN Append(results[other][k], line) ELSE results[other][k]
  BY CallAppends DEF CallA, Progs
<1>2. run.prog = "a" /\ CaseKeys["a"] = KeysA /\ KeysA' = KeysA
  BY DEF CallA, Call, CaseKeys, KeysA
<1>3. run'.prog = "a" /\ run'.todo \subseteq run.todo /\ x \notin run'.todo
  BY <1>1, <1>2
<1>4. ASSUME NEW y \in run'.todo, y.key \in KeysA PROVE ~Done("a", y.key)'
  <2>1. y.key # x.key /\ ~Done("a", y.key)
    BY <1>2, <1>3, <1>4 DEF TodoInv
  <2>2. results'["a"][y.key] = results["a"][y.key]
    BY <1>1, <1>2, <1>4, <2>1 DEF Progs
  <2> QED
    BY <2>1, <2>2 DEF Done
<1> QED
  BY <1>2, <1>3, <1>4 DEF TodoInv

\* The list a measurement of set A starts with has the cases with no reply.
LEMMA StartKeepsTodo ==
  ASSUME NEW c \in MeasureCommands, c.prog = "a", Start(c) PROVE TodoInv'
<1>1. UNCHANGED results /\ run'.prog = "a" /\ KeysA' = KeysA
  BY DEF Start, Begin, KeysA
<1>2. run'.todo \subseteq {x \in Cases(c) : ~Done("a", x.key)}
  BY DEF Start, Begin, Capped
<1>3. \A x \in Cases(c) : x = [key |-> x.key, mission |-> 0]
  BY DEF Cases, CasesA
<1>4. \A x \in run'.todo : ~Done("a", x.key)'
  BY <1>1, <1>2 DEF Done
<1> QED
  BY <1>1, <1>2, <1>3, <1>4 DEF TodoInv

\* Every step keeps the list free of answered cases.
LEMMA TodoKept ==
  ASSUME ResultsOK, TodoInv, [EvalNext]_evalVars PROVE TodoInv'
<1>1. CASE CallA
  BY <1>1, CallKeepsTodo
<1>2. CASE StartA
  BY <1>2, StartKeepsTodo DEF StartA
<1>3. CASE StartB
  <2>1. run'.prog = "b"
    BY <1>3 DEF StartB, Start, Begin
  <2> QED
    BY <2>1 DEF TodoInv
<1>4. CASE CallB
  <2>1. run'.prog = "b"
    BY <1>4 DEF CallB, Call
  <2> QED
    BY <2>1 DEF TodoInv
<1>5. CASE UNCHANGED <<results, run>>
  BY <1>5 DEF TodoInv, Done, KeysA
<1>6. CASE EvalNext /\ ~StartA /\ ~StartB /\ ~CallA /\ ~CallB
  <2>1. UNCHANGED results /\ (run' = run \/ run'.prog \notin Progs)
    BY <1>6, OtherSteps
  <2>2. CASE run' = run
    BY <1>5, <2>1, <2>2
  <2>3. CASE run'.prog \notin Progs
    BY <2>3 DEF TodoInv, Progs
  <2> QED
    BY <2>1, <2>2, <2>3
<1>7. CASE UNCHANGED evalVars
  BY <1>5, <1>7 DEF evalVars
<1> QED
  BY <1>1, <1>2, <1>3, <1>4, <1>6, <1>7

\* A sequence that has one more element than another is it with that appended.
LEMMA AppendIs ==
  ASSUME NEW n \in Nat, NEW S, NEW f \in [1..n -> S], NEW g \in [1..(n + 1) -> S],
         \A i \in 1..n : g[i] = f[i]
  PROVE  g = Append(f, g[n + 1])
<1> DEFINE last == g[n + 1]
<1>1. last \in S
  OBVIOUS
<1> HIDE DEF last
<1>2. f \in Seq(S) /\ Len(f) = n /\ g \in Seq(S) /\ Len(g) = n + 1
  OBVIOUS
<1>3. /\ Append(f, last) \in Seq(S) /\ Len(Append(f, last)) = n + 1
      /\ \A i \in 1..n : Append(f, last)[i] = f[i]
      /\ Append(f, last)[n + 1] = last
  BY <1>1, <1>2
<1>4. \A i \in 1..Len(g) : g[i] = Append(f, last)[i]
  <2>1. \A i \in 1..Len(g) : i \in 1..n \/ i = n + 1
    BY <1>2
  <2>2. g[n + 1] = Append(f, last)[n + 1]
    BY <1>3 DEF last
  <2> QED
    BY <1>3, <2>1, <2>2
<1> QED
  BY <1>2, <1>3, <1>4, SeqEqual DEF last

\* A line more is a flag more.
Flags(s) == [i \in DOMAIN s |-> s[i].reply # "error"]

\* Appending a line appends its flag.
LEMMA FlagMore ==
  ASSUME NEW W, NEW s \in Seq(W), NEW line
  PROVE  Flags(Append(s, line)) = Append(Flags(s), line.reply # "error")
<1> DEFINE n == Len(s)
           f == Flags(s)
           g == Flags(Append(s, line))
<1>1. /\ DOMAIN s = 1..n /\ n \in Nat /\ DOMAIN Append(s, line) = 1..(n + 1)
      /\ \A i \in 1..n : Append(s, line)[i] = s[i]
      /\ Append(s, line)[n + 1] = line
  OBVIOUS
<1> HIDE DEF n
<1>2. f \in [1..n -> BOOLEAN] /\ g \in [1..(n + 1) -> BOOLEAN]
  BY <1>1 DEF Flags
<1>3. (\A i \in 1..n : g[i] = f[i]) /\ g[n + 1] = (line.reply # "error")
  BY <1>1 DEF Flags
<1> HIDE DEF f, g
<1>4. g = Append(f, g[n + 1])
  BY <1>1, <1>2, <1>3, AppendIs
<1> QED
  BY <1>3, <1>4 DEF f, g

\* The result file of set A is a job log: however often the scripts die, fail
\* and are started again, a case that has a reply is never sent again
\* (baseline_verify.py:410).
THEOREM SetAIsJobLog == EvalSpec => ALog!JobSpec
<1> DEFINE log == [k \in KeysA |-> [i \in DOMAIN results["a"][k] |-> results["a"][k][i].reply # "error"]]
<1>1. EvalInit => ResultsOK /\ TodoInv /\ ALog!JobInit
  <2> SUFFICES ASSUME EvalInit PROVE ResultsOK /\ TodoInv /\ ALog!JobInit
    OBVIOUS
  <2>1. ResultsOK /\ \A k \in KeysA : results["a"][k] = <<>>
    BY EmptyFiles DEF Progs, CaseKeys
  <2>2. TodoInv
    BY DEF EvalInit, NoRun, TodoInv
  <2>3. \A s : s = <<>> => [i \in DOMAIN s |-> s[i].reply # "error"] = <<>>
    OBVIOUS
  <2>4. log = [k \in KeysA |-> <<>>]
    BY <2>1, <2>3
  <2> QED
    BY <2>1, <2>2, <2>4 DEF ALog!JobInit
<1>2. ResultsOK /\ TodoInv /\ [EvalNext]_evalVars => (ResultsOK /\ TodoInv)'
  BY FormKept, TodoKept
<1>3. ResultsOK /\ TodoInv /\ [EvalNext]_evalVars => [ALog!JobNext]_log
  <2> SUFFICES ASSUME ResultsOK, TodoInv, [EvalNext]_evalVars, NEW k \in KeysA
               PROVE  ALog!Line(k) \/ log'[k] = log[k]
    BY DEF ALog!JobNext
  <2>1. log[k] = Flags(results["a"][k]) /\ log'[k] = Flags(results'["a"][k])
    BY DEF Flags, KeysA
  <2>2. "a" \in Progs /\ k \in CaseKeys["a"]
    BY DEF Progs, CaseKeys
  <2>3. CASE results'["a"][k] = results["a"][k]
    BY <2>1, <2>3
  <2>4. CASE results'["a"][k] # results["a"][k]
    <3>1. CallA
      BY <2>2, <2>4, OtherSteps DEF StartA, StartB, Start, evalVars, CallB, Call, ResultsOK
    <3>2. PICK x \in run.todo, reply \in judge :
            LET line == [model |-> run.tag[1], fmt |-> run.tag[2], reply |-> reply]
            IN  /\ run' = [run EXCEPT !.todo = @ \ {x}]
                /\ \A other \in Progs : \A l \in CaseKeys[other] :
                     results'[other][l] = IF other = "a" /\ l = x.key
                                          THEN Append(results[other][l], line) ELSE results[other][l]
      BY <3>1, CallAppends DEF CallA, Progs
    <3> DEFINE line == [model |-> run.tag[1], fmt |-> run.tag[2], reply |-> reply]
    <3>3. k = x.key /\ results'["a"][k] = Append(results["a"][k], line)
      BY <2>2, <2>4, <3>2
    <3>4. ~Done("a", k)
      BY <3>1, <3>3 DEF TodoInv, CallA, Call
    <3>5. ~ALog!Answered(k)
      BY <3>4 DEF ALog!Answered, Done
    <3>6. PICK W : results["a"][k] \in Seq(W)
      BY <2>2 DEF ResultsOK
    <3> HIDE DEF line
    <3>7. log'[k] = Append(log[k], line.reply # "error")
      <4>1. Flags(Append(results["a"][k], line)) = Append(Flags(results["a"][k]), line.reply # "error")
        BY <3>6, FlagMore
      <4> HIDE DEF log
      <4> QED
        BY <2>1, <3>3, <4>1
    <3>8. (line.reply # "error") \in BOOLEAN
      OBVIOUS
    <3> QED
      BY <3>5, <3>7, <3>8 DEF ALog!Line
  <2> QED
    BY <2>3, <2>4
<1> QED
  BY <1>1, <1>2, <1>3, PTL DEF EvalSpec, ALog!JobSpec
-----------------------------------------------------------------------------
\* The augmentation: what is left to write has no mission yet.
AugInv ==
  /\ aug = [p \in DOMAIN LabelB |-> aug[p]]
  /\ \A p \in DOMAIN LabelB : \E W : aug[p] \in Seq(W)
  /\ run.prog = "aug" => \A p \in run.todo : ~Written(p)

\* Only its own calls change its lines, and a start takes the unwritten.
LEMMA AugKept ==
  ASSUME AugInv, [EvalNext]_evalVars
  PROVE  /\ AugInv'
         /\ \/ UNCHANGED aug
            \/ \E p \in run.todo, reply \in {"error", "unusable", "usable"} :
                 aug' = [aug EXCEPT ![p] = Append(@, reply)] /\ ~Written(p)
<1>1. CASE UNCHANGED aug /\ (run' = run \/ run'.prog # "aug")
  BY <1>1 DEF AugInv, Written
<1>2. CASE StartAug
  <2>1. PICK seed, cap : Begin("aug", <<>>, {p \in select_photos(seed) : ~Written(p)}, cap)
    BY <1>2 DEF StartAug
  <2>2. run'.todo \subseteq {p \in select_photos(seed) : ~Written(p)}
    BY <2>1 DEF Begin, Capped
  <2>3. UNCHANGED aug
    BY <1>2 DEF StartAug, missionVars
  <2> QED
    BY <2>2, <2>3 DEF AugInv, Written
<1>3. CASE WriteMission
  <2>1. PICK p \in run.todo, reply \in {"error", "unusable", "usable"} :
          aug' = [aug EXCEPT ![p] = Append(@, reply)] /\ run' = [run EXCEPT !.todo = @ \ {p}]
    BY <1>3 DEF WriteMission
  <2>2. run.prog = "aug" /\ ~Written(p)
    BY <1>3 DEF WriteMission, AugInv
  <2>3. \A q \in DOMAIN LabelB : \E W : aug'[q] \in Seq(W)
    <3> SUFFICES ASSUME NEW q \in DOMAIN LabelB PROVE \E W : aug'[q] \in Seq(W)
      OBVIOUS
    <3>1. PICK W : aug[q] \in Seq(W)
      BY DEF AugInv
    <3>2. aug'[q] = IF p = q THEN Append(aug[q], reply) ELSE aug[q]
      BY <2>1 DEF AugInv
    <3>3. aug[q] \in Seq(W \cup {reply}) /\ reply \in W \cup {reply}
      BY <3>1, SeqMonotonic
    <3>4. Append(aug[q], reply) \in Seq(W \cup {reply})
      BY <3>3
    <3> QED
      BY <3>2, <3>3, <3>4
  <2>4. ASSUME NEW q \in run'.todo PROVE ~Written(q)'
    <3>1. q \in run.todo /\ q # p
      BY <2>1, <2>2
    <3>2. ~Written(q) /\ aug'[q] = aug[q]
      BY <2>1, <2>2, <3>1 DEF AugInv
    <3> QED
      BY <3>2 DEF Written
  <2>5. aug' = [q \in DOMAIN LabelB |-> aug'[q]]
    BY <2>1 DEF AugInv
  <2> QED
    BY <2>1, <2>2, <2>3, <2>4, <2>5 DEF AugInv
<1>4. StartGen => UNCHANGED aug /\ run'.prog # "aug"
  <2> SUFFICES ASSUME StartGen PROVE UNCHANGED aug /\ run'.prog # "aug"
    OBVIOUS
  <2>1. \E tag, jobs, cap : Begin("gen", tag, jobs, cap)
    BY DEF StartGen
  <2>2. run'.prog = "gen"
    BY <2>1 DEF Begin
  <2> QED
    BY <2>2 DEF StartGen
<1>5. CallBatch => UNCHANGED aug /\ run'.prog # "aug"
  BY DEF CallBatch
<1>6. StartA \/ StartB => UNCHANGED aug /\ run'.prog # "aug"
  <2>1. ASSUME NEW c \in MeasureCommands, c.prog \in Progs, Start(c) PROVE UNCHANGED aug /\ run'.prog \in Progs
    BY <2>1 DEF Start, Begin, missionVars
  <2> QED
    BY <2>1 DEF StartA, StartB, Progs
<1>7. CallA \/ CallB => UNCHANGED aug /\ run'.prog # "aug"
  <2>1. ASSUME NEW prog \in Progs, Call(prog) PROVE UNCHANGED aug /\ run'.prog \in Progs
    BY <2>1 DEF Call, missionVars
  <2> QED
    BY <2>1 DEF CallA, CallB, Progs
<1>8. SplitStep \/ UNCHANGED evalVars => UNCHANGED aug /\ run' = run
  BY DEF SplitStep, evalVars, missionVars
<1>9. EndScript => UNCHANGED aug /\ run'.prog # "aug"
  BY DEF EndScript, missionVars, NoRun
<1>10. StartAug \/ WriteMission \/ (UNCHANGED aug /\ (run' = run \/ run'.prog # "aug"))
  BY <1>4, <1>5, <1>6, <1>7, <1>8, <1>9 DEF EvalNext, MissionStep
<1> QED
  BY <1>1, <1>2, <1>3, <1>10

\* A line more is a flag more, here too.
MissionFlags(s) == [i \in DOMAIN s |-> s[i] # "error"]

\* Appending a reply appends its flag.
LEMMA MissionFlagMore ==
  ASSUME NEW W, NEW s \in Seq(W), NEW reply
  PROVE  MissionFlags(Append(s, reply)) = Append(MissionFlags(s), reply # "error")
<1> DEFINE n == Len(s)
           f == MissionFlags(s)
           g == MissionFlags(Append(s, reply))
<1>1. /\ DOMAIN s = 1..n /\ n \in Nat /\ DOMAIN Append(s, reply) = 1..(n + 1)
      /\ \A i \in 1..n : Append(s, reply)[i] = s[i]
      /\ Append(s, reply)[n + 1] = reply
  OBVIOUS
<1> HIDE DEF n
<1>2. f \in [1..n -> BOOLEAN] /\ g \in [1..(n + 1) -> BOOLEAN]
  BY <1>1 DEF MissionFlags
<1>3. (\A i \in 1..n : g[i] = f[i]) /\ g[n + 1] = (reply # "error")
  BY <1>1 DEF MissionFlags
<1> HIDE DEF f, g
<1>4. g = Append(f, g[n + 1])
  BY <1>1, <1>2, <1>3, AppendIs
<1> QED
  BY <1>3, <1>4 DEF f, g

\* The augmentation is a job log: a photo with a written mission, usable or
\* not, is never written about again (write_photo_missions.py:114).
THEOREM AugmentationIsJobLog == EvalSpec => AugLog!JobSpec
<1> DEFINE log == [p \in DOMAIN LabelB |-> [i \in DOMAIN aug[p] |-> aug[p][i] # "error"]]
<1>1. EvalInit => AugInv /\ AugLog!JobInit
  <2> SUFFICES ASSUME EvalInit PROVE AugInv /\ AugLog!JobInit
    OBVIOUS
  <2>1. aug = [p \in DOMAIN LabelB |-> <<>>] /\ run.prog = "none"
    BY DEF EvalInit, NoRun
  <2>2. \A p \in DOMAIN LabelB : aug[p] = <<>> /\ aug[p] \in Seq({})
    BY <2>1
  <2>3. \A s : s = <<>> => [i \in DOMAIN s |-> s[i] # "error"] = <<>>
    OBVIOUS
  <2>4. log = [p \in DOMAIN LabelB |-> <<>>]
    BY <2>2, <2>3
  <2> QED
    BY <2>1, <2>2, <2>4 DEF AugInv, AugLog!JobInit
<1>2. AugInv /\ [EvalNext]_evalVars => AugInv'
  BY AugKept
<1>3. AugInv /\ [EvalNext]_evalVars => [AugLog!JobNext]_log
  <2> SUFFICES ASSUME AugInv, [EvalNext]_evalVars, NEW q \in DOMAIN LabelB
               PROVE  AugLog!Line(q) \/ log'[q] = log[q]
    BY DEF AugLog!JobNext
  <2>1. log[q] = MissionFlags(aug[q]) /\ log'[q] = MissionFlags(aug'[q])
    BY DEF MissionFlags
  <2>2. CASE aug'[q] = aug[q]
    BY <2>1, <2>2
  <2>3. CASE aug'[q] # aug[q]
    <3>1. PICK p \in run.todo, reply \in {"error", "unusable", "usable"} :
            aug' = [aug EXCEPT ![p] = Append(@, reply)] /\ ~Written(p)
      BY <2>3, AugKept
    <3>2. p = q /\ aug'[q] = Append(aug[q], reply)
      BY <2>3, <3>1 DEF AugInv
    <3>3. ~AugLog!Answered(q)
      BY <3>1, <3>2 DEF AugLog!Answered, Written
    <3>4. PICK W : aug[q] \in Seq(W)
      BY DEF AugInv
    <3>5. log'[q] = Append(log[q], reply # "error")
      <4>1. MissionFlags(Append(aug[q], reply)) = Append(MissionFlags(aug[q]), reply # "error")
        BY <3>4, MissionFlagMore
      <4> HIDE DEF log
      <4> QED
        BY <2>1, <3>2, <4>1
    <3>6. (reply # "error") \in BOOLEAN
      OBVIOUS
    <3> QED
      BY <3>3, <3>5, <3>6 DEF AugLog!Line
  <2> QED
    BY <2>2, <2>3
<1> QED
  BY <1>1, <1>2, <1>3, PTL DEF EvalSpec, AugLog!JobSpec
-----------------------------------------------------------------------------
\* The mission files are sequences of lines; those that carry a plan carry the
\* one on record; and the comparison that runs is alone in its file.
PlanInv ==
  /\ missions = [out \in Outs |-> missions[out]] /\ meta = [out \in Outs |-> meta[out]]
  /\ \A out \in Outs : \E W : missions[out] \in Seq(W)
  /\ run.prog = "gen" =>
       /\ run.tag[1] \in Outs /\ run.tag[2] \in {<<>>, meta[run.tag[1]]}
       /\ \A b \in run.todo : \E W : b \in Seq(W)
  /\ PlanAsRecorded

\* A start that goes on finds only lines it may be among.
LEMMA StartKeepsPlan == ASSUME PlanInv, StartGen PROVE PlanInv'
<1>1. PICK c \in GenCommands :
        /\ MayAppend(c.out, plan_sha(c)) /\ write_meta(c.out, plan_sha(c))
        /\ Begin("gen", <<c.out, plan_sha(c)>>,
                 {b \in ToSet(make_batches(RowsFor(c), c.size, c.seed)) : ~(ToSet(b) \subseteq DoneIn(c.out))}, c.cap)
        /\ UNCHANGED missions
  BY DEF StartGen
<1> DEFINE plan == plan_sha(c)
           batches == ToSet(make_batches(RowsFor(c), c.size, c.seed))
<1>2. c.out \in Outs
  BY DEF Outs
<1>3. run'.prog = "gen" /\ run'.tag = <<c.out, plan>> /\ run'.todo \subseteq batches
  <2>1. PICK t \in Capped({b \in batches : ~(ToSet(b) \subseteq DoneIn(c.out))}, c.cap) :
          run' = [prog |-> "gen", tag |-> <<c.out, plan>>, todo |-> t]
    BY <1>1 DEF Begin
  <2>2. t \subseteq batches
    BY <2>1 DEF Capped
  <2> HIDE DEF plan, batches
  <2> QED
    BY <2>1, <2>2
<1>4. \A b \in batches : \E W : b \in Seq(W)
  <2>1. RowsFor(c) \in SUBSET PhotosB
    BY DEF RowsFor
  <2> QED
    BY <2>1, BatchAssumption
<1> HIDE DEF plan, batches
<1>5. \/ plan = <<>> /\ meta' = meta
      \/ plan # <<>> /\ meta[c.out] \in {<<>>, plan} /\ meta' = [meta EXCEPT ![c.out] = plan]
           /\ \A i \in DOMAIN missions[c.out] : missions[c.out][i].plan = plan
  BY <1>1 DEF MayAppend, write_meta, plan
<1>6. run'.tag[1] = c.out /\ run'.tag[2] = plan
  BY <1>3
<1>7. /\ meta' = [out \in Outs |-> meta'[out]] /\ plan \in {<<>>, meta'[c.out]}
      /\ \A out \in Outs : out # c.out \/ plan = <<>> => meta'[out] = meta[out]
  BY <1>2, <1>5 DEF PlanInv
<1>8. PlanAsRecorded'
  <2>1. ASSUME NEW out \in Outs, NEW i \in DOMAIN missions[out]
        PROVE  missions[out][i].plan \in {<<>>, meta'[out]}
    BY <1>2, <1>5, <1>7 DEF PlanInv, PlanAsRecorded
  <2>2. plan # <<>> => \A i \in DOMAIN missions[c.out] : missions[c.out][i].plan = plan
    BY <1>5
  <2> QED
    BY <1>1, <1>3, <1>6, <2>1, <2>2 DEF PlanAsRecorded, Outs
<1> QED
  BY <1>1, <1>2, <1>3, <1>4, <1>6, <1>7, <1>8 DEF PlanInv, Outs

\* The lines of a batch carry the plan of the start that makes them.
LEMMA BatchKeepsPlan == ASSUME PlanInv, CallBatch PROVE PlanInv'
<1>1. PICK b \in run.todo, ok \in BOOLEAN :
        /\ missions' = [missions EXCEPT ![run.tag[1]] =
             @ \o [i \in DOMAIN b |-> [photo |-> b[i], ok |-> ok, plan |-> run.tag[2]]]]
        /\ run' = [run EXCEPT !.todo = @ \ {b}]
  BY DEF CallBatch
<1> DEFINE out == run.tag[1]
           plan == run.tag[2]
           new == [i \in DOMAIN b |-> [photo |-> b[i], ok |-> ok, plan |-> plan]]
<1>2. run.prog = "gen" /\ meta' = meta /\ out \in Outs /\ plan \in {<<>>, meta[out]}
  BY DEF CallBatch, PlanInv
<1>3. run'.prog = "gen" /\ run'.tag = run.tag /\ run'.todo \subseteq run.todo
  BY <1>1, <1>2
<1>4. new \in Seq({[photo |-> b[i], ok |-> ok, plan |-> plan] : i \in DOMAIN b}) /\ \A i \in DOMAIN new : new[i].plan = plan
  <2>1. PICK W : b \in Seq(W)
    BY <1>1, <1>2 DEF PlanInv
  <2>2. Len(b) \in Nat /\ DOMAIN b = 1..Len(b)
    BY <2>1
  <2> QED
    BY <2>2, SeqDef
<1>5. PICK W : missions[out] \in Seq(W)
  BY <1>2 DEF PlanInv
<1>6. missions'[out] = missions[out] \o new /\ \A o \in Outs \ {out} : missions'[o] = missions[o]
  BY <1>1, <1>2 DEF PlanInv
<1>7. missions' = [o \in Outs |-> missions'[o]]
  BY <1>1, <1>2 DEF PlanInv
<1>8. PICK V : new \in Seq(V)
  BY <1>4
<1> HIDE DEF new
<1>9. /\ missions[out] \o new \in Seq(W \cup V)
      /\ \A i \in DOMAIN missions'[out] :
           \/ i \in DOMAIN missions[out] /\ missions'[out][i] = missions[out][i]
           \/ \E j \in DOMAIN new : missions'[out][i] = new[j]
  <2> DEFINE s == missions[out]
  <2>1. s \in Seq(W \cup V) /\ new \in Seq(W \cup V)
    BY <1>5, <1>8, SeqMonotonic
  <2> HIDE DEF s
  <2>2. /\ s \o new \in Seq(W \cup V) /\ Len(s \o new) = Len(s) + Len(new)
        /\ \A i \in 1..(Len(s) + Len(new)) : (s \o new)[i] = IF i <= Len(s) THEN s[i] ELSE new[i - Len(s)]
        /\ Len(s) \in Nat /\ Len(new) \in Nat /\ DOMAIN s = 1..Len(s) /\ DOMAIN new = 1..Len(new)
        /\ DOMAIN (s \o new) = 1..(Len(s) + Len(new))
    BY <2>1
  <2>3. ASSUME NEW i \in DOMAIN (s \o new)
        PROVE  \/ i \in DOMAIN s /\ (s \o new)[i] = s[i]
               \/ \E j \in DOMAIN new : (s \o new)[i] = new[j]
    <3>1. CASE i <= Len(s)
      BY <2>2, <2>3, <3>1
    <3>2. CASE ~(i <= Len(s))
      <4>1. i - Len(s) \in DOMAIN new
        BY <2>2, <2>3, <3>2
      <4> QED
        BY <2>2, <2>3, <3>2, <4>1
    <3> QED
      BY <3>1, <3>2
  <2> QED
    BY <1>6, <2>2, <2>3 DEF s
<1>10. \A o \in Outs : \E U : missions'[o] \in Seq(U)
  <2> SUFFICES ASSUME NEW o \in Outs PROVE \E U : missions'[o] \in Seq(U)
    OBVIOUS
  <2>1. CASE o = out
    <3>1. missions'[o] \in Seq(W \cup V)
      BY <1>6, <1>9, <2>1
    <3> QED
      BY <3>1
  <2>2. CASE o # out
    BY <1>6, <2>2 DEF PlanInv
  <2> QED
    BY <2>1, <2>2
<1>11. PlanAsRecorded'
  <2>1. ASSUME NEW o \in Outs, NEW i \in DOMAIN missions'[o] PROVE missions'[o][i].plan \in {<<>>, meta[o]}
    <3>1. CASE o # out
      BY <1>6, <3>1 DEF PlanInv, PlanAsRecorded
    <3>2. CASE o = out
      <4>1. \A j \in DOMAIN missions[out] : missions[out][j].plan \in {<<>>, meta[out]}
        BY <1>2 DEF PlanInv, PlanAsRecorded
      <4> QED
        BY <1>2, <1>4, <1>9, <3>2, <4>1
    <3> QED
      BY <3>1, <3>2
  <2>2. ASSUME plan # <<>>, NEW i \in DOMAIN missions'[out] PROVE missions'[out][i].plan = plan
    <3>1. \A j \in DOMAIN missions[out] : missions[out][j].plan = plan
      BY <1>2, <2>2 DEF PlanInv, PlanAsRecorded
    <3> QED
      BY <1>4, <1>9, <3>1
  <2> QED
    BY <1>2, <1>3, <2>1, <2>2 DEF PlanAsRecorded, Outs
<1> QED
  BY <1>2, <1>3, <1>7, <1>10, <1>11 DEF PlanInv, Outs

\* Only two actions have to do with the mission files and their plans.
LEMMA PlanSteps ==
  ASSUME [EvalNext]_evalVars
  PROVE  StartGen \/ CallBatch \/ (UNCHANGED <<missions, meta>> /\ (run' = run \/ run'.prog # "gen"))
<1>1. StartAug => UNCHANGED <<missions, meta>> /\ run'.prog # "gen"
  BY DEF StartAug, Begin, missionVars
<1>2. WriteMission => UNCHANGED <<missions, meta>> /\ run'.prog # "gen"
  BY DEF WriteMission
<1>3. StartA \/ StartB => UNCHANGED <<missions, meta>> /\ run'.prog # "gen"
  <2>1. ASSUME NEW c \in MeasureCommands, c.prog \in Progs, Start(c)
        PROVE  UNCHANGED <<missions, meta>> /\ run'.prog \in Progs
    BY <2>1 DEF Start, Begin, missionVars
  <2> QED
    BY <2>1 DEF StartA, StartB, Progs
<1>4. CallA \/ CallB => UNCHANGED <<missions, meta>> /\ run'.prog # "gen"
  <2>1. ASSUME NEW prog \in Progs, Call(prog) PROVE UNCHANGED <<missions, meta>> /\ run'.prog \in Progs
    BY <2>1 DEF Call, missionVars
  <2> QED
    BY <2>1 DEF CallA, CallB, Progs
<1>5. SplitStep \/ EndScript \/ UNCHANGED evalVars =>
        UNCHANGED <<missions, meta>> /\ (run' = run \/ run'.prog # "gen")
  BY DEF SplitStep, EndScript, evalVars, missionVars, NoRun
<1> QED
  BY <1>1, <1>2, <1>3, <1>4, <1>5 DEF EvalNext, MissionStep

\* What is recorded stays the plan of what is written, step by step.
LEMMA PlanKept == ASSUME PlanInv, [EvalNext]_evalVars PROVE PlanInv'
<1>1. CASE StartGen
  BY <1>1, StartKeepsPlan
<1>2. CASE CallBatch
  BY <1>2, BatchKeepsPlan
<1>3. CASE UNCHANGED <<missions, meta>> /\ (run' = run \/ run'.prog # "gen")
  <2>1. PlanAsRecorded'
    BY <1>3 DEF PlanInv, PlanAsRecorded, Outs
  <2> QED
    BY <1>3, <2>1 DEF PlanInv, Outs
<1> QED
  BY <1>1, <1>2, <1>3, PlanSteps

\* Nothing is recorded and nothing written at first.
LEMMA PlanStarts == ASSUME EvalInit PROVE PlanInv
<1>1. missions = [out \in Outs |-> <<>>] /\ meta = [out \in Outs |-> <<>>] /\ run.prog = "none"
  BY DEF EvalInit, NoRun
<1>2. \A out \in Outs : missions[out] = <<>> /\ missions[out] \in Seq({}) /\ DOMAIN missions[out] = {}
  BY <1>1
<1> QED
  BY <1>1, <1>2 DEF PlanInv, PlanAsRecorded

\* A comparison of prompts never shares its file with another, whatever died
\* before it wrote a line and whatever a plain start appended
\* (generate_eval_missions.py:206).
THEOREM PlansOnRecord == EvalSpec => []PlanAsRecorded
<1>1. EvalInit => PlanInv
  BY PlanStarts
<1>2. PlanInv /\ [EvalNext]_evalVars => PlanInv'
  BY PlanKept
<1>3. PlanInv => PlanAsRecorded
  BY DEF PlanInv
<1> QED
  BY <1>1, <1>2, <1>3, PTL DEF EvalSpec
-----------------------------------------------------------------------------
(***************************************************************************)
(* The comparisons of prompts as a job log.                                *)
(***************************************************************************)
\* The positions of a finite set are counted off, one for each number.
CountTo(at, i) == Cardinality({j \in at : j <= i})

\* Counting off numbers the positions from one to their number, each once.
LEMMA Positions ==
  ASSUME NEW at \in SUBSET Nat, IsFiniteSet(at)
  PROVE  /\ Cardinality(at) \in Nat
         /\ \A i \in at : CountTo(at, i) \in 1..Cardinality(at)
         /\ \A i, j \in at : CountTo(at, i) = CountTo(at, j) => i = j
         /\ \A n \in 1..Cardinality(at) : \E i \in at : CountTo(at, i) = n
<1> DEFINE N == Cardinality(at)
           UpTo(i) == {j \in at : j <= i}
           rank == [i \in at |-> Cardinality(UpTo(i))]
<1>1. N \in Nat /\ IsFiniteSet(1..N) /\ Cardinality(1..N) = N
  BY FS_CardinalityType, FS_Interval
<1>2. ASSUME NEW i \in at
      PROVE  IsFiniteSet(UpTo(i)) /\ Cardinality(UpTo(i)) \in 1..N
  <2>1. UpTo(i) \in SUBSET at /\ i \in UpTo(i)
    OBVIOUS
  <2>2. IsFiniteSet(UpTo(i)) /\ Cardinality(UpTo(i)) <= N
    BY <2>1, FS_Subset
  <2>3. Cardinality(UpTo(i)) \in Nat /\ Cardinality(UpTo(i)) # 0
    BY <2>1, <2>2, FS_CardinalityType, FS_EmptySet
  <2> QED
    BY <1>1, <2>2, <2>3
<1>3. ASSUME NEW i \in at, NEW j \in at, i < j
      PROVE  Cardinality(UpTo(i)) # Cardinality(UpTo(j))
  <2>1. \A x \in at : x <= i => x <= j
    BY <1>3
  <2>2. UpTo(i) \in SUBSET UpTo(j)
    BY <2>1
  <2>3. j \in UpTo(j) /\ j \notin UpTo(i)
    BY <1>3
  <2>4. IsFiniteSet(UpTo(j))
    BY <1>2
  <2> QED
    BY <2>2, <2>3, <2>4, FS_Subset
<1>4. \A i, j \in at : Cardinality(UpTo(i)) = Cardinality(UpTo(j)) => i = j
  <2> SUFFICES ASSUME NEW i \in at, NEW j \in at, Cardinality(UpTo(i)) = Cardinality(UpTo(j)) PROVE i = j
    OBVIOUS
  <2>1. ~(i < j) /\ ~(j < i)
    BY <1>3
  <2> QED
    BY <2>1
<1>5. rank \in Injection(at, 1..N)
  BY <1>2, <1>4 DEF Injection, IsInjective
<1>6. rank \in Surjection(at, 1..N)
  BY <1>1, <1>5, FS_Injection
<1>7. \A n \in 1..N : \E i \in at : rank[i] = n
  BY <1>6 DEF Surjection
<1> QED
  BY <1>1, <1>2, <1>4, <1>7 DEF CountTo

\* The n-th of the lines at some positions.
LEMMA LineAt ==
  ASSUME NEW at \in SUBSET Nat, IsFiniteSet(at), NEW s, NEW i \in at
  PROVE  /\ CountTo(at, i) \in 1..Cardinality(at)
         /\ LinesAt(s, at)[CountTo(at, i)] = s[i]
<1>1. CountTo(at, i) \in 1..Cardinality(at) /\ \A j \in at : CountTo(at, j) = CountTo(at, i) => j = i
  BY Positions
<1>2. (CHOOSE j \in at : CountTo(at, j) = CountTo(at, i)) = i
  BY <1>1
<1> QED
  BY <1>1, <1>2 DEF LinesAt, CountTo

\* The lines at the same positions of a longer file are the same.
LEMMA LinesSame ==
  ASSUME NEW at \in SUBSET Nat, IsFiniteSet(at), NEW s, NEW t, \A i \in at : t[i] = s[i]
  PROVE  LinesAt(t, at) = LinesAt(s, at)
<1> DEFINE N == Cardinality(at)
<1>1. ASSUME NEW n \in 1..N PROVE LinesAt(t, at)[n] = LinesAt(s, at)[n]
  <2>1. PICK i \in at : CountTo(at, i) = n
    BY Positions
  <2> QED
    BY <2>1, LineAt
<1>2. LinesAt(t, at) = [n \in 1..N |-> LinesAt(t, at)[n]] /\ LinesAt(s, at) = [n \in 1..N |-> LinesAt(s, at)[n]]
  BY DEF LinesAt
<1> HIDE DEF N
<1> QED
  BY <1>1, <1>2, Zenon

\* A line at a later position comes last.
LEMMA LinesMore ==
  ASSUME NEW at \in SUBSET Nat, IsFiniteSet(at), NEW s, NEW t, NEW m \in Nat,
         \A i \in at : t[i] = s[i] /\ i < m
  PROVE  LinesAt(t, at \cup {m}) = Append(LinesAt(s, at), t[m])
<1> DEFINE N == Cardinality(at)
           more == at \cup {m}
<1>1. m \notin at
  BY SMT
<1>2. N \in Nat /\ more \in SUBSET Nat /\ IsFiniteSet(more) /\ Cardinality(more) = N + 1
  BY <1>1, FS_AddElement, FS_CardinalityType
<1>3. ASSUME NEW i \in at PROVE CountTo(more, i) = CountTo(at, i)
  <2>1. {j \in more : j <= i} = {j \in at : j <= i}
    BY SMT
  <2> QED
    BY <2>1 DEF CountTo
<1>4. CountTo(more, m) = N + 1
  <2>1. {j \in more : j <= m} = more
    BY SMT
  <2> QED
    BY <1>2, <2>1 DEF CountTo
<1> HIDE DEF N, more
<1>5. m \in more /\ at \subseteq more
  BY DEF more
<1> DEFINE f == LinesAt(s, at)
           g == LinesAt(t, more)
<1>6. f = [i \in 1..N |-> f[i]] /\ g = [i \in 1..(N + 1) |-> g[i]]
  BY <1>2 DEF LinesAt, N
<1>7. ASSUME NEW n \in 1..N PROVE g[n] = f[n]
  <2>1. PICK i \in at : CountTo(at, i) = n
    BY Positions DEF N
  <2>2. f[n] = s[i]
    BY <2>1, LineAt
  <2>3. g[n] = t[i]
    BY <1>2, <1>3, <1>5, <2>1, LineAt
  <2> QED
    BY <2>2, <2>3
<1>8. g[N + 1] = t[m]
  BY <1>2, <1>4, <1>5, LineAt
<1> HIDE DEF f, g
<1>9. g = Append(f, g[N + 1])
  <2> DEFINE S == {g[n] : n \in 1..(N + 1)}
  <2>1. g \in [1..(N + 1) -> S]
    BY <1>6
  <2>2. \A n \in 1..N : n \in 1..(N + 1) /\ g[n] = f[n]
    BY <1>2, <1>7
  <2>3. f \in [1..N -> S]
    BY <1>6, <2>2
  <2> HIDE DEF S
  <2> QED
    BY <1>2, <2>1, <2>2, <2>3, AppendIs
<1> QED
  BY <1>8, <1>9 DEF f, g, more

\* The file t is the file s with the lines of the batch b behind it.
Appended(s, t, b, ok, plan) ==
  /\ Len(s) \in Nat /\ DOMAIN s = 1..Len(s) /\ Len(b) \in Nat /\ DOMAIN b = 1..Len(b)
  /\ DOMAIN t = 1..(Len(s) + Len(b))
  /\ \A i \in 1..Len(s) : t[i] = s[i]
  /\ \A j \in 1..Len(b) : t[Len(s) + j] = [photo |-> b[j], ok |-> ok, plan |-> plan]

\* Where the lines of comparisons for a photo are, and whether one is a mission.
PlanAt(s, p) == {i \in DOMAIN s : s[i].photo = p /\ s[i].plan # <<>>}
PlanDone(s, p) == \E i \in PlanAt(s, p) : s[i].ok

\* Each line of the longer file is an old one or of the batch.
LEMMA OldOrNew ==
  ASSUME NEW s, NEW t, NEW b, NEW ok, NEW plan, Appended(s, t, b, ok, plan), NEW i \in DOMAIN t
  PROVE  \/ i \in DOMAIN s /\ t[i] = s[i]
         \/ \E j \in DOMAIN b : i = Len(s) + j /\ t[i] = [photo |-> b[j], ok |-> ok, plan |-> plan]
<1>1. CASE i <= Len(s)
  BY <1>1 DEF Appended
<1>2. CASE ~(i <= Len(s))
  <2>1. i - Len(s) \in 1..Len(b) /\ i = Len(s) + (i - Len(s))
    BY <1>2 DEF Appended
  <2> QED
    BY <2>1 DEF Appended
<1> QED
  BY <1>1, <1>2

\* A batch that answers settles its photos, and no other.
LEMMA DoneAfter ==
  ASSUME NEW s, NEW t, NEW b, NEW ok, NEW plan, Appended(s, t, b, ok, plan), NEW p
  PROVE  PlanDone(t, p) <=> PlanDone(s, p) \/ (plan # <<>> /\ ok /\ p \in ToSet(b))
<1>1. ASSUME PlanDone(t, p) PROVE PlanDone(s, p) \/ (plan # <<>> /\ ok /\ p \in ToSet(b))
  <2>1. PICK i \in DOMAIN t : t[i].photo = p /\ t[i].plan # <<>> /\ t[i].ok
    BY <1>1 DEF PlanDone, PlanAt
  <2>2. CASE i \in DOMAIN s /\ t[i] = s[i]
    BY <2>1, <2>2 DEF PlanDone, PlanAt
  <2>3. CASE \E j \in DOMAIN b : t[i] = [photo |-> b[j], ok |-> ok, plan |-> plan]
    BY <2>1, <2>3 DEF ToSet
  <2> QED
    BY <2>2, <2>3, OldOrNew
<1>2. ASSUME PlanDone(s, p) PROVE PlanDone(t, p)
  <2>1. PICK i \in DOMAIN s : s[i].photo = p /\ s[i].plan # <<>> /\ s[i].ok
    BY <1>2 DEF PlanDone, PlanAt
  <2>2. i \in DOMAIN t /\ t[i] = s[i]
    BY DEF Appended
  <2> QED
    BY <2>1, <2>2 DEF PlanDone, PlanAt
<1>3. ASSUME plan # <<>>, ok, p \in ToSet(b) PROVE PlanDone(t, p)
  <2>1. PICK j \in DOMAIN b : b[j] = p
    BY <1>3 DEF ToSet
  <2>2. Len(s) + j \in DOMAIN t /\ t[Len(s) + j] = [photo |-> p, ok |-> ok, plan |-> plan]
    BY <2>1 DEF Appended
  <2> QED
    BY <1>3, <2>2 DEF PlanDone, PlanAt
<1> QED
  BY <1>1, <1>2, <1>3

\* A file has finitely many lines.
LEMMA PlanAtFinite ==
  ASSUME NEW s, Len(s) \in Nat, DOMAIN s = 1..Len(s), NEW p
  PROVE  PlanAt(s, p) \in SUBSET Nat /\ IsFiniteSet(PlanAt(s, p))
<1>1. PlanAt(s, p) \in SUBSET (1..Len(s)) /\ IsFiniteSet(1..Len(s))
  BY FS_Interval DEF PlanAt
<1> QED
  BY <1>1, FS_Subset

\* Lines of other photos, or without a plan, leave a photo's lines alone.
LEMMA OtherLines ==
  ASSUME NEW s, NEW t, NEW b, NEW ok, NEW plan, Appended(s, t, b, ok, plan), NEW p,
         plan = <<>> \/ p \notin ToSet(b)
  PROVE  LinesAt(t, PlanAt(t, p)) = LinesAt(s, PlanAt(s, p))
<1>1. PlanAt(t, p) = PlanAt(s, p)
  <2>1. ASSUME NEW i \in PlanAt(t, p) PROVE i \in PlanAt(s, p)
    <3>1. i \in DOMAIN t /\ t[i].photo = p /\ t[i].plan # <<>>
      BY DEF PlanAt
    <3>2. ~ \E j \in DOMAIN b : t[i] = [photo |-> b[j], ok |-> ok, plan |-> plan]
      BY <3>1 DEF ToSet
    <3>3. i \in DOMAIN s /\ t[i] = s[i]
      BY <3>1, <3>2, OldOrNew
    <3> QED
      BY <3>1, <3>3 DEF PlanAt
  <2>2. ASSUME NEW i \in PlanAt(s, p) PROVE i \in PlanAt(t, p)
    <3>1. i \in DOMAIN s /\ i \in DOMAIN t /\ t[i] = s[i]
      BY DEF PlanAt, Appended
    <3> QED
      BY <3>1 DEF PlanAt
  <2> QED
    BY <2>1, <2>2
<1>2. \A i \in PlanAt(s, p) : t[i] = s[i]
  BY DEF PlanAt, Appended
<1>3. PlanAt(s, p) \in SUBSET Nat /\ IsFiniteSet(PlanAt(s, p))
  BY PlanAtFinite DEF Appended
<1> QED
  BY <1>1, <1>2, <1>3, LinesSame

\* A photo of the batch gets one line more.
LEMMA OwnLine ==
  ASSUME NEW s, NEW t, NEW b, NEW ok, NEW plan, Appended(s, t, b, ok, plan),
         \A i, j \in DOMAIN b : b[i] = b[j] => i = j,
         plan # <<>>, NEW p \in ToSet(b)
  PROVE  \E line : line.ok = ok /\ LinesAt(t, PlanAt(t, p)) = Append(LinesAt(s, PlanAt(s, p)), line)
<1>1. PICK j \in DOMAIN b : b[j] = p
  BY DEF ToSet
<1>2. PICK m : m = Len(s) + j
  OBVIOUS
<1>3. m \in Nat /\ m \in DOMAIN t /\ t[m] = [photo |-> p, ok |-> ok, plan |-> plan]
  BY <1>1, <1>2 DEF Appended
<1>4. \A i \in PlanAt(s, p) : t[i] = s[i] /\ i < m
  BY <1>1, <1>2 DEF PlanAt, Appended
<1>5. PlanAt(s, p) \in SUBSET Nat /\ IsFiniteSet(PlanAt(s, p))
  BY PlanAtFinite DEF Appended
<1>6. PlanAt(t, p) = PlanAt(s, p) \cup {m}
  <2>1. ASSUME NEW i \in PlanAt(t, p) PROVE i \in PlanAt(s, p) \/ i = m
    <3>1. i \in DOMAIN t /\ t[i].photo = p /\ t[i].plan # <<>>
      BY DEF PlanAt
    <3>2. CASE i \in DOMAIN s /\ t[i] = s[i]
      BY <3>1, <3>2 DEF PlanAt
    <3>3. CASE \E k \in DOMAIN b : i = Len(s) + k /\ t[i] = [photo |-> b[k], ok |-> ok, plan |-> plan]
      <4>1. PICK k \in DOMAIN b : i = Len(s) + k /\ b[k] = p
        BY <3>1, <3>3
      <4>2. k = j
        BY <1>1, <4>1
      <4> QED
        BY <1>2, <4>1, <4>2
    <3> QED
      BY <3>1, <3>2, <3>3, OldOrNew
  <2>2. ASSUME NEW i \in PlanAt(s, p) PROVE i \in PlanAt(t, p)
    <3>1. i \in DOMAIN s /\ i \in DOMAIN t /\ t[i] = s[i]
      BY DEF PlanAt, Appended
    <3> QED
      BY <3>1 DEF PlanAt
  <2>3. m \in PlanAt(t, p)
    BY <1>3 DEF PlanAt
  <2> QED
    BY <2>1, <2>2, <2>3
<1>7. LinesAt(t, PlanAt(s, p) \cup {m}) = Append(LinesAt(s, PlanAt(s, p)), t[m])
  BY <1>3, <1>4, <1>5, LinesMore
<1> QED
  BY <1>3, <1>6, <1>7

\* A line more is a flag more, here too.
OkFlags(s) == [i \in DOMAIN s |-> s[i].ok]

\* Appending a line to those at some positions appends its flag.
LEMMA OkFlagMore ==
  ASSUME NEW at, Cardinality(at) \in Nat, NEW s, NEW line
  PROVE  OkFlags(Append(LinesAt(s, at), line)) = Append(OkFlags(LinesAt(s, at)), line.ok)
<1> DEFINE n == Cardinality(at)
           r == LinesAt(s, at)
           R == {r[i] : i \in 1..n} \cup {line}
           f == OkFlags(r)
           g == OkFlags(Append(r, line))
           S == {x.ok : x \in R}
<1>1. r \in [1..n -> R] /\ line \in R
  BY DEF LinesAt
<1> HIDE DEF R, r, n
<1>2. /\ DOMAIN r = 1..n /\ DOMAIN Append(r, line) = 1..(n + 1)
      /\ \A i \in 1..n : r[i] \in R /\ Append(r, line)[i] = r[i]
      /\ Append(r, line)[n + 1] = line /\ n \in Nat
  BY <1>1 DEF n
<1>3. f \in [1..n -> S]
  BY <1>2 DEF OkFlags
<1>4. \A i \in 1..(n + 1) : Append(r, line)[i] \in R
  BY <1>1, <1>2
<1>5. g \in [1..(n + 1) -> S]
  BY <1>2, <1>4 DEF OkFlags
<1>6. (\A i \in 1..n : g[i] = f[i]) /\ g[n + 1] = line.ok
  BY <1>2 DEF OkFlags
<1> HIDE DEF S, f, g
<1>7. g = Append(f, g[n + 1])
  BY <1>2, <1>3, <1>5, <1>6, AppendIs
<1> QED
  BY <1>6, <1>7 DEF f, g, r

BatchesOf(plan) == ToSet(plan[2])

\* A comparison settles its batches one by one and as a whole: a batch that is
\* left to do has no mission, since it has none or one for every photo.
CompareInv ==
  /\ PlanInv
  /\ \A out \in Outs : meta[out] # <<>> =>
       /\ \A b \in BatchesOf(meta[out]) : \A i, j \in DOMAIN b : b[i] = b[j] => i = j
       /\ \A a, b \in BatchesOf(meta[out]) : a # b => ToSet(a) \cap ToSet(b) = {}
       /\ \A b \in BatchesOf(meta[out]) : \A p, q \in ToSet(b) :
            PlanDone(missions[out], p) => PlanDone(missions[out], q)
  /\ run.prog = "gen" /\ run.tag[2] # <<>> =>
       /\ run.todo \subseteq BatchesOf(run.tag[2])
       /\ \A b \in run.todo : \A p \in ToSet(b) : ~PlanDone(missions[run.tag[1]], p)

\* What a call appends.
LEMMA BatchAppends ==
  ASSUME PlanInv, CallBatch
  PROVE  \E b \in run.todo, ok \in BOOLEAN :
           /\ run'.prog = "gen" /\ run'.tag = run.tag /\ run'.todo = run.todo \ {b}
           /\ Appended(missions[run.tag[1]], missions'[run.tag[1]], b, ok, run.tag[2])
           /\ \A o \in Outs \ {run.tag[1]} : missions'[o] = missions[o]
           /\ run.tag[1] \in Outs /\ run.tag[2] \in {<<>>, meta[run.tag[1]]} /\ meta' = meta
           /\ run.prog = "gen"
<1>1. PICK b \in run.todo, ok \in BOOLEAN :
        /\ missions' = [missions EXCEPT ![run.tag[1]] =
             @ \o [i \in DOMAIN b |-> [photo |-> b[i], ok |-> ok, plan |-> run.tag[2]]]]
        /\ run' = [run EXCEPT !.todo = @ \ {b}]
  BY DEF CallBatch
<1> DEFINE out == run.tag[1]
           plan == run.tag[2]
           new == [i \in DOMAIN b |-> [photo |-> b[i], ok |-> ok, plan |-> plan]]
           s == missions[out]
<1>2. run.prog = "gen" /\ meta' = meta /\ out \in Outs /\ plan \in {<<>>, meta[out]}
  BY DEF CallBatch, PlanInv
<1>3. run'.prog = "gen" /\ run'.tag = run.tag /\ run'.todo = run.todo \ {b}
  <2>1. run.todo \ {b} = run'.todo /\ run'.tag = run.tag /\ run'.prog = run.prog
    BY <1>1
  <2> QED
    BY <1>2, <2>1
<1>4. Len(b) \in Nat /\ DOMAIN b = 1..Len(b)
  BY <1>1, <1>2 DEF PlanInv
<1>5. PICK W : s \in Seq(W)
  BY <1>2 DEF PlanInv
<1>6. missions'[out] = s \o new /\ \A o \in Outs \ {out} : missions'[o] = missions[o]
  BY <1>1, <1>2 DEF PlanInv
<1>7. new \in Seq({[photo |-> b[i], ok |-> ok, plan |-> plan] : i \in DOMAIN b}) /\ Len(new) = Len(b)
      /\ \A i \in 1..Len(b) : new[i] = [photo |-> b[i], ok |-> ok, plan |-> plan]
  BY <1>4
<1>8. PICK V : new \in Seq(V)
  BY <1>7
<1> HIDE DEF new, s
<1>9. s \in Seq(W \cup V) /\ new \in Seq(W \cup V)
  BY <1>5, <1>8, SeqMonotonic
<1>10. /\ Len(s) \in Nat /\ DOMAIN s = 1..Len(s) /\ DOMAIN (s \o new) = 1..(Len(s) + Len(new))
       /\ \A i \in 1..(Len(s) + Len(new)) : (s \o new)[i] = IF i <= Len(s) THEN s[i] ELSE new[i - Len(s)]
  BY <1>9
<1>11. \A i \in 1..Len(s) : (s \o new)[i] = s[i]
  BY <1>4, <1>7, <1>10
<1>12. \A j \in 1..Len(b) : (s \o new)[Len(s) + j] = new[j]
  BY <1>4, <1>7, <1>10
<1>13. Appended(s, missions'[out], b, ok, plan)
  BY <1>4, <1>6, <1>7, <1>10, <1>11, <1>12 DEF Appended
<1> QED
  BY <1>1, <1>2, <1>3, <1>6, <1>13 DEF s

\* The batches of a start are those of its plan, and each photo is in one.
LEMMA PlannedBatches ==
  ASSUME NEW c \in GenCommands
  PROVE  LET batches == ToSet(make_batches(RowsFor(c), c.size, c.seed))
         IN  /\ plan_sha(c) # <<>> => BatchesOf(plan_sha(c)) = batches
             /\ \A b \in batches : \A i, j \in DOMAIN b : b[i] = b[j] => i = j
             /\ \A a, b \in batches : a # b => ToSet(a) \cap ToSet(b) = {}
<1> DEFINE all == make_batches(RowsFor(c), c.size, c.seed)
           batches == ToSet(all)
<1>1. RowsFor(c) \in SUBSET PhotosB
  BY DEF RowsFor
<1>2. /\ \A b \in batches : \A i, j \in DOMAIN b : b[i] = b[j] => i = j
      /\ \A a, b \in batches : a # b => ToSet(a) \cap ToSet(b) = {}
  BY <1>1, BatchAssumption
<1>3. ASSUME plan_sha(c) # <<>> PROVE BatchesOf(plan_sha(c)) = batches
  <2>1. plan_sha(c) = <<c.prompt, all, c.size, c.seed>>
    BY <1>3 DEF plan_sha
  <2> HIDE DEF all
  <2>2. plan_sha(c)[2] = all
    BY <2>1
  <2> QED
    BY <2>2 DEF BatchesOf, batches
<1> QED
  BY <1>2, <1>3

\* A comparison goes on where its own lines end: it takes the batches without a
\* mission.
LEMMA StartKeepsCompare == ASSUME CompareInv, StartGen PROVE CompareInv'
<1>1. PICK c \in GenCommands :
        /\ MayAppend(c.out, plan_sha(c)) /\ write_meta(c.out, plan_sha(c))
        /\ Begin("gen", <<c.out, plan_sha(c)>>,
                 {b \in ToSet(make_batches(RowsFor(c), c.size, c.seed)) : ~(ToSet(b) \subseteq DoneIn(c.out))}, c.cap)
        /\ UNCHANGED missions
  BY DEF StartGen
<1> DEFINE plan == plan_sha(c)
           batches == ToSet(make_batches(RowsFor(c), c.size, c.seed))
           left == {b \in batches : ~(ToSet(b) \subseteq DoneIn(c.out))}
<1>2. c.out \in Outs
  BY DEF Outs
<1>3. run'.prog = "gen" /\ run'.tag[1] = c.out /\ run'.tag[2] = plan /\ run'.todo \subseteq left
  <2>1. PICK t \in Capped(left, c.cap) : run' = [prog |-> "gen", tag |-> <<c.out, plan>>, todo |-> t]
    BY <1>1 DEF Begin
  <2>2. t \subseteq left
    BY <2>1 DEF Capped
  <2> HIDE DEF plan, left
  <2> QED
    BY <2>1, <2>2
<1>4. /\ plan # <<>> => BatchesOf(plan) = batches
      /\ \A b \in batches : \A i, j \in DOMAIN b : b[i] = b[j] => i = j
      /\ \A a, b \in batches : a # b => ToSet(a) \cap ToSet(b) = {}
  BY PlannedBatches
<1>5. \/ plan = <<>> /\ meta' = meta
      \/ plan # <<>> /\ meta[c.out] \in {<<>>, plan} /\ meta' = [meta EXCEPT ![c.out] = plan]
           /\ \A i \in DOMAIN missions[c.out] : missions[c.out][i].plan = plan
  BY <1>1 DEF MayAppend, write_meta
<1> HIDE DEF plan, batches
<1>6. /\ \A out \in Outs \ {c.out} : meta'[out] = meta[out]
      /\ plan = <<>> => meta'[c.out] = meta[c.out]
      /\ plan # <<>> => meta'[c.out] = plan
  BY <1>2, <1>5 DEF CompareInv, PlanInv
<1>7. PlanInv'
  BY StartKeepsPlan DEF CompareInv
<1>8. ASSUME plan # <<>>, meta[c.out] = <<>> PROVE DOMAIN missions[c.out] = {}
  <2>1. \A i \in DOMAIN missions[c.out] : missions[c.out][i].plan \in {<<>>, meta[c.out]}
    BY <1>2 DEF CompareInv, PlanInv, PlanAsRecorded
  <2> QED
    BY <1>5, <1>8, <2>1
<1>9. ASSUME plan # <<>>, NEW b \in batches, NEW p \in ToSet(b), NEW q \in ToSet(b), PlanDone(missions[c.out], p)
      PROVE  PlanDone(missions[c.out], q)
  <2>1. CASE meta[c.out] = <<>>
    BY <1>8, <1>9, <2>1 DEF PlanDone, PlanAt
  <2>2. CASE meta[c.out] = plan
    BY <1>2, <1>4, <1>9, <2>2 DEF CompareInv
  <2> QED
    BY <1>5, <1>9, <2>1, <2>2
<1>10. ASSUME NEW out \in Outs, meta'[out] # <<>>
       PROVE  /\ \A b \in BatchesOf(meta'[out]) : \A i, j \in DOMAIN b : b[i] = b[j] => i = j
              /\ \A a, b \in BatchesOf(meta'[out]) : a # b => ToSet(a) \cap ToSet(b) = {}
              /\ \A b \in BatchesOf(meta'[out]) : \A p, q \in ToSet(b) :
                   PlanDone(missions[out], p) => PlanDone(missions[out], q)
  <2>1. CASE out = c.out /\ plan # <<>>
    BY <1>4, <1>6, <1>9, <2>1
  <2>2. CASE meta'[out] = meta[out]
    BY <1>10, <2>2 DEF CompareInv
  <2> QED
    BY <1>6, <2>1, <2>2
<1>11. ASSUME plan # <<>>, NEW b \in left, NEW p \in ToSet(b) PROVE ~PlanDone(missions[c.out], p)
  <2>1. PICK q \in ToSet(b) : q \notin DoneIn(c.out)
    BY <1>11
  <2>2. ~PlanDone(missions[c.out], q)
    BY <2>1 DEF PlanDone, PlanAt, DoneIn
  <2> QED
    BY <1>9, <1>11, <2>2
<1>12. ASSUME plan # <<>> PROVE run'.todo \subseteq BatchesOf(plan)
  BY <1>3, <1>4, <1>12
<1>13. missions' = missions
  BY <1>1
<1>14. plan # <<>> => \A b \in run'.todo : \A p \in ToSet(b) : ~PlanDone(missions[c.out], p)
  BY <1>3, <1>11
<1> HIDE DEF left
<1> QED
  BY <1>3, <1>7, <1>10, <1>12, <1>13, <1>14 DEF CompareInv, Outs, BatchesOf, PlanDone, PlanAt

\* A call settles its batch and touches no other.
LEMMA BatchKeepsCompare == ASSUME CompareInv, CallBatch PROVE CompareInv'
<1>1. PICK b \in run.todo, ok \in BOOLEAN :
        /\ run'.prog = "gen" /\ run'.tag = run.tag /\ run'.todo = run.todo \ {b}
        /\ Appended(missions[run.tag[1]], missions'[run.tag[1]], b, ok, run.tag[2])
        /\ \A o \in Outs \ {run.tag[1]} : missions'[o] = missions[o]
        /\ run.tag[1] \in Outs /\ run.tag[2] \in {<<>>, meta[run.tag[1]]} /\ meta' = meta
        /\ run.prog = "gen"
  BY BatchAppends DEF CompareInv
<1> DEFINE out == run.tag[1]
           plan == run.tag[2]
<1>2. PICK M : M = missions'
  OBVIOUS
<1>3. \A p : PlanDone(M[out], p) <=> PlanDone(missions[out], p) \/ (plan # <<>> /\ ok /\ p \in ToSet(b))
  BY <1>1, <1>2, DoneAfter
<1>4. \A o \in Outs \ {out} : M[o] = missions[o]
  BY <1>1, <1>2
<1>5. ASSUME plan # <<>> PROVE plan = meta[out] /\ b \in BatchesOf(plan)
  BY <1>1, <1>5 DEF CompareInv
<1>6. ASSUME NEW o \in Outs, meta[o] # <<>>, NEW a \in BatchesOf(meta[o]), NEW p \in ToSet(a), NEW q \in ToSet(a),
             PlanDone(M[o], p)
      PROVE  PlanDone(M[o], q)
  <2>1. PlanDone(missions[o], p) => PlanDone(missions[o], q)
    BY <1>6 DEF CompareInv
  <2>2. CASE o # out \/ plan = <<>>
    BY <1>3, <1>4, <1>6, <2>1, <2>2
  <2>3. CASE o = out /\ plan # <<>>
    <3>1. a = b \/ p \notin ToSet(b)
      BY <1>5, <1>6, <2>3 DEF CompareInv
    <3> QED
      BY <1>3, <1>6, <2>1, <2>3, <3>1
  <2> QED
    BY <2>2, <2>3
<1>7. ASSUME plan # <<>>, NEW a \in run.todo \ {b}, NEW p \in ToSet(a) PROVE ~PlanDone(M[out], p)
  <2>1. a \in BatchesOf(plan) /\ ~PlanDone(missions[out], p)
    BY <1>1, <1>7 DEF CompareInv
  <2>2. p \notin ToSet(b)
    BY <1>1, <1>5, <1>7, <2>1 DEF CompareInv
  <2> QED
    BY <1>3, <2>1, <2>2
<1>8. PlanInv'
  BY BatchKeepsPlan DEF CompareInv
<1>9. plan # <<>> => run'.todo \subseteq BatchesOf(plan)
  BY <1>1 DEF CompareInv
<1>10. \A o \in Outs : meta[o] # <<>> =>
         /\ \A x \in BatchesOf(meta[o]) : \A i, j \in DOMAIN x : x[i] = x[j] => i = j
         /\ \A x, y \in BatchesOf(meta[o]) : x # y => ToSet(x) \cap ToSet(y) = {}
         /\ \A x \in BatchesOf(meta[o]) : \A p, q \in ToSet(x) : PlanDone(M[o], p) => PlanDone(M[o], q)
  BY <1>6 DEF CompareInv
<1>11. plan # <<>> => \A x \in run'.todo : \A p \in ToSet(x) : ~PlanDone(M[out], p)
  BY <1>1, <1>7
<1> QED
  BY <1>1, <1>2, <1>8, <1>9, <1>10, <1>11 DEF CompareInv, Outs, BatchesOf, PlanDone, PlanAt

\* Every step keeps the batches whole.
LEMMA CompareKept == ASSUME CompareInv, [EvalNext]_evalVars PROVE CompareInv'
<1>1. PlanInv'
  BY PlanKept DEF CompareInv
<1>2. ASSUME UNCHANGED <<missions, meta>>, run' = run \/ run'.prog # "gen" PROVE CompareInv'
  <2>1. meta' = meta /\ missions' = missions
    BY <1>2
  <2>2. \A out \in Outs : meta'[out] # <<>> =>
          /\ \A b \in BatchesOf(meta'[out]) : \A i, j \in DOMAIN b : b[i] = b[j] => i = j
          /\ \A a, b \in BatchesOf(meta'[out]) : a # b => ToSet(a) \cap ToSet(b) = {}
          /\ \A b \in BatchesOf(meta'[out]) : \A p, q \in ToSet(b) :
               PlanDone(missions'[out], p) => PlanDone(missions'[out], q)
    BY <2>1 DEF CompareInv
  <2>3. run'.prog = "gen" /\ run'.tag[2] # <<>> =>
          /\ run'.todo \subseteq BatchesOf(run'.tag[2])
          /\ \A b \in run'.todo : \A p \in ToSet(b) : ~PlanDone(missions'[run'.tag[1]], p)
    <3>1. CASE run' = run
      BY <2>1, <3>1 DEF CompareInv
    <3>2. CASE run'.prog # "gen"
      BY <3>2
    <3> QED
      BY <1>2, <3>1, <3>2
  <2> QED
    BY <1>1, <2>2, <2>3 DEF CompareInv, Outs, BatchesOf, PlanDone, PlanAt
<1>3. StartGen \/ CallBatch \/ (UNCHANGED <<missions, meta>> /\ (run' = run \/ run'.prog # "gen"))
  BY PlanSteps
<1> QED
  BY <1>2, <1>3, StartKeepsCompare, BatchKeepsCompare

\* A comparison is a job log of photos and files: whatever dies, fails and is
\* started again, it never writes a second mission for a photo
\* (generate_eval_missions.py:192).
THEOREM ComparisonIsJobLog == EvalSpec => CompareLog!JobSpec
<1> DEFINE jobs == PhotosB \X Outs
           log == [j \in jobs |-> [i \in DOMAIN PlanLines(j[1], j[2]) |-> PlanLines(j[1], j[2])[i].ok]]
<1>1. \A p, out : PlanLines(p, out) = LinesAt(missions[out], PlanAt(missions[out], p))
  BY DEF PlanLines, PlanAt
<1>2. EvalInit => CompareInv /\ CompareLog!JobInit
  <2> SUFFICES ASSUME EvalInit PROVE CompareInv /\ CompareLog!JobInit
    OBVIOUS
  <2>1. missions = [out \in Outs |-> <<>>] /\ meta = [out \in Outs |-> <<>>] /\ run.prog = "none"
    BY DEF EvalInit, NoRun
  <2>2. CompareInv
    <3>1. PlanInv
      BY PlanStarts
    <3> QED
      BY <2>1, <3>1 DEF CompareInv
  <2>3. ASSUME NEW p, NEW out \in Outs PROVE OkFlags(PlanLines(p, out)) = <<>>
    <3>1. missions[out] = <<>> /\ DOMAIN missions[out] = {}
      BY <2>1
    <3>2. PlanAt(missions[out], p) = {}
      BY <3>1 DEF PlanAt
    <3>3. Cardinality({}) = 0 /\ 1..0 = {}
      BY FS_EmptySet
    <3>4. DOMAIN PlanLines(p, out) = {}
      BY <1>1, <3>2, <3>3 DEF LinesAt
    <3> QED
      BY <3>4 DEF OkFlags
  <2>4. \A j \in jobs : log[j] = OkFlags(PlanLines(j[1], j[2])) /\ j[2] \in Outs
    BY DEF OkFlags
  <2>5. log = [j \in jobs |-> log[j]]
    OBVIOUS
  <2> HIDE DEF log
  <2>6. log = [j \in jobs |-> <<>>]
    BY <2>3, <2>4, <2>5
  <2> QED
    BY <2>2, <2>6 DEF CompareLog!JobInit, log
<1>3. CompareInv /\ [EvalNext]_evalVars => CompareInv'
  BY CompareKept
<1>4. CompareInv /\ [EvalNext]_evalVars => [CompareLog!JobNext]_log
  <2> SUFFICES ASSUME CompareInv, [EvalNext]_evalVars, NEW k \in jobs
               PROVE  CompareLog!Line(k) \/ log'[k] = log[k]
    BY DEF CompareLog!JobNext
  <2> DEFINE p == k[1]
             o == k[2]
  <2>1. o \in Outs
    OBVIOUS
  <2>2. PICK M : M = missions'
    OBVIOUS
  <2>3. /\ log[k] = OkFlags(LinesAt(missions[o], PlanAt(missions[o], p)))
        /\ log'[k] = OkFlags(LinesAt(M[o], PlanAt(M[o], p)))
    BY <1>1, <2>2 DEF OkFlags, PlanLines, PlanAt
  <2> HIDE DEF log
  <2>4. CASE missions' = missions
    BY <2>2, <2>3, <2>4
  <2>5. CASE CallBatch
    <3>1. PICK b \in run.todo, ok \in BOOLEAN :
            /\ Appended(missions[run.tag[1]], missions'[run.tag[1]], b, ok, run.tag[2])
            /\ \A out \in Outs \ {run.tag[1]} : missions'[out] = missions[out]
            /\ run.tag[1] \in Outs /\ run.tag[2] \in {<<>>, meta[run.tag[1]]}
            /\ run.prog = "gen"
      BY <2>5, BatchAppends DEF CompareInv
    <3>2. Appended(missions[run.tag[1]], M[run.tag[1]], b, ok, run.tag[2])
      BY <2>2, <3>1
    <3>3. CASE o # run.tag[1]
      BY <2>1, <2>2, <2>3, <3>1, <3>3
    <3>4. CASE o = run.tag[1] /\ (run.tag[2] = <<>> \/ p \notin ToSet(b))
      <4>1. LinesAt(M[o], PlanAt(M[o], p)) = LinesAt(missions[o], PlanAt(missions[o], p))
        BY <3>2, <3>4, OtherLines
      <4> QED
        BY <2>3, <4>1
    <3>5. CASE o = run.tag[1] /\ run.tag[2] # <<>> /\ p \in ToSet(b)
      <4>1. /\ \A i, j \in DOMAIN b : b[i] = b[j] => i = j
            /\ ~PlanDone(missions[o], p)
        BY <3>1, <3>5 DEF CompareInv
      <4>2. PICK line : line.ok = ok /\ LinesAt(M[o], PlanAt(M[o], p))
                                          = Append(LinesAt(missions[o], PlanAt(missions[o], p)), line)
        BY <3>2, <3>5, <4>1, OwnLine
      <4>3. /\ PlanAt(missions[o], p) \in SUBSET Nat /\ IsFiniteSet(PlanAt(missions[o], p))
            /\ Cardinality(PlanAt(missions[o], p)) \in Nat
        BY <3>2, <3>5, PlanAtFinite, FS_CardinalityType DEF Appended
      <4>4. log'[k] = Append(log[k], ok)
        BY <2>3, <4>2, <4>3, OkFlagMore
      <4>5. ~CompareLog!Answered(k)
        <5> DEFINE at == PlanAt(missions[o], p)
                   s == missions[o]
        <5>1. ASSUME NEW n \in 1..Cardinality(at) PROVE ~LinesAt(s, at)[n].ok
          <6>1. PICK i \in at : CountTo(at, i) = n
            BY <4>3, Positions
          <6>2. LinesAt(s, at)[n] = s[i]
            BY <4>3, <6>1, LineAt
          <6> QED
            BY <4>1, <6>2 DEF PlanDone
        <5>2. DOMAIN LinesAt(s, at) = 1..Cardinality(at)
          BY DEF LinesAt
        <5>3. ~ \E i \in DOMAIN OkFlags(LinesAt(s, at)) : OkFlags(LinesAt(s, at))[i]
          BY <5>1, <5>2 DEF OkFlags
        <5> QED
          BY <2>3, <5>3 DEF CompareLog!Answered, log
      <4> QED
        BY <4>4, <4>5 DEF CompareLog!Line, log
    <3> QED
      BY <3>3, <3>4, <3>5
  <2>6. CASE StartGen
    BY <2>4, <2>6 DEF StartGen
  <2> QED
    BY <2>4, <2>5, <2>6, PlanSteps
<1> QED
  BY <1>2, <1>3, <1>4, PTL DEF EvalSpec, CompareLog!JobSpec

\* No script of the evaluation does a job again that is answered, however often
\* it dies, fails and is started again.
THEOREM JobsNeverRepeated == EvalSpec => JobsDoneOnce
  BY SetAIsJobLog, AugmentationIsJobLog, ComparisonIsJobLog DEF JobsDoneOnce
-----------------------------------------------------------------------------
\* The report has one entry for each case that is kept.
Kept(c) == {k \in apply_split(c, KeysRead(c)) : RelabelOf(c, k) # "unclear"}

Entry(c, k) == [key |-> k, type |-> CaseType(k), truth |-> RelabelOf(c, k), reply |-> dedupe(k).reply]

\* The fields of an entry.
LEMMA EntryFields ==
  ASSUME NEW c, NEW k
  PROVE  /\ Entry(c, k).key = k /\ Entry(c, k).type = CaseType(k)
         /\ Entry(c, k).truth = RelabelOf(c, k) /\ Entry(c, k).reply = dedupe(k).reply
  BY DEF Entry

\* There are finitely many cases.
LEMMA KeysFinite == IsFiniteSet(KeysA \cup KeysB)
<1>1. IsFiniteSet(KeysA)
  <2> DEFINE X == (DOMAIN PlaceOf) \X ({"positive", "negative"} \X Landmarks)
             f == [t \in X |-> <<"A", t[1], t[2][1], t[2][2]>>]
  <2>1. IsFiniteSet({"positive"} \cup {"negative"})
    BY FS_Singleton, FS_Union
  <2>2. IsFiniteSet({"positive", "negative"})
    <3>1. {"positive", "negative"} = {"positive"} \cup {"negative"}
      OBVIOUS
    <3> QED
      BY <2>1, <3>1
  <2>3. IsFiniteSet(X)
    BY <2>2, MeasureAssumption, FS_Product
  <2>4. f \in Surjection(X, KeysA)
    <3>1. f \in [X -> KeysA]
      BY DEF KeysA
    <3>2. ASSUME NEW k \in KeysA PROVE \E t \in X : f[t] = k
      <4>1. PICK p \in DOMAIN PlaceOf, kind \in {"positive", "negative"}, place \in Landmarks : k = <<"A", p, kind, place>>
        BY DEF KeysA
      <4>2. <<p, <<kind, place>>>> \in X /\ f[<<p, <<kind, place>>>>] = k
        BY <4>1
      <4> QED
        BY <4>2
    <3> QED
      BY <3>1, <3>2 DEF Surjection
  <2> QED
    BY <2>3, <2>4, FS_Surjection
<1>2. ASSUME NEW set, NEW D, IsFiniteSet(D)
      PROVE  IsFiniteSet({<<set, p, "eval_b", "own">> : p \in D})
  <2> DEFINE Y == {<<set, p, "eval_b", "own">> : p \in D}
             f == [p \in D |-> <<set, p, "eval_b", "own">>]
  <2>1. f \in Surjection(D, Y)
    BY DEF Surjection
  <2> QED
    BY <1>2, <2>1, FS_Surjection
<1>3. IsFiniteSet(KeysB)
  <2>1. IsFiniteSet(DOMAIN LabelB) /\ IsFiniteSet(DOMAIN LabelAug)
    BY SplitAssumption, FS_Subset
  <2>2. /\ IsFiniteSet({<<"B", p, "eval_b", "own">> : p \in DOMAIN LabelB})
        /\ IsFiniteSet({<<"B_aug", p, "eval_b", "own">> : p \in DOMAIN LabelAug})
    BY <1>2, <2>1
  <2> QED
    BY <2>2, FS_Union DEF KeysB
<1> QED
  BY <1>1, <1>3, FS_Union

\* The line that counts is an answer when there is one.
LEMMA CountsAnswer ==
  ASSUME ResultsOK, NEW c \in CountCommands, NEW k \in KeysRead(c)
  PROVE  /\ k \in KeysA \cup KeysB
         /\ (\E r \in Range(LinesOf(k)) : Judged(r)) <=> Judged(dedupe(k))
<1>1. PICK prog \in c.progs : k \in CaseKeys[prog] /\ results[prog][k] # <<>>
  BY DEF KeysRead
<1>2. prog \in Progs /\ k \in KeysA \cup KeysB
  BY <1>1, CountAssumption DEF Progs, CaseKeys
<1>3. LinesOf(k) = results[prog][k]
  BY <1>1, <1>2 DEF LinesOf, Progs, CaseKeys, KeysA, KeysB
<1> DEFINE s == results[prog][k]
<1>4. PICK W : s \in Seq(W)
  BY <1>1, <1>2 DEF ResultsOK
<1>5. dedupe(k) = CountedLine(s)
  BY <1>3 DEF dedupe, CountedLine, Answers
<1>6. s # <<>>
  BY <1>1
<1>7. Range(LinesOf(k)) = {s[i] : i \in DOMAIN s}
  BY <1>3 DEF Range
<1> HIDE DEF s
<1>8. DOMAIN s \subseteq Nat /\ 1 \in DOMAIN s
  BY <1>4, <1>6
<1>9. CASE Answers(s) = {}
  <2>1. CountedLine(s) = s[1]
    BY <1>9 DEF CountedLine
  <2> QED
    BY <1>2, <1>5, <1>7, <1>8, <1>9, <2>1 DEF Answers
<1>10. CASE Answers(s) # {}
  <2>1. Answers(s) \subseteq Nat
    BY <1>8 DEF Answers
  <2>2. \E m \in Answers(s) : \A i \in Answers(s) : m <= i
    BY <1>10, <2>1, LeastOfSome
  <2>3. Min(Answers(s)) \in Answers(s)
    BY <2>2 DEF Min
  <2>4. CountedLine(s) = s[Min(Answers(s))]
    BY <1>10 DEF CountedLine
  <2> QED
    BY <1>2, <1>5, <1>7, <2>3, <2>4 DEF Answers
<1> QED
  BY <1>9, <1>10

\* A set in parts.
LEMMA PartsAdd ==
  ASSUME NEW S, NEW T, IsFiniteSet(S), IsFiniteSet(T), S \cap T = {}
  PROVE  /\ IsFiniteSet(S \cup T) /\ Cardinality(S \cup T) = Cardinality(S) + Cardinality(T)
         /\ Cardinality(S) \in Nat /\ Cardinality(T) \in Nat /\ Cardinality(S \cup T) \in Nat
<1>1. Cardinality(S \cap T) = 0
  BY FS_EmptySet
<1>2. /\ IsFiniteSet(S \cup T)
      /\ Cardinality(S \cup T) = Cardinality(S) + Cardinality(T) - Cardinality(S \cap T)
  BY FS_Union
<1>3. Cardinality(S) \in Nat /\ Cardinality(T) \in Nat
  BY FS_CardinalityType
<1> QED
  BY <1>1, <1>2, <1>3

\* What an entry counts as.
LEMMA Classes ==
  ASSUME NEW x, x.type \in {"target_place", "lookalike", "other_place"}
  PROVE  /\ x.reply = "success" <=> classify(x) \in {"TP", "FP", "FP_LIGHT", "FP_CRITICAL"}
         /\ x.type = "target_place" /\ x.truth = "success" <=> classify(x) \in {"TP", "FN_LIGHT", "FN_HEAVY"}
         /\ classify(x) = "FP_CRITICAL" => x.type # "target_place"
  BY DEF classify

\* The outcomes of what was judged, counted.
LEMMA OutcomesAdd ==
  ASSUME NEW J, IsFiniteSet(J),
         \A x \in J : x.type \in {"target_place", "lookalike", "other_place"}
  PROVE  LET n(outcome) == Cardinality({x \in J : classify(x) = outcome})
             target(truth) == Cardinality({x \in J : x.type = "target_place" /\ x.truth = truth})
             critical(type) == Cardinality({x \in {y \in J : y.type = type} : classify(x) = "FP_CRITICAL"})
         IN  /\ n("TP") + n("FP_LIGHT") + n("FP") + n("FP_CRITICAL") = Cardinality({x \in J : x.reply = "success"})
             /\ n("TP") + n("FN_LIGHT") + n("FN_HEAVY") = target("success")
             /\ n("TP") + n("FP_LIGHT") + n("FP") + n("FP_CRITICAL")
                  = n("TP") + n("FP") + n("FP_LIGHT") + critical("other_place") + critical("lookalike")
<1> DEFINE Of(outcome) == {x \in J : classify(x) = outcome}
           Crit(type) == {x \in {y \in J : y.type = type} : classify(x) = "FP_CRITICAL"}
           TP == Of("TP")
           FP == Of("FP")
           FPL == Of("FP_LIGHT")
           FPC == Of("FP_CRITICAL")
           FNL == Of("FN_LIGHT")
           FNH == Of("FN_HEAVY")
           Passed == {x \in J : x.reply = "success"}
           Success == {x \in J : x.type = "target_place" /\ x.truth = "success"}
           Other == Crit("other_place")
           Alike == Crit("lookalike")
<1>1. /\ TP \in SUBSET J /\ FP \in SUBSET J /\ FPL \in SUBSET J /\ FPC \in SUBSET J
      /\ FNL \in SUBSET J /\ FNH \in SUBSET J /\ Other \in SUBSET J /\ Alike \in SUBSET J
  OBVIOUS
<1>2. /\ TP \cap FPL = {} /\ (TP \cup FPL) \cap FP = {} /\ (TP \cup FPL \cup FP) \cap FPC = {}
      /\ TP \cap FNL = {} /\ (TP \cup FNL) \cap FNH = {}
  OBVIOUS
<1>3. Other \cap Alike = {}
  OBVIOUS
<1>4. Passed = TP \cup FPL \cup FP \cup FPC
  BY Classes
<1>5. Success = TP \cup FNL \cup FNH
  BY Classes
<1>6. FPC = Other \cup Alike
  BY Classes
<1> HIDE DEF TP, FP, FPL, FPC, FNL, FNH, Other, Alike, Passed, Success
<1>7. /\ IsFiniteSet(TP) /\ IsFiniteSet(FP) /\ IsFiniteSet(FPL) /\ IsFiniteSet(FPC)
      /\ IsFiniteSet(FNL) /\ IsFiniteSet(FNH) /\ IsFiniteSet(Other) /\ IsFiniteSet(Alike)
  BY <1>1, FS_Subset
<1>8. /\ IsFiniteSet(TP \cup FPL) /\ Cardinality(TP \cup FPL) = Cardinality(TP) + Cardinality(FPL)
      /\ Cardinality(TP) \in Nat /\ Cardinality(FPL) \in Nat
  BY <1>2, <1>7, PartsAdd
<1>9. /\ IsFiniteSet(TP \cup FPL \cup FP)
      /\ Cardinality(TP \cup FPL \cup FP) = Cardinality(TP \cup FPL) + Cardinality(FP)
      /\ Cardinality(FP) \in Nat
  BY <1>2, <1>7, <1>8, PartsAdd
<1>10. /\ Cardinality(TP \cup FPL \cup FP \cup FPC) = Cardinality(TP \cup FPL \cup FP) + Cardinality(FPC)
       /\ Cardinality(FPC) \in Nat
  BY <1>2, <1>7, <1>9, PartsAdd
<1>11. /\ IsFiniteSet(TP \cup FNL) /\ Cardinality(TP \cup FNL) = Cardinality(TP) + Cardinality(FNL)
       /\ Cardinality(FNL) \in Nat
  BY <1>2, <1>7, PartsAdd
<1>12. /\ Cardinality(TP \cup FNL \cup FNH) = Cardinality(TP \cup FNL) + Cardinality(FNH)
       /\ Cardinality(FNH) \in Nat
  BY <1>2, <1>7, <1>11, PartsAdd
<1>13. /\ Cardinality(Other \cup Alike) = Cardinality(Other) + Cardinality(Alike)
       /\ Cardinality(Other) \in Nat /\ Cardinality(Alike) \in Nat
  BY <1>3, <1>7, PartsAdd
<1>14. Cardinality(TP) + Cardinality(FPL) + Cardinality(FP) + Cardinality(FPC) = Cardinality(Passed)
  BY <1>4, <1>8, <1>9, <1>10
<1>15. Cardinality(TP) + Cardinality(FNL) + Cardinality(FNH) = Cardinality(Success)
  BY <1>5, <1>11, <1>12
<1>16. Cardinality(TP) + Cardinality(FPL) + Cardinality(FP) + Cardinality(FPC)
         = Cardinality(TP) + Cardinality(FP) + Cardinality(FPL) + Cardinality(Other) + Cardinality(Alike)
  BY <1>6, <1>8, <1>9, <1>13
<1> QED
  BY <1>14, <1>15, <1>16 DEF TP, FP, FPL, FPC, FNL, FNH, Other, Alike, Passed, Success

\* The count is right in every state the files can be in.
LEMMA CountsRight == ASSUME ResultsOK PROVE CountedOnce
<1> SUFFICES ASSUME NEW c \in CountCommands
             PROVE  LET rep == Report(c)
                        m == metrics(rep)
                        answered == {k \in apply_split(c, KeysRead(c)) :
                                       RelabelOf(c, k) # "unclear" /\ \E r \in Range(LinesOf(k)) : Judged(r)}
                    IN  /\ \A k \in answered : Cardinality({x \in rep : x.key = k /\ Judged(x)}) = 1
                        /\ m.judged = Cardinality(answered)
                        /\ m.precision[2] = Cardinality({x \in rep : x.reply = "success"})
                        /\ m.recall[1] + m.fn_light[1] + m.fn_heavy[1] = m.recall[2]
                        /\ m.precision[2] = m.precision[1] + m.fp[1] + m.fp_light[1]
                                              + m.critical_fp_other[1] + m.critical_fp_lookalike[1]
  BY DEF CountedOnce
<1> DEFINE rep == Report(c)
           m == metrics(rep)
           J == {x \in rep : Judged(x)}
           answered == {k \in apply_split(c, KeysRead(c)) :
                          RelabelOf(c, k) # "unclear" /\ \E r \in Range(LinesOf(k)) : Judged(r)}
<1>1. rep = {Entry(c, k) : k \in Kept(c)}
  BY DEF Report, Kept, Entry, apply_split
<1>2. \A k \in Kept(c) : k \in KeysRead(c)
  BY DEF Kept, apply_split
<1>3. answered = {k \in Kept(c) : Judged(dedupe(k))}
  BY <1>2, CountsAnswer DEF Kept
<1>4. \A k : Judged(Entry(c, k)) <=> Judged(dedupe(k))
  BY EntryFields DEF Judged
<1> HIDE DEF rep, answered
<1>5. J = {Entry(c, k) : k \in answered}
  BY <1>1, <1>3, <1>4
<1>6. IsFiniteSet(answered)
  <2>1. answered \in SUBSET (KeysA \cup KeysB)
    BY <1>2, <1>3, CountsAnswer
  <2> QED
    BY <2>1, KeysFinite, FS_Subset
<1>7. IsFiniteSet(J) /\ Cardinality(J) = Cardinality(answered)
  <2> DEFINE f == [k \in answered |-> Entry(c, k)]
  <2>1. f \in Surjection(answered, J)
    <3>1. f \in [answered -> J]
      BY <1>5
    <3>2. \A x \in J : \E k \in answered : f[k] = x
      BY <1>5
    <3> HIDE DEF J, f
    <3> QED
      BY <3>1, <3>2 DEF Surjection
  <2>2. f \in Injection(answered, J)
    <3>1. f \in [answered -> J]
      BY <1>5
    <3>2. \A k, l \in answered : f[k] = f[l] => k = l
      <4> SUFFICES ASSUME NEW k \in answered, NEW l \in answered, f[k] = f[l] PROVE k = l
        OBVIOUS
      <4>1. Entry(c, k) = Entry(c, l)
        OBVIOUS
      <4> QED
        BY <4>1, EntryFields
    <3> HIDE DEF J, f
    <3> QED
      BY <3>1, <3>2 DEF Injection, IsInjective
  <2> HIDE DEF J, f
  <2> QED
    BY <1>6, <2>1, <2>2, FS_Surjection
<1>8. \A k \in answered : Cardinality({x \in rep : x.key = k /\ Judged(x)}) = 1
  <2> SUFFICES ASSUME NEW k \in answered PROVE Cardinality({x \in rep : x.key = k /\ Judged(x)}) = 1
    OBVIOUS
  <2>1. {x \in rep : x.key = k /\ Judged(x)} = {Entry(c, k)}
    BY <1>1, <1>3, <1>4, EntryFields
  <2> QED
    BY <2>1, FS_Singleton
<1>9. \A x \in J : x.type \in {"target_place", "lookalike", "other_place"}
  BY <1>1, EntryFields DEF CaseType
<1>10. {x \in rep : x.reply = "success"} = {x \in J : x.reply = "success"}
  BY DEF Judged
<1> DEFINE n(outcome) == Cardinality({x \in J : classify(x) = outcome})
           target(truth) == Cardinality({x \in J : x.type = "target_place" /\ x.truth = truth})
           critical(type) == Cardinality({x \in {y \in J : y.type = type} : classify(x) = "FP_CRITICAL"})
<1>11. /\ m.judged = Cardinality(J)
       /\ m.precision[1] = n("TP") /\ m.precision[2] = n("TP") + n("FP_LIGHT") + n("FP") + n("FP_CRITICAL")
       /\ m.recall[1] = n("TP") /\ m.recall[2] = target("success")
       /\ m.fn_light[1] = n("FN_LIGHT") /\ m.fn_heavy[1] = n("FN_HEAVY")
       /\ m.fp[1] = n("FP") /\ m.fp_light[1] = n("FP_LIGHT")
       /\ m.critical_fp_other[1] = critical("other_place")
       /\ m.critical_fp_lookalike[1] = critical("lookalike")
  BY DEF metrics
<1>12. /\ n("TP") + n("FP_LIGHT") + n("FP") + n("FP_CRITICAL") = Cardinality({x \in J : x.reply = "success"})
       /\ n("TP") + n("FN_LIGHT") + n("FN_HEAVY") = target("success")
       /\ n("TP") + n("FP_LIGHT") + n("FP") + n("FP_CRITICAL")
            = n("TP") + n("FP") + n("FP_LIGHT") + critical("other_place") + critical("lookalike")
  <2> HIDE DEF J
  <2> QED
    BY <1>7, <1>9, OutcomesAdd
<1> HIDE DEF J, n, target, critical, m
<1>13. m.precision[2] = Cardinality({x \in rep : x.reply = "success"})
  BY <1>10, <1>11, <1>12
<1>14. m.recall[1] + m.fn_light[1] + m.fn_heavy[1] = m.recall[2]
  BY <1>11, <1>12
<1>15. m.precision[2] = m.precision[1] + m.fp[1] + m.fp_light[1] + m.critical_fp_other[1] + m.critical_fp_lookalike[1]
  BY <1>11, <1>12
<1>16. m.judged = Cardinality(answered)
  BY <1>7, <1>11
<1> QED
  BY <1>8, <1>13, <1>14, <1>15, <1>16 DEF m, rep, answered

\* Of every file the scripts can leave, every count takes each answered case
\* once and with an answer, and its sums agree (eval_cases.py:94).
THEOREM EveryCaseCounted == EvalSpec => []CountedOnce
<1>1. EvalInit => ResultsOK
  BY EmptyFiles
<1>2. ResultsOK /\ [EvalNext]_evalVars => ResultsOK'
  BY FormKept
<1>3. ResultsOK => CountedOnce
  BY CountsRight
<1> QED
  BY <1>1, <1>2, <1>3, PTL DEF EvalSpec
-----------------------------------------------------------------------------
(***************************************************************************)
(* The pipeline.  The sealed part stays sealed.                            *)
(***************************************************************************)
\* The files a script still has to write.
Pending(f) == \E i \in DOMAIN job.writes : job.writes[i][1] = f

\* They form a sequence, and each of them is written once.
QueueInv ==
  /\ \E W : job.writes \in Seq(W)
  /\ \A i, j \in DOMAIN job.writes : job.writes[i][1] = job.writes[j][1] => i = j

\* The split is only written where there is none.
SplitInv == Pending("split") => ~Exists("split")

\* Whom a training or an opened measurement has read, the split on file says.
PartsInv ==
  /\ learned \cup judged # {} => Whole("split")
  /\ \A t \in learned : t \in DOMAIN Body("split") /\ Body("split")[t] \in {"train", "dev"}
  /\ \A t \in judged : t \in DOMAIN Body("split") /\ Body("split")[t] = "final"

SealInv ==
  /\ files = [f \in Files |-> files[f]]
  /\ QueueInv /\ SplitInv /\ PartsInv
-----------------------------------------------------------------------------
\* An example of a part is of a traveller the split puts there.
LEMMA ExamplesOfPart ==
  ASSUME NEW part, NEW e \in load_examples(part)
  PROVE  e.traveler_id \in DOMAIN Body("split") /\ Body("split")[e.traveler_id] = part
  BY DEF load_examples, build_examples, iter_days, load_part

\* A whole file is there.
LEMMA WholeExists == ASSUME NEW f, Whole(f) PROVE Exists(f)
  BY DEF Whole, Exists

\* The invariant looks at four variables.
LEMMA SealUnchanged ==
  ASSUME SealInv, UNCHANGED <<files, job, learned, judged>>
  PROVE  SealInv'
  BY DEF SealInv, QueueInv, SplitInv, PartsInv, Pending, Exists, Whole, Body

\* A script that starts keeps it, when its files differ and it writes no
\* split over another.
LEMMA ScriptStarts ==
  ASSUME SealInv, UNCHANGED <<files, learned, judged>>,
         NEW w, NEW W, w \in Seq(W), job'.writes = w,
         \A i, j \in DOMAIN w : w[i][1] = w[j][1] => i = j,
         (\E i \in DOMAIN w : w[i][1] = "split") => ~Exists("split")
  PROVE  SealInv'
<1>1. QueueInv'
  BY DEF QueueInv
<1>2. SplitInv' /\ PartsInv'
  BY DEF SealInv, SplitInv, PartsInv, Pending, Exists, Whole, Body
<1> QED
  BY <1>1, <1>2 DEF SealInv

\* A script that goes on with what it has: nothing, or the next file.
LEMMA WriteKeeps == ASSUME SealInv, WriteNext PROVE SealInv'
<1> DEFINE w == job.writes
           f == Head(w)[1]
<1>1. PICK W : w \in Seq(W)
  BY DEF SealInv, QueueInv
<1>2. /\ w # <<>> /\ files' = [files EXCEPT ![f] = Head(w)[2]]
      /\ job'.writes = Tail(w) /\ UNCHANGED <<learned, judged>>
  BY DEF WriteNext
<1>3. /\ Tail(w) \in Seq(W) /\ f = w[1][1] /\ 1 \in DOMAIN w
      /\ \A i \in DOMAIN Tail(w) : i + 1 \in DOMAIN w /\ Tail(w)[i] = w[i + 1]
  BY <1>1, <1>2
<1>4. \A i, j \in DOMAIN w : w[i][1] = w[j][1] => i = j
  BY DEF SealInv, QueueInv
<1>5. \A i \in DOMAIN Tail(w) : Tail(w)[i][1] # f
  <2>1. \A i \in DOMAIN Tail(w) : i \in Nat /\ i >= 1
    BY <1>3
  <2> QED
    BY <1>3, <1>4, <2>1
<1>6. QueueInv'
  <2>1. \A i, j \in DOMAIN Tail(w) : Tail(w)[i][1] = Tail(w)[j][1] => i = j
    <3> SUFFICES ASSUME NEW i \in DOMAIN Tail(w), NEW j \in DOMAIN Tail(w), Tail(w)[i][1] = Tail(w)[j][1]
                 PROVE  i = j
      OBVIOUS
    <3>1. w[i + 1][1] = w[j + 1][1] /\ i + 1 \in DOMAIN w /\ j + 1 \in DOMAIN w
      BY <1>3
    <3>2. i + 1 = j + 1
      BY <3>1, <1>4
    <3> QED
      BY <3>2, <1>3
  <2> QED
    BY <1>2, <1>3, <2>1 DEF QueueInv
<1>7. files' = [g \in Files |-> files'[g]] /\ \A g \in Files \ {f} : files'[g] = files[g]
  BY <1>2 DEF SealInv
<1>8. "split" \in Files
  BY DEF Files
<1>9. SplitInv'
  <2>1. Pending("split")' => Pending("split") /\ f # "split"
    BY <1>2, <1>3, <1>5 DEF Pending
  <2> QED
    BY <2>1, <1>7, <1>8 DEF SealInv, SplitInv, Exists
<1>10. PartsInv'
  <2>1. f = "split" => ~Exists("split")
    BY <1>3 DEF SealInv, SplitInv, Pending
  <2>2. CASE f = "split"
    <3>1. learned = {} /\ judged = {}
      BY <2>1, <2>2 DEF SealInv, PartsInv, Exists, Whole
    <3> QED
      BY <3>1, <1>2 DEF PartsInv
  <2>3. CASE f # "split"
    BY <2>3, <1>2, <1>7, <1>8 DEF SealInv, PartsInv, Whole, Body
  <2> QED
    BY <2>2, <2>3
<1> QED
  BY <1>6, <1>7, <1>9, <1>10 DEF SealInv

\* A script that dies leaves its files as they are, or the next one torn.
LEMMA DeathKeeps == ASSUME SealInv, Die PROVE SealInv'
<1>1. job' = Idle /\ UNCHANGED <<learned, judged>>
  BY DEF Die
<1>2. QueueInv' /\ SplitInv'
  <2>1. job'.writes = <<>>
    BY <1>1 DEF Idle
  <2> QED
    BY <2>1 DEF QueueInv, SplitInv, Pending
<1>3. CASE UNCHANGED files
  BY <1>1, <1>2, <1>3 DEF SealInv, PartsInv, Whole, Body
<1>4. CASE job.writes # <<>> /\ files' = [files EXCEPT ![Head(job.writes)[1]] = Torn]
  <2> DEFINE f == Head(job.writes)[1]
  <2>1. \E i \in DOMAIN job.writes : job.writes[i][1] = f
    <3>1. PICK W : job.writes \in Seq(W)
      BY DEF SealInv, QueueInv
    <3>2. 1 \in DOMAIN job.writes /\ Head(job.writes) = job.writes[1]
      BY <3>1, <1>4
    <3> QED
      BY <3>2
  <2>2. files' = [g \in Files |-> files'[g]] /\ \A g \in Files \ {f} : files'[g] = files[g]
    BY <1>4 DEF SealInv
  <2>3. PartsInv'
    <3>1. CASE f = "split"
      <4>1. ~Exists("split")
        BY <2>1, <3>1 DEF SealInv, SplitInv, Pending
      <4>2. ~Whole("split")
        BY <4>1, WholeExists
      <4>3. learned = {} /\ judged = {}
        BY <4>2 DEF SealInv, PartsInv
      <4> QED
        BY <4>3, <1>1 DEF PartsInv
    <3>2. CASE f # "split"
      <4>1. "split" \in Files
        BY DEF Files
      <4> QED
        BY <3>2, <4>1, <2>2, <1>1 DEF SealInv, PartsInv, Whole, Body
    <3> QED
      BY <3>1, <3>2
  <2> QED
    BY <1>2, <2>2, <2>3 DEF SealInv
<1> QED
  BY <1>3, <1>4 DEF Die

\* A script that writes one file, two or three of different names keeps it.
LEMMA ScriptKeeps ==
  ASSUME SealInv, NEW needs, NEW w, Script(needs, w), UNCHANGED <<learned, judged>>,
         NEW a, NEW b, NEW c,
         w = <<>> \/ w = <<a>> \/ w = <<a, b>> \/ w = <<a, b, c>>,
         a[1] # b[1], b[1] # c[1], a[1] # c[1], b[1] # "split", c[1] # "split",
         a[1] = "split" => ~Exists("split")
  PROVE  SealInv'
<1>1. job'.writes = w /\ UNCHANGED files
  BY DEF Script, Idle
<1>2. w \in Seq({a, b, c})
  <2>1. /\ <<>> \in Seq({a, b, c}) /\ <<a>> \in Seq({a, b, c})
        /\ <<a, b>> \in Seq({a, b, c}) /\ <<a, b, c>> \in Seq({a, b, c})
    OBVIOUS
  <2> QED
    BY <2>1
<1>3. /\ \A i, j \in DOMAIN w : w[i][1] = w[j][1] => i = j
      /\ (\E i \in DOMAIN w : w[i][1] = "split") => ~Exists("split")
  <2>1. CASE w = <<>>
    BY <2>1
  <2>2. CASE w = <<a>>
    BY <2>2
  <2>3. CASE w = <<a, b>>
    BY <2>3
  <2>4. CASE w = <<a, b, c>>
    BY <2>4
  <2> QED
    BY <2>1, <2>2, <2>3, <2>4
<1> QED
  BY <1>1, <1>2, <1>3, ScriptStarts

\* The case of one file, none of which is the split where there is one.
LEMMA OneFile ==
  ASSUME SealInv, NEW needs, NEW f, NEW body, Script(needs, <<Put(f, body)>>),
         UNCHANGED <<learned, judged>>, f = "split" => ~Exists("split")
  PROVE  SealInv'
<1>1. Put(f, body)[1] = f
  BY DEF Put
<1> DEFINE a == Put(f, body)
           b == IF f = "days" THEN <<"ids">> ELSE <<"days">>
           c == IF f = "places" THEN <<"onnx">> ELSE <<"places">>
<1>2. a[1] # b[1] /\ b[1] # c[1] /\ a[1] # c[1] /\ b[1] # "split" /\ c[1] # "split"
  BY <1>1
<1>3. Script(needs, <<a>>) /\ (a[1] = "split" => ~Exists("split"))
  BY <1>1
<1> HIDE DEF a, b, c
<1> QED
  BY <1>2, <1>3, ScriptKeeps

\* Days that are built again leave the split as it is.
LEMMA BuildDaysKeeps == ASSUME SealInv, BuildDays PROVE SealInv'
<1>1. PICK log \in Logs, overwrite \in BOOLEAN : write_outputs(build_days(log), overwrite)
  BY DEF BuildDays
<1>2. Script({}, <<Put("days", build_days(log))>>) /\ UNCHANGED <<learned, judged>>
  BY <1>1 DEF write_outputs, BuildDays
<1> QED
  BY <1>2, OneFile

\* The split is divided where there is none.
LEMMA WriteSplitKeeps == ASSUME SealInv, WriteSplit PROVE SealInv'
<1>1. ~Exists("split") /\ UNCHANGED <<learned, judged>>
  BY DEF WriteSplit
<1>2. \E body : Script({"days"}, <<Put("split", body)>>)
  BY DEF WriteSplit
<1> QED
  BY <1>1, <1>2, OneFile

\* The scripts of one file that is not the split.
LEMMA DictionaryKeeps == ASSUME SealInv, CodeDict PROVE SealInv'
<1>1. \E needs, body : Script(needs, <<Put("dictionary", body)>>) /\ UNCHANGED <<learned, judged>>
  BY DEF CodeDict
<1> QED
  BY <1>1, OneFile

\* The export writes one file, and it is not the split.
LEMMA ExportKeeps == ASSUME SealInv, ExportOnnx PROVE SealInv'
<1>1. \E needs, body : Script(needs, <<Put("onnx", body)>>) /\ UNCHANGED <<learned, judged>>
  BY DEF ExportOnnx
<1> QED
  BY <1>1, OneFile

\* Three files.
LEMMA ThreeFiles ==
  ASSUME SealInv, NEW needs, NEW a, NEW b, NEW c, Script(needs, <<a, b, c>>),
         UNCHANGED <<learned, judged>>,
         a[1] # b[1], b[1] # c[1], a[1] # c[1],
         a[1] # "split", b[1] # "split", c[1] # "split"
  PROVE  SealInv'
  BY ScriptKeeps

\* Embedding writes three files, and none is the split.
LEMMA EmbedKeeps == ASSUME SealInv, Embed PROVE SealInv'
<1>1. PICK items : Script({"days"}, <<Put("embeddings", items), Put("texts", items), Put("embed_meta", "meta")>>)
  BY DEF Embed
<1> DEFINE a == Put("embeddings", items)
           b == Put("texts", items)
           c == Put("embed_meta", "meta")
<1>2. a[1] = "embeddings" /\ b[1] = "texts" /\ c[1] = "embed_meta"
  BY DEF Put
<1>3. Script({"days"}, <<a, b, c>>) /\ UNCHANGED <<learned, judged>>
  BY <1>1 DEF Embed
<1> HIDE DEF a, b, c
<1> QED
  BY <1>2, <1>3, ThreeFiles

\* Making the codes writes three files, and none is the split.
LEMMA TrainRqvaeKeeps == ASSUME SealInv, TrainRqvae PROVE SealInv'
<1>1. PICK ids, codes :
        Script({"embeddings", "texts"}, <<Put("ids", ids), Put("rqvae", codes), Put("rq_meta", "meta")>>)
  BY DEF TrainRqvae
<1> DEFINE a == Put("ids", ids)
           b == Put("rqvae", codes)
           c == Put("rq_meta", "meta")
<1>2. a[1] = "ids" /\ b[1] = "rqvae" /\ c[1] = "rq_meta"
  BY DEF Put
<1>3. Script({"embeddings", "texts"}, <<a, b, c>>) /\ UNCHANGED <<learned, judged>>
  BY <1>1 DEF TrainRqvae
<1> HIDE DEF a, b, c
<1> QED
  BY <1>2, <1>3, ThreeFiles

\* The examples write two files, and none is the split.
LEMMA TrainDataKeeps == ASSUME SealInv, TrainData PROVE SealInv'
<1>1. PICK needs, places, near : Script(needs, <<Put("places", places), Put("visit_map", near)>>)
  BY DEF TrainData
<1> DEFINE a == Put("places", places)
           b == Put("visit_map", near)
           c == <<"onnx">>
<1>2. a[1] = "places" /\ b[1] = "visit_map" /\ c[1] = "onnx"
  BY DEF Put
<1>3. Script(needs, <<a, b>>) /\ UNCHANGED <<learned, judged>>
  BY <1>1 DEF TrainData
<1> HIDE DEF a, b, c
<1> QED
  BY <1>2, <1>3, ScriptKeeps

\* Packaging writes the files of the bundle, with or without an exported model.
LEMMA PackageKeeps == ASSUME SealInv, Package PROVE SealInv'
<1>1. UNCHANGED <<learned, judged>>
  BY DEF Package
<1>2. CASE Exists("onnx")
  <2>1. PICK needs, onnx, bundle :
          Script(needs, <<Put("bundle", "folder"), <<"bundle_onnx", onnx>>, Put("bundle_codes", bundle)>>)
    BY <1>2 DEF Package
  <2> DEFINE a == Put("bundle", "folder")
             b == <<"bundle_onnx", onnx>>
             c == Put("bundle_codes", bundle)
  <2>2. a[1] = "bundle" /\ b[1] = "bundle_onnx" /\ c[1] = "bundle_codes"
    BY DEF Put
  <2>3. Script(needs, <<a, b, c>>)
    BY <2>1
  <2> HIDE DEF a, b, c
  <2> QED
    BY <1>1, <2>2, <2>3, ThreeFiles
<1>3. CASE ~Exists("onnx")
  <2>1. \E needs : Script(needs, <<Put("bundle", "folder")>>)
    BY <1>3 DEF Package
  <2> QED
    BY <1>1, <2>1, OneFile
<1> QED
  BY <1>2, <1>3

\* An opened measurement writes nothing, and reads the sealed part only.
LEMMA EvalKeeps == ASSUME SealInv, EvalModel PROVE SealInv'
<1>1. PICK part \in {"dev", "final"} :
        /\ \A f \in Inputs : Whole(f)
        /\ judged' = judged \cup (IF part = "final" THEN {e.traveler_id : e \in load_examples(part)} ELSE {})
        /\ Script(Inputs, <<>>) /\ UNCHANGED learned
  BY DEF EvalModel
<1>2. UNCHANGED <<files, learned>> /\ job'.writes = <<>>
  BY <1>1 DEF Script, Idle
<1>3. QueueInv' /\ SplitInv'
  BY <1>2 DEF QueueInv, SplitInv, Pending
<1>4. Whole("split")
  BY <1>1 DEF Inputs
<1>5. \A t \in judged' : t \in DOMAIN Body("split") /\ Body("split")[t] = "final"
  <2>1. \A t \in judged : t \in DOMAIN Body("split") /\ Body("split")[t] = "final"
    BY DEF SealInv, PartsInv
  <2>2. CASE part = "final"
    <3>1. \A e \in load_examples("final") :
            e.traveler_id \in DOMAIN Body("split") /\ Body("split")[e.traveler_id] = "final"
      BY ExamplesOfPart
    <3> QED
      BY <1>1, <2>1, <2>2, <3>1
  <2>3. CASE part # "final"
    BY <1>1, <2>1, <2>3
  <2> QED
    BY <2>2, <2>3
<1>6. PartsInv'
  BY <1>2, <1>4, <1>5 DEF SealInv, PartsInv, Whole, Body
<1> QED
  BY <1>2, <1>3, <1>6 DEF SealInv

\* A training reads the other two parts.
LEMMA TrainKeeps == ASSUME SealInv, Train PROVE SealInv'
<1>1. /\ \A f \in Inputs : Whole(f)
      /\ learned' = learned \cup {e.traveler_id : e \in load_examples("train") \cup load_examples("dev")}
      /\ job'.writes = <<>> /\ UNCHANGED <<files, judged>>
  BY DEF Train, Idle
<1>2. QueueInv' /\ SplitInv'
  BY <1>1 DEF QueueInv, SplitInv, Pending
<1>3. Whole("split")
  BY <1>1 DEF Inputs
<1>4. \A t \in learned' : t \in DOMAIN Body("split") /\ Body("split")[t] \in {"train", "dev"}
  <2>1. \A t \in learned : t \in DOMAIN Body("split") /\ Body("split")[t] \in {"train", "dev"}
    BY DEF SealInv, PartsInv
  <2>2. \A e \in load_examples("train") :
          e.traveler_id \in DOMAIN Body("split") /\ Body("split")[e.traveler_id] = "train"
    BY ExamplesOfPart
  <2>3. \A e \in load_examples("dev") :
          e.traveler_id \in DOMAIN Body("split") /\ Body("split")[e.traveler_id] = "dev"
    BY ExamplesOfPart
  <2> QED
    BY <1>1, <2>1, <2>2, <2>3
<1>5. PartsInv'
  BY <1>1, <1>3, <1>4 DEF SealInv, PartsInv, Whole, Body
<1> QED
  BY <1>1, <1>2, <1>5 DEF SealInv

\* Two sequences of at most one element, one behind the other.
LEMMA Glue ==
  ASSUME NEW a, NEW b
  PROVE  /\ <<>> \o <<>> = <<>> /\ <<a>> \o <<>> = <<a>>
         /\ <<>> \o <<b>> = <<b>> /\ <<a>> \o <<b>> = <<a, b>>
<1>1. <<>> \in Seq({a, b}) /\ <<a>> \in Seq({a, b}) /\ <<b>> \in Seq({a, b})
  OBVIOUS
<1>2. <<a>> \o <<b>> = <<a, b>>
  <2> DEFINE s == <<a>> \o <<b>>
             t == <<a, b>>
  <2>1. s \in Seq({a, b}) /\ Len(s) = 2 /\ s[1] = a /\ s[2] = b
    BY <1>1, ConcatProperties
  <2>2. t \in Seq({a, b}) /\ Len(t) = 2 /\ t[1] = a /\ t[2] = b
    OBVIOUS
  <2>3. \A i \in 1..Len(s) : s[i] = t[i]
    BY <2>1, <2>2
  <2> HIDE DEF s, t
  <2> QED
    BY <2>1, <2>2, <2>3, SeqEqual DEF s, t
<1>3. <<>> \o <<>> = <<>> /\ <<a>> \o <<>> = <<a>> /\ <<>> \o <<b>> = <<b>>
  BY <1>1
<1> QED
  BY <1>2, <1>3

\* An epoch writes the model, the account of the training, both or nothing.
LEMMA EpochKeeps == ASSUME SealInv, Epoch PROVE SealInv'
<1>1. PICK model, account :
        LET a == Put("model", model)
            b == Put("model_meta", account)
        IN  \/ job'.writes = <<>> \o <<>> \/ job'.writes = <<a>> \o <<>>
            \/ job'.writes = <<>> \o <<b>> \/ job'.writes = <<a>> \o <<b>>
  <2>1. PICK dev_loss : 
          LET now == job.train[1]
              better == dev_loss < now.best
              best == IF better THEN dev_loss ELSE now.best
              bad == IF better THEN 0 ELSE now.bad + 1
              ended == bad >= PATIENCE \/ now.epoch + 1 = EPOCHS
          IN  job'.writes = (IF better THEN <<Put("model", [codes |-> now.codes, loss |-> dev_loss])>> ELSE <<>>)
                              \o (IF ended THEN <<Put("model_meta", [best_dev_loss |-> best])>> ELSE <<>>)
    BY DEF Epoch
  <2> QED
    BY <2>1
<1> DEFINE a == Put("model", model)
           b == Put("model_meta", account)
<1>2. a[1] = "model" /\ b[1] = "model_meta"
  BY DEF Put
<1>3. UNCHANGED <<files, learned, judged>>
  BY DEF Epoch
<1>4. \/ job'.writes = <<>> \o <<>> \/ job'.writes = <<a>> \o <<>>
      \/ job'.writes = <<>> \o <<b>> \/ job'.writes = <<a>> \o <<b>>
  BY <1>1
<1> HIDE DEF a, b
<1> DEFINE w == job'.writes
<1>5. w = <<>> \/ w = <<a>> \/ w = <<b>> \/ w = <<a, b>>
  <2>1. /\ <<>> \o <<>> = <<>> /\ <<a>> \o <<>> = <<a>>
        /\ <<>> \o <<b>> = <<b>> /\ <<a>> \o <<b>> = <<a, b>>
    BY Glue
  <2> QED
    BY <1>4, <2>1
<1>6. <<>> \in Seq({a, b}) /\ <<a>> \in Seq({a, b}) /\ <<b>> \in Seq({a, b}) /\ <<a, b>> \in Seq({a, b})
  OBVIOUS
<1> HIDE DEF w
<1>7. /\ w \in Seq({a, b})
      /\ \A i, j \in DOMAIN w : w[i][1] = w[j][1] => i = j
      /\ \A i \in DOMAIN w : w[i][1] # "split"
  <2>1. CASE w = <<>>
    BY <2>1, <1>6
  <2>2. CASE w = <<a>>
    BY <2>2, <1>2, <1>6
  <2>3. CASE w = <<b>>
    BY <2>3, <1>2, <1>6
  <2>4. CASE w = <<a, b>>
    BY <2>4, <1>2, <1>6
  <2> QED
    BY <1>5, <2>1, <2>2, <2>3, <2>4
<1>8. job'.writes = w
  BY DEF w
<1> QED
  BY <1>3, <1>7, <1>8, ScriptStarts

\* Every script keeps the invariant,
LEMMA SemanticKeeps == ASSUME SealInv, SemanticNext PROVE SealInv'
  BY BuildDaysKeeps, WriteSplitKeeps, EmbedKeeps, TrainRqvaeKeeps, DictionaryKeeps, TrainDataKeeps,
     TrainKeeps, EpochKeeps, EvalKeeps, ExportKeeps, PackageKeeps, WriteKeeps, DeathKeeps
  DEF SemanticNext

\* it holds of an empty folder,
LEMMA EmptyFolder ==
  ASSUME files = [f \in Files |-> <<>>], job = Idle, learned = {}, judged = {}
  PROVE  SealInv
<1>1. job.writes = <<>>
  BY DEF Idle
<1>2. QueueInv /\ SplitInv
  BY <1>1 DEF QueueInv, SplitInv, Pending
<1> QED
  BY <1>2 DEF SealInv, PartsInv

\* No traveller of the sealed part that was measured has been learnt from.
LEMMA SealImplies == SealInv => FinalUnread
  BY DEF SealInv, PartsInv, FinalUnread

\* No traveller of the sealed part that a measurement opened was read by a
\* training, whatever was built again and whatever died (split.py:97,
\* train.py:24, build_days.py:80).
THEOREM FinalStaysUnread == ReleaseSpec => []FinalUnread
<1>1. ReleaseInit => SealInv
  BY EmptyFolder DEF ReleaseInit, SemanticInit
<1>2. SealInv /\ [ReleaseNext]_releaseVars => SealInv'
  <2> SUFFICES ASSUME SealInv, [ReleaseNext]_releaseVars PROVE SealInv'
    OBVIOUS
  <2>1. CASE SemanticNext
    BY <2>1, SemanticKeeps
  <2>2. CASE StartWorker
    BY <2>2, SealUnchanged DEF StartWorker, semanticVars, folder
  <2>3. CASE UNCHANGED semanticVars
    BY <2>3, SealUnchanged DEF semanticVars, folder
  <2> QED
    BY <2>1, <2>2, <2>3 DEF ReleaseNext, releaseVars
<1>3. SealInv => FinalUnread
  BY SealImplies
<1> QED
  BY <1>1, <1>2, <1>3, PTL DEF ReleaseSpec
-----------------------------------------------------------------------------
(***************************************************************************)
(* The pipeline.  One coding goes through all of it.                       *)
(***************************************************************************)
\* What a file says, or will say when the running script has written it.
Contents(f) ==
  {files[f]} \cup {job.writes[i][2] : i \in {j \in DOMAIN job.writes : job.writes[j][1] = f}}

Bodies(f) == {c[1] : c \in {d \in Contents(f) : Len(d) = 1}}

\* Some files are only written where there is none.
OnceInv ==
  /\ \A i \in DOMAIN job.writes : Len(job.writes[i][2]) > 0
  /\ \A f \in {"places", "dictionary", "onnx"} : Pending(f) => ~Exists(f)

\* The codes a coding of the table gives.
IdsOf(db, coding) == assign_collision_ids([g \in DOMAIN db |-> coding[g]])

AllIds == UNION {{IdsOf(db, coding) : coding \in Codings} : db \in DBs}

CodedInv ==
  /\ \A b \in Bodies("texts") : \E db \in DBs : b.db = DOMAIN db
  /\ Bodies("ids") \subseteq AllIds
  /\ \A b \in Bodies("places") : \E db \in DBs, ids \in AllIds : b = export_places(db, ids)

\* While no script dies the places are coded once.
OneIdsInv ==
  deaths = 0 =>
    /\ Exists("ids") \/ Pending("ids") => Exists("rq_meta") \/ Pending("rq_meta")
    /\ Pending("ids") => ~Exists("ids")
    /\ \A b \in Bodies("dictionary") : Whole("ids") /\ b = build_dictionary(Body("ids"))
    /\ \A b \in Bodies("places") :
         Whole("ids") /\ \E db \in DBs : b = export_places(db, Body("ids"))

\* A model speaks the codes of the places on file, for good.
ModelInv ==
  /\ \A b \in Bodies("model") : Whole("places") /\ b.codes = TrainedCodes
  /\ job.train # <<>> => Whole("places") /\ job.train[1].codes = TrainedCodes

\* An exported model is not trained any more.
ExportInv ==
  /\ Exists("onnx") \/ Pending("onnx") => Whole("model") /\ job.train = <<>> /\ ~Pending("model")
  /\ Bodies("bundle_onnx") \cup Bodies("bundle_codes") # {} => Exists("onnx")
  /\ \A b \in Bodies("onnx") \cup Bodies("bundle_onnx") : b = Body("model")

\* The loss on record is the one of the model that is there or about to be.
Coming(loss) ==
  \/ ~Pending("model") /\ Whole("model") /\ Body("model").loss = loss
  \/ \E i \in DOMAIN job.writes :
       /\ job.writes[i][1] = "model"
       /\ Len(job.writes[i][2]) = 1 /\ job.writes[i][2][1].loss = loss

LossInv ==
  /\ Whole("model_meta") /\ Body("model_meta").best_dev_loss # Inf =>
       /\ job.train = <<>> /\ ~Pending("model")
       /\ Whole("model") /\ Body("model").loss = Body("model_meta").best_dev_loss
  /\ \A i \in DOMAIN job.writes : job.writes[i][1] = "model_meta" =>
       /\ job.train = <<>> /\ Len(job.writes[i][2]) = 1
       /\ LET best == job.writes[i][2][1].best_dev_loss IN best = Inf \/ Coming(best)
       /\ \A j \in DOMAIN job.writes : job.writes[j][1] = "model" => j < i
  /\ job.train # <<>> => job.train[1].best = Inf \/ Coming(job.train[1].best)

\* A bundle holds codes of that model, and its loss.
BundleInv ==
  \A b \in Bodies("bundle_codes") :
    /\ Whole("places") /\ DOMAIN b.codes \subseteq DOMAIN TrainedCodes
    /\ \A g \in DOMAIN b.codes : b.codes[g] = TrainedCodes[g]
    /\ b.version.best_dev_loss \in {Body("model").loss, Inf}

\* The running script, and the training it may be in.
JobInv ==
  /\ job = [writes |-> job.writes, train |-> job.train]
  /\ job.train # <<>> =>
       LET now == job.train[1]
       IN  job.train = <<[best |-> now.best, bad |-> now.bad, epoch |-> now.epoch,
                          codes |-> now.codes, measured |-> now.measured]>>

CodeInv ==
  /\ SealInv /\ deaths \in Nat /\ JobInv
  /\ OnceInv /\ CodedInv /\ OneIdsInv
  /\ ModelInv /\ ExportInv /\ LossInv /\ BundleInv

\* What a step leaves of a file it is not about: it may be written as the
\* script had in mind, or lost, but nothing new comes up.
Calm(f) ==
  /\ Bodies(f)' \subseteq Bodies(f)
  /\ Exists(f) => Exists(f)'
  /\ Pending(f)' => Pending(f) /\ files'[f] = files[f]
  /\ ~Pending(f) => files'[f] = files[f]

\* A script that starts, or goes on to an epoch, leaves the other files calm.
LEMMA CalmOthers ==
  ASSUME job.writes = <<>>, files' = files, NEW f,
         \A i \in DOMAIN job'.writes : job'.writes[i][1] # f
  PROVE  Calm(f) /\ ~Pending(f) /\ ~Pending(f)' /\ (Pending(f)' \/ Exists(f)' <=> Exists(f))
<1>1. ~Pending(f) /\ ~Pending(f)'
  BY DEF Pending
<1>2. Contents(f)' = {files[f]} /\ files[f] \in Contents(f)
  BY DEF Contents
<1>3. Bodies(f)' \subseteq Bodies(f)
  BY <1>2 DEF Bodies
<1> QED
  BY <1>1, <1>3 DEF Calm, Exists

\* What a step that leaves the files brings up: what the script is to write.
LEMMA NewBodies ==
  ASSUME files' = files, NEW f, NEW b \in Bodies(f)'
  PROVE  \/ Whole(f) /\ b = Body(f)
         \/ \E i \in DOMAIN job'.writes :
              job'.writes[i][1] = f /\ Len(job'.writes[i][2]) = 1 /\ b = job'.writes[i][2][1]
<1>1. PICK c \in Contents(f)' : Len(c) = 1 /\ b = c[1]
  BY DEF Bodies
<1>2. CASE c = files'[f]
  BY <1>1, <1>2 DEF Whole, Body
<1>3. CASE \E i \in DOMAIN job'.writes : job'.writes[i][1] = f /\ c = job'.writes[i][2]
  BY <1>1, <1>3
<1> QED
  BY <1>1, <1>2, <1>3 DEF Contents

\* What a whole file holds is among what the file may come to hold.
LEMMA WholeBodies == ASSUME NEW f, Whole(f) PROVE Body(f) \in Bodies(f)
<1>1. files[f] \in Contents(f) /\ Len(files[f]) = 1
  BY DEF Contents, Whole
<1> QED
  BY <1>1 DEF Bodies, Body

\* A file that may come to hold something is there or pending.
LEMMA NoBodies == ASSUME NEW f, NEW b \in Bodies(f) PROVE Exists(f) \/ Pending(f)
<1>1. PICK c \in Contents(f) : Len(c) = 1
  BY DEF Bodies
<1> QED
  BY <1>1 DEF Contents, Exists, Pending

\* The writing of the next file.
LEMMA Writing ==
  ASSUME CodeInv, WriteNext
  PROVE  LET w == job.writes
             v == job'.writes
         IN  /\ 1 \in DOMAIN w /\ w[1][1] \notin {v[i][1] : i \in DOMAIN v}
             /\ files' = [files EXCEPT ![w[1][1]] = w[1][2]]
             /\ \A i \in DOMAIN v : i \in Nat /\ i + 1 \in DOMAIN w /\ v[i] = w[i + 1]
             /\ \A i \in DOMAIN w : i = 1 \/ (i \in Nat /\ i - 1 \in DOMAIN v /\ v[i - 1] = w[i])
             /\ job'.train = job.train /\ job' = [writes |-> v, train |-> job'.train]
             /\ UNCHANGED deaths
<1> DEFINE w == job.writes
           v == job'.writes
<1>1. PICK W : w \in Seq(W)
  BY DEF CodeInv, SealInv, QueueInv
<1>2. job = [writes |-> w, train |-> job.train] /\ \A i, j \in DOMAIN w : w[i][1] = w[j][1] => i = j
  BY DEF CodeInv, SealInv, QueueInv, JobInv
<1>3. /\ w # <<>> /\ files' = [files EXCEPT ![Head(w)[1]] = Head(w)[2]]
      /\ job' = [job EXCEPT !.writes = Tail(@)] /\ UNCHANGED deaths
  BY DEF WriteNext
<1>4. v = Tail(w) /\ job'.train = job.train /\ job' = [writes |-> v, train |-> job'.train]
  BY <1>2, <1>3
<1> HIDE DEF w, v
<1>5. /\ Tail(w) \in Seq(W) /\ Head(w) = w[1] /\ 1 \in DOMAIN w
      /\ \A i \in DOMAIN Tail(w) : i \in Nat /\ i + 1 \in DOMAIN w /\ Tail(w)[i] = w[i + 1]
      /\ \A i \in DOMAIN w : i = 1 \/ (i \in Nat /\ i - 1 \in DOMAIN Tail(w) /\ Tail(w)[i - 1] = w[i])
  BY <1>1, <1>3
<1>6. \A i \in DOMAIN Tail(w) : i + 1 # 1
  BY <1>5
<1>7. \A i \in DOMAIN v : v[i][1] # w[1][1]
  BY <1>2, <1>4, <1>5, <1>6
<1> QED
  BY <1>3, <1>4, <1>5, <1>7 DEF w, v

\* A step that writes the next file, or dies of it, is calm everywhere.
LEMMA CalmMoves ==
  ASSUME CodeInv, WriteNext \/ Die, NEW f \in Files
  PROVE  Calm(f)
<1>1. /\ files = [g \in Files |-> files[g]]
      /\ \A i \in DOMAIN job.writes : Len(job.writes[i][2]) > 0
  BY DEF CodeInv, SealInv, OnceInv
<1>2. CASE WriteNext
  <2> DEFINE w == job.writes
             v == job'.writes
             h == w[1][1]
  <2>1. /\ 1 \in DOMAIN w /\ \A i \in DOMAIN v : v[i][1] # h
        /\ files' = [files EXCEPT ![h] = w[1][2]]
        /\ \A i \in DOMAIN v : i + 1 \in DOMAIN w /\ v[i] = w[i + 1]
    BY <1>2, Writing
  <2>2. Contents(f)' \subseteq Contents(f)
    BY <1>1, <2>1 DEF Contents
  <2>3. Bodies(f)' \subseteq Bodies(f)
    BY <2>2 DEF Bodies
  <2>4. Exists(f) => Exists(f)'
    BY <1>1, <2>1 DEF Exists
  <2>5. Pending(f)' => Pending(f) /\ files'[f] = files[f]
    BY <1>1, <2>1 DEF Pending
  <2>6. ~Pending(f) => files'[f] = files[f]
    BY <1>1, <2>1 DEF Pending
  <2> QED
    BY <2>3, <2>4, <2>5, <2>6 DEF Calm
<1>3. CASE Die
  <2>1. /\ job'.writes = <<>>
        /\ \/ files' = files
           \/ job.writes # <<>> /\ files' = [files EXCEPT ![Head(job.writes)[1]] = Torn]
    BY <1>3 DEF Die, Idle
  <2>2. ~Pending(f)'
    BY <2>1 DEF Pending
  <2>3. \/ files'[f] = files[f]
        \/ Pending(f) /\ files'[f] = Torn
    <3>1. PICK W : job.writes \in Seq(W)
      BY DEF CodeInv, SealInv, QueueInv
    <3>2. job.writes # <<>> => 1 \in DOMAIN job.writes /\ Head(job.writes) = job.writes[1]
      BY <3>1
    <3> QED
      BY <1>1, <2>1, <3>2 DEF Pending
  <2>4. Len(Torn) = 2
    BY DEF Torn
  <2>5. Contents(f)' = {files'[f]} /\ files[f] \in Contents(f)
    BY <2>1 DEF Contents
  <2>6. Bodies(f)' \subseteq Bodies(f)
    BY <2>3, <2>4, <2>5 DEF Bodies
  <2>7. Exists(f) => Exists(f)'
    <3>1. CASE files'[f] = files[f]
      BY <3>1 DEF Exists
    <3>2. CASE files'[f] = Torn
      BY <2>4, <3>2 DEF Exists
    <3> QED
      BY <2>3, <3>1, <3>2
  <2> QED
    BY <2>2, <2>3, <2>6, <2>7 DEF Calm
<1> QED
  BY <1>2, <1>3

\* Calm files keep each part of the invariant.
LEMMA CodedKept ==
  ASSUME CodedInv, \A f \in {"texts", "ids", "places"} : Calm(f) PROVE CodedInv'
<1>1. AllIds' = AllIds
  BY DEF AllIds
<1> QED
  BY <1>1 DEF CodedInv, Calm

\* A step that leaves the files of `OnceInv` alone keeps it.
LEMMA OnceKept ==
  ASSUME OnceInv, \A f \in {"places", "dictionary", "onnx"} : Calm(f),
         \A i \in DOMAIN job'.writes : Len(job'.writes[i][2]) > 0
  PROVE  OnceInv'
  BY DEF OnceInv, Calm, Exists

\* A step that leaves the ids, and what is made of them, alone keeps `OneIdsInv`.
LEMMA OneIdsKept ==
  ASSUME OneIdsInv, deaths' = 0 => deaths = 0, \A f \in {"ids", "dictionary", "places"} : Calm(f),
         Exists("rq_meta") \/ Pending("rq_meta") => (Exists("rq_meta") \/ Pending("rq_meta"))'
  PROVE  OneIdsInv'
<1> SUFFICES ASSUME deaths' = 0, deaths = 0 PROVE OneIdsInv'
  BY DEF OneIdsInv
<1>1. (Exists("ids") \/ Pending("ids"))' => Exists("ids") \/ Pending("ids")
  BY DEF Calm, Exists
<1>2. Pending("ids")' => ~Exists("ids")'
  BY DEF OneIdsInv, Calm, Exists
<1>3. Whole("ids") => Whole("ids")' /\ Body("ids")' = Body("ids")
  BY WholeExists DEF OneIdsInv, Calm, Whole, Body
<1>4. \A b \in Bodies("dictionary")' : (Whole("ids") /\ b = build_dictionary(Body("ids")))'
  BY <1>3 DEF OneIdsInv, Calm
<1>5. \A b \in Bodies("places")' :
        (Whole("ids") /\ \E db \in DBs : b = export_places(db, Body("ids")))'
  BY <1>3 DEF OneIdsInv, Calm
<1> QED
  BY <1>1, <1>2, <1>4, <1>5 DEF OneIdsInv

\* The places on file, and the codes on them, stay for good.
LEMMA PlacesStay ==
  ASSUME OnceInv, Calm("places"), Whole("places")
  PROVE  Whole("places")' /\ Body("places")' = Body("places") /\ TrainedCodes' = TrainedCodes
<1>1. Whole("places")' /\ Body("places")' = Body("places")
  BY WholeExists DEF OnceInv, Calm, Whole, Body
<1> QED
  BY <1>1 DEF TrainedCodes

\* A step that leaves the model and the places alone keeps `ModelInv`.
LEMMA ModelKept ==
  ASSUME OnceInv, ModelInv, Calm("model"), Calm("places"), job'.train \in {job.train, <<>>}
  PROVE  ModelInv'
  BY PlacesStay DEF ModelInv, Calm

\* So does an exported model.
LEMMA ModelStays ==
  ASSUME ExportInv, Exists("onnx") \/ Pending("onnx"), Calm("model"), job'.train \in {job.train, <<>>}
  PROVE  /\ Whole("model")' /\ Body("model")' = Body("model") /\ Whole("model")
         /\ job'.train = <<>> /\ ~Pending("model")'
  BY DEF ExportInv, Calm, Whole, Body

\* A step that leaves model, export and bundle alone keeps `ExportInv`.
LEMMA ExportKept ==
  ASSUME ExportInv, \A f \in {"onnx", "model", "bundle_onnx", "bundle_codes"} : Calm(f),
         job'.train \in {job.train, <<>>}
  PROVE  ExportInv'
<1>1. (Exists("onnx") \/ Pending("onnx"))' => Exists("onnx") \/ Pending("onnx")
  BY DEF Calm, Exists
<1>2. (Bodies("bundle_onnx") \cup Bodies("bundle_codes"))' # {} => Exists("onnx")'
  BY DEF ExportInv, Calm
<1>3. ASSUME NEW b \in (Bodies("onnx") \cup Bodies("bundle_onnx"))' PROVE b = Body("model")'
  <2>1. b \in Bodies("onnx") \cup Bodies("bundle_onnx")
    BY <1>3 DEF Calm
  <2>2. b = Body("model") /\ (Exists("onnx") \/ Pending("onnx"))
    BY <2>1, NoBodies DEF ExportInv
  <2> QED
    BY <2>2, ModelStays
<1> QED
  BY <1>1, <1>2, <1>3, ModelStays DEF ExportInv

\* A step that leaves places, model and bundle alone keeps `BundleInv`.
LEMMA BundleKept ==
  ASSUME OnceInv, ExportInv, BundleInv, job'.train \in {job.train, <<>>},
         \A f \in {"model", "places", "bundle_codes"} : Calm(f)
  PROVE  BundleInv'
<1> SUFFICES ASSUME NEW b \in Bodies("bundle_codes")'
             PROVE  /\ Whole("places")' /\ DOMAIN b.codes \subseteq DOMAIN TrainedCodes'
                    /\ \A g \in DOMAIN b.codes : b.codes[g] = TrainedCodes'[g]
                    /\ b.version.best_dev_loss \in {Body("model")'.loss, Inf}
  BY DEF BundleInv
<1>1. b \in Bodies("bundle_codes") /\ Exists("onnx")
  BY DEF ExportInv, Calm
<1>2. Body("model")' = Body("model")
  BY <1>1, ModelStays
<1> QED
  BY <1>1, <1>2, PlacesStay DEF BundleInv

\* A script that writes neither the model nor its meta file keeps `LossInv`.
LEMMA LossKept ==
  ASSUME LossInv, job.writes = <<>>, files' = files, job'.train = <<>>,
         \A i \in DOMAIN job'.writes : job'.writes[i][1] \notin {"model", "model_meta"}
  PROVE  LossInv'
<1>1. ~Pending("model")' /\ UNCHANGED <<Whole("model"), Body("model"), Whole("model_meta"), Body("model_meta")>>
  BY DEF Pending, Whole, Body
<1> QED
  BY <1>1 DEF LossInv

\* A loss that is to come stays so while the files are written.
LEMMA ComingKept ==
  ASSUME CodeInv, WriteNext PROVE \A loss : Coming(loss) => Coming(loss)'
<1> DEFINE w == job.writes
           v == job'.writes
<1>1. /\ \A i \in DOMAIN v : v[i][1] # w[1][1]
      /\ files' = [files EXCEPT ![w[1][1]] = w[1][2]] /\ files = [g \in Files |-> files[g]]
      /\ \A i \in DOMAIN w : i = 1 \/ (i \in Nat /\ i - 1 \in DOMAIN v /\ v[i - 1] = w[i])
  BY Writing DEF CodeInv, SealInv
<1>2. "model" \in Files /\ Calm("model")
  BY CalmMoves DEF Files
<1> SUFFICES ASSUME NEW loss, Coming(loss) PROVE Coming(loss)'
  OBVIOUS
<1>3. CASE ~Pending("model") /\ Whole("model") /\ Body("model").loss = loss
  BY <1>2, <1>3 DEF Coming, Calm, Whole, Body
<1>4. CASE \E i \in DOMAIN w : w[i][1] = "model" /\ Len(w[i][2]) = 1 /\ w[i][2][1].loss = loss
  <2>1. PICK i \in DOMAIN w : w[i][1] = "model" /\ Len(w[i][2]) = 1 /\ w[i][2][1].loss = loss
    BY <1>4
  <2>2. CASE i = 1
    <3>1. ~Pending("model")' /\ files'["model"] = w[1][2]
      BY <1>1, <1>2, <2>1, <2>2 DEF Pending
    <3> QED
      BY <2>1, <2>2, <3>1 DEF Coming, Whole, Body
  <2>3. CASE i # 1
    BY <1>1, <2>1, <2>3 DEF Coming
  <2> QED
    BY <2>2, <2>3
<1> QED
  BY <1>3, <1>4 DEF Coming

\* Writing the next file keeps `LossInv`: the model comes before its meta file.
LEMMA WritingKeepsLoss == ASSUME CodeInv, WriteNext PROVE LossInv'
<1> DEFINE w == job.writes
           v == job'.writes
<1>1. /\ 1 \in DOMAIN w /\ \A i \in DOMAIN v : v[i][1] # w[1][1]
      /\ files' = [files EXCEPT ![w[1][1]] = w[1][2]] /\ files = [g \in Files |-> files[g]]
      /\ \A i \in DOMAIN v : i \in Nat /\ i + 1 \in DOMAIN w /\ v[i] = w[i + 1]
      /\ job'.train = job.train
  BY Writing DEF CodeInv, SealInv
<1>2. "model" \in Files /\ "model_meta" \in Files /\ Calm("model")
  BY CalmMoves DEF Files
<1>3. LossInv
  BY DEF CodeInv
<1>4. ASSUME Whole("model_meta")', Body("model_meta")'.best_dev_loss # Inf
      PROVE  /\ job'.train = <<>> /\ ~Pending("model")'
             /\ Whole("model")' /\ Body("model")'.loss = Body("model_meta")'.best_dev_loss
  <2>1. CASE w[1][1] = "model_meta"
    <3>1. /\ job.train = <<>> /\ Coming(w[1][2][1].best_dev_loss)
          /\ \A j \in DOMAIN w : w[j][1] = "model" => j < 1
      BY <1>1, <1>2, <1>3, <1>4, <2>1 DEF LossInv, Body
    <3>2. \A j \in DOMAIN w : j \in Nat /\ j >= 1
      BY Writing
    <3>3. ~Pending("model")
      BY <3>1, <3>2 DEF Pending
    <3>4. Whole("model") /\ Body("model").loss = w[1][2][1].best_dev_loss
      BY <3>1, <3>3 DEF Coming, Pending
    <3> QED
      BY <1>1, <1>2, <2>1, <3>1, <3>3, <3>4 DEF Calm, Whole, Body
  <2>2. CASE w[1][1] # "model_meta"
    <3>1. files'["model_meta"] = files["model_meta"]
      BY <1>1, <1>2, <2>2
    <3>2. /\ job.train = <<>> /\ ~Pending("model") /\ Whole("model")
          /\ Body("model").loss = Body("model_meta").best_dev_loss
      BY <1>3, <1>4, <3>1 DEF LossInv, Whole, Body
    <3> QED
      BY <1>1, <1>2, <3>1, <3>2 DEF Calm, Whole, Body
  <2> QED
    BY <2>1, <2>2
<1>5. ASSUME NEW i \in DOMAIN v, v[i][1] = "model_meta"
      PROVE  /\ job'.train = <<>> /\ Len(v[i][2]) = 1
             /\ (LET best == job.writes[i][2][1].best_dev_loss IN best = Inf \/ Coming(best))'
             /\ \A j \in DOMAIN v : v[j][1] = "model" => j < i
  <2>1. /\ i \in Nat /\ i + 1 \in DOMAIN w /\ v[i] = w[i + 1] /\ w[i + 1][1] = "model_meta"
    BY <1>1, <1>5
  <2>2. /\ job.train = <<>> /\ Len(w[i + 1][2]) = 1
        /\ w[i + 1][2][1].best_dev_loss = Inf \/ Coming(w[i + 1][2][1].best_dev_loss)
        /\ \A j \in DOMAIN w : w[j][1] = "model" => j < i + 1
    BY <1>3, <2>1 DEF LossInv
  <2>3. (LET best == job.writes[i][2][1].best_dev_loss IN best = Inf \/ Coming(best))'
    <3>1. PICK loss : loss = v[i][2][1].best_dev_loss /\ loss = w[i + 1][2][1].best_dev_loss
      BY <2>1
    <3>2. loss = Inf \/ Coming(loss)
      BY <2>2, <3>1 DEF Coming
    <3>3. loss = Inf \/ Coming(loss)'
      BY <3>2, ComingKept
    <3> QED
      BY <3>1, <3>3 DEF Coming
  <2>4. ASSUME NEW j \in DOMAIN v, v[j][1] = "model" PROVE j < i
    <3>1. j \in Nat /\ j + 1 \in DOMAIN w /\ w[j + 1][1] = "model"
      BY <1>1, <2>4
    <3> QED
      BY <2>1, <2>2, <3>1
  <2> QED
    BY <1>1, <2>1, <2>2, <2>3, <2>4
<1>6. ASSUME job'.train # <<>> PROVE (job.train[1].best = Inf \/ Coming(job.train[1].best))'
  <2>1. PICK loss : loss = job.train[1].best /\ loss = job'.train[1].best
    BY <1>1
  <2>2. loss = Inf \/ Coming(loss)
    BY <1>1, <1>3, <1>6, <2>1 DEF LossInv, Coming
  <2>3. loss = Inf \/ Coming(loss)'
    BY <2>2, ComingKept
  <2> QED
    BY <2>1, <2>3 DEF Coming
<1> QED
  BY <1>4, <1>5, <1>6 DEF LossInv

\* A script that dies leaves no model to come, and an account only of one that is there.
LEMMA DeathKeepsLoss == ASSUME CodeInv, Die PROVE LossInv'
<1>1. job'.writes = <<>> /\ job'.train = <<>> /\ ~Pending("model")'
  BY DEF Die, Idle, Pending
<1>2. "model" \in Files /\ "model_meta" \in Files
  BY DEF Files
<1>3. Calm("model") /\ LossInv
  BY <1>2, CalmMoves DEF CodeInv
<1>4. files'["model_meta"] = files["model_meta"] \/ Len(files'["model_meta"]) = 2
  <2>1. files = [g \in Files |-> files[g]]
    BY DEF CodeInv, SealInv
  <2>2. files' = files \/ \E h : files' = [files EXCEPT ![h] = Torn]
    BY DEF Die
  <2>3. files'["model_meta"] = files["model_meta"] \/ files'["model_meta"] = Torn
    BY <1>2, <2>1, <2>2
  <2>4. Len(Torn) = 2
    BY DEF Torn
  <2> QED
    BY <2>3, <2>4
<1>5. Whole("model_meta")' => Whole("model_meta") /\ Body("model_meta")' = Body("model_meta")
  BY <1>4 DEF Whole, Body
<1>6. ~Pending("model") /\ Whole("model") => Whole("model")' /\ Body("model")' = Body("model")
  BY <1>3 DEF Calm, Whole, Body
<1>7. Whole("model_meta")' /\ Body("model_meta")'.best_dev_loss # Inf =>
        Whole("model")' /\ Body("model")'.loss = Body("model_meta")'.best_dev_loss
  BY <1>3, <1>5, <1>6 DEF LossInv
<1> QED
  BY <1>1, <1>7 DEF LossInv

\* The next file, or death.
LEMMA MovesKeepCode == ASSUME CodeInv, SealInv', WriteNext \/ Die PROVE CodeInv'
<1>1. \A f \in {"texts", "ids", "places", "dictionary", "onnx", "model", "bundle_onnx", "bundle_codes"} :
        Calm(f)
  BY CalmMoves DEF Files
<1>2. /\ job'.train \in {job.train, <<>>}
      /\ \A i \in DOMAIN job'.writes : Len(job'.writes[i][2]) > 0
      /\ JobInv' /\ deaths' \in Nat /\ (deaths' = 0 => deaths = 0 /\ WriteNext)
  <2>1. CASE WriteNext
    <3>1. deaths' = deaths
      BY <2>1 DEF WriteNext
    <3> QED
      BY <2>1, <3>1, Writing DEF CodeInv, OnceInv, JobInv
  <2>2. CASE Die
    BY <2>2 DEF Die, Idle, CodeInv, JobInv
  <2> QED
    BY <2>1, <2>2
<1>3. OnceInv'
  BY <1>1, <1>2, OnceKept DEF CodeInv
<1>4. CodedInv' /\ ModelInv' /\ ExportInv' /\ BundleInv'
  BY <1>1, <1>2, CodedKept, ModelKept, ExportKept, BundleKept DEF CodeInv
<1>5. OneIdsInv'
  <2>1. CASE WriteNext
    <3>1. /\ files' = [files EXCEPT ![job.writes[1][1]] = job.writes[1][2]]
          /\ Len(job.writes[1][2]) > 0 /\ files = [g \in Files |-> files[g]]
          /\ \A i \in DOMAIN job.writes :
               i = 1 \/ (i - 1 \in DOMAIN job'.writes /\ job'.writes[i - 1] = job.writes[i])
      BY <2>1, Writing DEF CodeInv, SealInv, OnceInv
    <3>2. "rq_meta" \in Files
      BY DEF Files
    <3>3. Exists("rq_meta") \/ Pending("rq_meta") => (Exists("rq_meta") \/ Pending("rq_meta"))'
      BY <3>1, <3>2 DEF Exists, Pending
    <3> QED
      BY <1>1, <1>2, <3>3, OneIdsKept DEF CodeInv
  <2>2. CASE Die
    BY <2>2, <1>2 DEF OneIdsInv, Die, CodeInv
  <2> QED
    BY <2>1, <2>2
<1>6. LossInv'
  BY WritingKeepsLoss, DeathKeepsLoss
<1> QED
  BY <1>2, <1>3, <1>4, <1>5, <1>6 DEF CodeInv

\* The script writes no file of that name.
Untouched(w, f) == \A i \in DOMAIN w : w[i][1] # f

\* What a script that starts need not be asked about.
LEMMA ScriptCode ==
  ASSUME CodeInv, NEW needs, NEW w, Script(needs, w)
  PROVE  /\ job.writes = <<>> /\ job'.writes = w /\ job.train = <<>> /\ job'.train = <<>>
         /\ JobInv' /\ UNCHANGED <<files, deaths>> /\ \A f \in needs : Whole(f)
         /\ \A f : ~Pending(f) /\ (Untouched(w, f) => Calm(f) /\ ~Pending(f)')
         /\ Untouched(w, "texts") /\ Untouched(w, "ids") /\ Untouched(w, "places") => CodedInv'
         /\ Untouched(w, "ids") /\ Untouched(w, "dictionary") /\ Untouched(w, "places") => OneIdsInv'
         /\ Untouched(w, "model") /\ Untouched(w, "places") => ModelInv'
         /\ Untouched(w, "model") /\ Untouched(w, "onnx") /\ Untouched(w, "bundle_onnx")
              /\ Untouched(w, "bundle_codes") => ExportInv'
         /\ Untouched(w, "model") /\ Untouched(w, "places") /\ Untouched(w, "bundle_codes") => BundleInv'
         /\ Untouched(w, "model") /\ Untouched(w, "model_meta") => LossInv'
<1>1. /\ job.writes = <<>> /\ job'.writes = w /\ job.train = <<>> /\ job'.train = <<>>
      /\ JobInv' /\ UNCHANGED <<files, deaths>> /\ \A f \in needs : Whole(f)
  BY DEF Script, Idle, JobInv
<1>2. \A f : ~Pending(f) /\ (Untouched(w, f) => Calm(f) /\ ~Pending(f)')
  BY <1>1, CalmOthers DEF Untouched, Pending
<1>3. Exists("rq_meta") \/ Pending("rq_meta") => (Exists("rq_meta") \/ Pending("rq_meta"))'
  BY <1>1, <1>2 DEF Exists
<1>4. Untouched(w, "ids") /\ Untouched(w, "dictionary") /\ Untouched(w, "places") => OneIdsInv'
  BY <1>1, <1>2, <1>3, OneIdsKept DEF CodeInv
<1>5. Untouched(w, "texts") /\ Untouched(w, "ids") /\ Untouched(w, "places") => CodedInv'
  BY <1>2, CodedKept DEF CodeInv
<1>6. Untouched(w, "model") /\ Untouched(w, "places") => ModelInv'
  BY <1>1, <1>2, ModelKept DEF CodeInv
<1>7. Untouched(w, "model") /\ Untouched(w, "onnx") /\ Untouched(w, "bundle_onnx")
        /\ Untouched(w, "bundle_codes") => ExportInv'
  BY <1>1, <1>2, ExportKept DEF CodeInv
<1>8. Untouched(w, "model") /\ Untouched(w, "places") /\ Untouched(w, "bundle_codes") => BundleInv'
  BY <1>1, <1>2, BundleKept DEF CodeInv
<1>9. Untouched(w, "model") /\ Untouched(w, "model_meta") => LossInv'
  BY <1>1, LossKept DEF CodeInv, Untouched
<1> QED
  BY <1>1, <1>2, <1>4, <1>5, <1>6, <1>7, <1>8, <1>9

\* A script keeps `OnceInv` if it writes the files of it only when they are missing.
LEMMA ScriptOnce ==
  ASSUME CodeInv, NEW needs, NEW w, Script(needs, w),
         \A i \in DOMAIN w : Len(w[i][2]) > 0,
         \A f \in {"places", "dictionary", "onnx"} : Untouched(w, f) \/ ~Exists(f)
  PROVE  OnceInv'
<1>1. job'.writes = w /\ files' = files /\ \A f : Untouched(w, f) => ~Pending(f)'
  BY ScriptCode
<1> QED
  BY <1>1 DEF OnceInv, Exists

\* The names and bodies of what a script writes.
LEMMA Names ==
  /\ \A f, b : Put(f, b)[1] = f /\ Put(f, b)[2] = <<b>> /\ Len(<<b>>) = 1 /\ <<b>>[1] = b
  /\ \A f : Untouched(<<>>, f)
  /\ \A a, f : Untouched(<<a>>, f) <=> a[1] # f
  /\ \A a, b, f : Untouched(<<a, b>>, f) <=> a[1] # f /\ b[1] # f
  /\ \A a, b, c, f : Untouched(<<a, b, c>>, f) <=> a[1] # f /\ b[1] # f /\ c[1] # f
<1>1. \A a, f : Untouched(<<a>>, f) <=> a[1] # f
  BY DEF Untouched
<1>2. \A a, b, f : Untouched(<<a, b>>, f) <=> a[1] # f /\ b[1] # f
  <2> TAKE a, b, f
  <2>1. DOMAIN <<a, b>> = {1, 2}
    OBVIOUS
  <2> QED
    BY <2>1 DEF Untouched
<1>3. \A a, b, c, f : Untouched(<<a, b, c>>, f) <=> a[1] # f /\ b[1] # f /\ c[1] # f
  <2> TAKE a, b, c, f
  <2>1. DOMAIN <<a, b, c>> = {1, 2, 3}
    OBVIOUS
  <2> QED
    BY <2>1 DEF Untouched
<1> QED
  BY <1>1, <1>2, <1>3 DEF Put, Untouched

\* Lists of one, two or three writes none of which deletes.
LEMMA Sizes ==
  /\ \A a : Len(a[2]) > 0 => \A i \in DOMAIN <<a>> : Len(<<a>>[i][2]) > 0
  /\ \A a, b : Len(a[2]) > 0 /\ Len(b[2]) > 0 => \A i \in DOMAIN <<a, b>> : Len(<<a, b>>[i][2]) > 0
  /\ \A a, b, c : Len(a[2]) > 0 /\ Len(b[2]) > 0 /\ Len(c[2]) > 0 =>
       \A i \in DOMAIN <<a, b, c>> : Len(<<a, b, c>>[i][2]) > 0
<1>1. \A a, b : DOMAIN <<a, b>> = {1, 2}
  OBVIOUS
<1>2. \A a, b, c : DOMAIN <<a, b, c>> = {1, 2, 3}
  OBVIOUS
<1>3. \A a : DOMAIN <<a>> = {1}
  OBVIOUS
<1> QED
  BY <1>1, <1>2, <1>3

\* Days, the split, a measurement: the codes are not concerned.
LEMMA QuietScripts ==
  ASSUME CodeInv, SealInv', BuildDays \/ WriteSplit \/ EvalModel PROVE CodeInv'
<1>1. PICK needs, w : Script(needs, w) /\ (w = <<>> \/ \E f \in {"days", "split"} : \E b : w = <<Put(f, b)>>)
  <2>1. CASE BuildDays
    BY <2>1 DEF BuildDays, write_outputs
  <2>2. CASE WriteSplit
    BY <2>2 DEF WriteSplit
  <2>3. CASE EvalModel
    BY <2>3 DEF EvalModel
  <2> QED
    BY <2>1, <2>2, <2>3
<1>2. \A f \in {"texts", "ids", "places", "dictionary", "onnx", "model", "model_meta",
                "bundle_onnx", "bundle_codes"} : Untouched(w, f)
  BY <1>1, Names
<1>3. \A i \in DOMAIN w : Len(w[i][2]) > 0
  <2>1. CASE w = <<>>
    BY <2>1
  <2>2. CASE \E f, b : w = <<Put(f, b)>>
    BY <2>2, Names, Sizes
  <2> QED
    BY <1>1, <2>1, <2>2
<1>4. OnceInv'
  BY <1>1, <1>2, <1>3, ScriptOnce
<1> QED
  BY <1>1, <1>2, <1>4, ScriptCode DEF CodeInv

\* The texts are of the table that is read.
LEMMA EmbedCode == ASSUME CodeInv, SealInv', Embed PROVE CodeInv'
<1>1. PICK db \in DBs :
        LET items == build_texts(db)
        IN  Script({"days"}, <<Put("embeddings", items), Put("texts", items), Put("embed_meta", "meta")>>)
  BY DEF Embed
<1> DEFINE items == build_texts(db)
           w == <<Put("embeddings", items), Put("texts", items), Put("embed_meta", "meta")>>
<1>2. \A f \in {"ids", "places", "dictionary", "onnx", "model", "model_meta",
                "bundle_onnx", "bundle_codes"} : Untouched(w, f)
  BY Names
<1>3. OnceInv'
  <2>1. \A i \in DOMAIN w : Len(w[i][2]) > 0
    <3> HIDE DEF items
    <3> QED
      BY Names, Sizes
  <2> HIDE DEF w
  <2> QED
    BY <1>1, <1>2, <2>1, ScriptOnce DEF w
<1>4. CodedInv'
  <2>1. ASSUME NEW b \in Bodies("texts")' PROVE \E d \in DBs : b.db = DOMAIN d
    <3>1. \/ Whole("texts") /\ b = Body("texts")
          \/ \E i \in DOMAIN w : w[i][1] = "texts" /\ b = w[i][2][1]
      BY <1>1, <2>1, NewBodies, ScriptCode
    <3>2. \A i \in DOMAIN w : w[i][1] = "texts" => w[i][2][1] = items
      <4>1. DOMAIN w = {1, 2, 3}
        OBVIOUS
      <4> QED
        BY <4>1, Names
    <3>3. items.db = DOMAIN db
      BY DEF build_texts
    <3> HIDE DEF items, w
    <3> QED
      BY <3>1, <3>2, <3>3, WholeBodies DEF CodeInv, CodedInv
  <2>2. Calm("ids") /\ Calm("places")
    <3> HIDE DEF w
    <3> QED
      BY <1>1, <1>2, ScriptCode DEF w
  <2>3. AllIds' = AllIds
    BY DEF AllIds
  <2> QED
    BY <2>1, <2>2, <2>3 DEF CodeInv, CodedInv, Calm
<1> HIDE DEF w
<1> QED
  BY <1>1, <1>2, <1>3, <1>4, ScriptCode DEF CodeInv, w

\* The codes are given to the places of the texts; a second time only when a
\* script has died.
LEMMA RqvaeCode == ASSUME CodeInv, SealInv', TrainRqvae PROVE CodeInv'
<1>1. PICK coding \in Codings :
        LET codes == [g \in Body("texts").db |-> coding[g]]
        IN  Script({"embeddings", "texts"},
                   <<Put("ids", assign_collision_ids(codes)), Put("rqvae", codes), Put("rq_meta", "meta")>>)
  BY DEF TrainRqvae
<1> DEFINE codes == [g \in Body("texts").db |-> coding[g]]
           ids == assign_collision_ids(codes)
           w == <<Put("ids", ids), Put("rqvae", codes), Put("rq_meta", "meta")>>
<1>2. \A f \in {"texts", "places", "dictionary", "onnx", "model", "model_meta",
                "bundle_onnx", "bundle_codes"} : Untouched(w, f)
  BY Names
<1>3. OnceInv'
  <2>1. \A i \in DOMAIN w : Len(w[i][2]) > 0
    BY Names, Sizes
  <2> HIDE DEF w
  <2> QED
    BY <1>1, <1>2, <2>1, ScriptOnce DEF w
<1>4. ids \in AllIds
  <2>1. Body("texts") \in Bodies("texts")
    <3>1. Whole("texts")
      BY DEF TrainRqvae
    <3> QED
      BY <3>1, WholeBodies
  <2>2. PICK db \in DBs : Body("texts").db = DOMAIN db
    BY <2>1 DEF CodeInv, CodedInv
  <2>3. codes = [g \in DOMAIN db |-> coding[g]]
    BY <2>2
  <2>4. ids = IdsOf(db, coding)
    BY <2>3 DEF IdsOf
  <2> HIDE DEF ids
  <2> QED
    BY <2>4 DEF AllIds
<1>5. CodedInv'
  <2>1. ASSUME NEW b \in Bodies("ids")' PROVE b \in AllIds
    <3>1. \/ Whole("ids") /\ b = Body("ids")
          \/ \E i \in DOMAIN w : w[i][1] = "ids" /\ b = w[i][2][1]
      <4>1. job'.writes = w /\ files' = files
        <5> HIDE DEF w
        <5> QED
          BY <1>1, ScriptCode DEF w
      <4> HIDE DEF ids, w
      <4> QED
        BY <4>1, <2>1, NewBodies
    <3>2. \A i \in DOMAIN w : w[i][1] = "ids" => w[i][2][1] = ids
      <4>1. DOMAIN w = {1, 2, 3}
        OBVIOUS
      <4> QED
        BY <4>1, Names
    <3> HIDE DEF ids, w
    <3> QED
      BY <1>4, <3>1, <3>2, WholeBodies DEF CodeInv, CodedInv
  <2>2. Calm("texts") /\ Calm("places")
    <3> HIDE DEF w
    <3> QED
      BY <1>1, <1>2, ScriptCode DEF w
  <2>3. AllIds' = AllIds
    BY DEF AllIds
  <2> QED
    BY <2>1, <2>2, <2>3 DEF CodeInv, CodedInv, Calm
<1>6. OneIdsInv'
  <2> SUFFICES ASSUME deaths' = 0 PROVE OneIdsInv'
    BY DEF OneIdsInv
  <2>1. /\ job'.writes = w /\ files' = files /\ deaths = 0 /\ ~Pending("rq_meta") /\ ~Exists("rq_meta")
        /\ Calm("dictionary") /\ Calm("places")
    <3> HIDE DEF w
    <3> QED
      BY <1>1, <1>2, ScriptCode DEF w, TrainRqvae
  <2>2. ~Exists("ids") /\ ~Whole("ids")
    BY <2>1, WholeExists DEF CodeInv, OneIdsInv
  <2>3. Bodies("dictionary")' = {} /\ Bodies("places")' = {}
    BY <2>1, <2>2 DEF CodeInv, OneIdsInv, Calm
  <2>4. Pending("rq_meta")'
    <3>1. 3 \in DOMAIN w /\ w[3][1] = "rq_meta"
      BY Names
    <3> QED
      BY <2>1, <3>1 DEF Pending
  <2>5. ~Exists("ids")'
    BY <2>1, <2>2 DEF Exists
  <2> QED
    BY <2>3, <2>4, <2>5 DEF OneIdsInv
<1> HIDE DEF w
<1> QED
  BY <1>1, <1>2, <1>3, <1>5, <1>6, ScriptCode DEF CodeInv, w

\* The dictionary is of the codes on file.
LEMMA DictionaryCode == ASSUME CodeInv, SealInv', CodeDict PROVE CodeInv'
<1> DEFINE dict == build_dictionary(Body("ids"))
           w == <<Put("dictionary", dict)>>
<1>1. Script({"embed_meta", "rq_meta", "ids", "rqvae", "texts"}, w) /\ Whole("ids") /\ ~Exists("dictionary")
  BY DEF CodeDict
<1>2. \A f \in {"texts", "ids", "places", "onnx", "model", "model_meta", "bundle_onnx", "bundle_codes"} :
        Untouched(w, f)
  BY Names
<1>3. OnceInv'
  <2>1. \A i \in DOMAIN w : Len(w[i][2]) > 0
    BY Names, Sizes
  <2> HIDE DEF w
  <2> QED
    BY <1>1, <1>2, <2>1, ScriptOnce
<1>4. OneIdsInv'
  <2>1. /\ job'.writes = w /\ files' = files /\ deaths' = deaths /\ Calm("ids") /\ Calm("places")
        /\ \A f : ~Pending(f)
    <3> HIDE DEF w
    <3> QED
      BY <1>1, <1>2, ScriptCode
  <2>2. /\ Whole("ids")' /\ Body("ids")' = Body("ids")
        /\ Exists("rq_meta")' = Exists("rq_meta") /\ Exists("ids")' = Exists("ids")
    BY <1>1, <2>1 DEF Whole, Body, Exists
  <2>3. ASSUME deaths = 0, NEW b \in Bodies("dictionary")' PROVE b = dict
    <3>1. \/ Whole("dictionary") /\ b = Body("dictionary")
          \/ \E i \in DOMAIN w : w[i][1] = "dictionary" /\ b = w[i][2][1]
      BY <2>1, <2>3, NewBodies
    <3>2. \A i \in DOMAIN w : w[i][2][1] = dict
      <4>1. DOMAIN w = {1}
        OBVIOUS
      <4> QED
        BY <4>1, Names
    <3> QED
      BY <1>1, <3>1, <3>2, WholeExists
  <2>4. ~Pending("ids")'
    <3> HIDE DEF w
    <3> QED
      BY <1>1, <1>2, ScriptCode
  <2>5. deaths = 0 => \A b \in Bodies("places")' :
          Whole("ids") /\ \E db \in DBs : b = export_places(db, Body("ids"))
    BY <2>1 DEF CodeInv, OneIdsInv, Calm
  <2>6. deaths = 0 /\ Exists("ids") => Exists("rq_meta")
    BY <2>1 DEF CodeInv, OneIdsInv
  <2> HIDE DEF w
  <2> QED
    BY <2>1, <2>2, <2>3, <2>4, <2>5, <2>6 DEF OneIdsInv
<1> HIDE DEF w
<1> QED
  BY <1>1, <1>2, <1>3, <1>4, ScriptCode DEF CodeInv

\* Places are exported once, with the codes on file.
LEMMA TrainDataCode == ASSUME CodeInv, SealInv', TrainData PROVE CodeInv'
<1>1. PICK db \in DBs, near \in Nearest :
        Script({"ids", "embeddings", "texts", "days"},
               <<Put("places", export_places(db, Body("ids"))),
                 Put("visit_map", nearest_places(near, Body("texts")))>>)
  BY DEF TrainData
<1> DEFINE table == export_places(db, Body("ids"))
           map == nearest_places(near, Body("texts"))
           w == <<Put("places", table), Put("visit_map", map)>>
<1>2. \A f \in {"texts", "ids", "dictionary", "onnx", "model", "model_meta",
                "bundle_onnx", "bundle_codes"} : Untouched(w, f)
  <2> HIDE DEF table, map
  <2> QED
    BY Names
<1>3. /\ ~Exists("places") /\ ~Whole("places") /\ Whole("ids") /\ Body("ids") \in Bodies("ids")
  BY WholeExists, WholeBodies DEF TrainData
<1>4. \A i \in DOMAIN w : Len(w[i][2]) > 0 /\ (w[i][1] = "places" => w[i][2][1] = table)
  <2> HIDE DEF table, map
  <2>1. DOMAIN w = {1, 2}
    OBVIOUS
  <2> QED
    BY <2>1, Names
<1> HIDE DEF w
<1>5. /\ job'.writes = w /\ files' = files /\ deaths' = deaths /\ job'.train = <<>> /\ job.train = <<>>
      /\ JobInv' /\ \A f : ~Pending(f)
      /\ \A f \in {"texts", "ids", "dictionary", "model", "bundle_codes"} : Calm(f) /\ ~Pending(f)'
  BY <1>1, <1>2, ScriptCode DEF w
<1>6. OnceInv'
  BY <1>1, <1>2, <1>3, <1>4, ScriptOnce DEF w
<1>7. \A b \in Bodies("places")' : b = table
  BY <1>3, <1>4, <1>5, NewBodies
<1>8. CodedInv'
  <2>1. AllIds' = AllIds
    BY DEF AllIds
  <2>2. Body("ids") \in AllIds
    BY <1>3 DEF CodeInv, CodedInv
  <2> QED
    BY <1>5, <1>7, <2>1, <2>2 DEF CodeInv, CodedInv, Calm
<1>9. OneIdsInv'
  <2>1. /\ Whole("ids")' /\ Body("ids")' = Body("ids")
        /\ Exists("rq_meta")' = Exists("rq_meta") /\ Exists("ids")' = Exists("ids")
    BY <1>3, <1>5 DEF Whole, Body, Exists
  <2>2. deaths = 0 /\ Exists("ids") => Exists("rq_meta")
    BY <1>5 DEF CodeInv, OneIdsInv
  <2>3. deaths = 0 => \A b \in Bodies("dictionary")' : Whole("ids") /\ b = build_dictionary(Body("ids"))
    BY <1>5 DEF CodeInv, OneIdsInv, Calm
  <2>4. \A b \in Bodies("places")' : \E d \in DBs : b = export_places(d, Body("ids"))
    BY <1>7
  <2> HIDE DEF table
  <2> QED
    BY <1>3, <1>5, <2>1, <2>2, <2>3, <2>4 DEF OneIdsInv
<1>10. ModelInv' /\ BundleInv'
  <2>1. Bodies("model")' = {} /\ Bodies("bundle_codes")' = {}
    BY <1>3, <1>5 DEF CodeInv, ModelInv, BundleInv, Calm
  <2> QED
    BY <1>5, <2>1 DEF ModelInv, BundleInv
<1>11. ExportInv' /\ LossInv'
  BY <1>1, <1>2, ScriptCode DEF w
<1> QED
  BY <1>5, <1>6, <1>8, <1>9, <1>10, <1>11 DEF CodeInv

\* A training learns the codes of the places on file, where there is no model.
LEMMA TrainCode == ASSUME CodeInv, SealInv', Train PROVE CodeInv'
<1>1. /\ job = Idle /\ ~Exists("model") /\ Whole("places") /\ files' = files /\ deaths' = deaths
      /\ \E measured : job' = [writes |-> <<>>,
           train |-> <<[best |-> Inf, bad |-> 0, epoch |-> 0, codes |-> TrainedCodes, measured |-> measured]>>]
  BY DEF Train, Inputs, Idle
<1>2. /\ job.writes = <<>> /\ job.train = <<>> /\ job'.writes = <<>> /\ JobInv'
      /\ job'.train # <<>> /\ job'.train[1].best = Inf /\ job'.train[1].codes = TrainedCodes
  BY <1>1 DEF Idle, JobInv
<1>3. \A f : Calm(f) /\ ~Pending(f) /\ ~Pending(f)'
  BY <1>1, <1>2, CalmOthers
<1>4. CodedInv' /\ OnceInv'
  BY <1>2, <1>3, CodedKept, OnceKept DEF CodeInv
<1>5. OneIdsInv'
  BY <1>1, <1>3, OneIdsKept DEF CodeInv, Exists
<1>6. ~Whole("model") /\ ~Exists("onnx") /\ Bodies("model") = {}
  BY <1>1, <1>3, WholeExists, NoBodies DEF CodeInv, ExportInv
<1>7. ModelInv'
  BY <1>1, <1>2, <1>3, <1>6, PlacesStay DEF ModelInv, Calm, CodeInv
<1>8. Bodies("bundle_onnx") = {} /\ Bodies("bundle_codes") = {} /\ Bodies("onnx") = {}
  BY <1>3, <1>6, NoBodies DEF CodeInv, ExportInv
<1>9. ExportInv' /\ BundleInv'
  BY <1>1, <1>3, <1>6, <1>8 DEF ExportInv, BundleInv, Calm, Exists
<1>10. Whole("model_meta")' => Body("model_meta")'.best_dev_loss = Inf
  BY <1>1, <1>6 DEF CodeInv, LossInv, Whole, Body
<1>11. LossInv'
  BY <1>2, <1>10 DEF LossInv
<1> QED
  BY <1>1, <1>2, <1>4, <1>5, <1>7, <1>9, <1>11 DEF CodeInv

\* What an epoch has in mind: the model when it is better, the account when
\* the training ends.
LEMMA EpochMoves ==
  ASSUME CodeInv, Epoch
  PROVE  /\ job.writes = <<>> /\ job.train # <<>> /\ JobInv' /\ UNCHANGED <<files, deaths>>
         /\ \E loss, best :
              LET a == Put("model", [codes |-> job.train[1].codes, loss |-> loss])
                  b == Put("model_meta", [best_dev_loss |-> best])
                  goes_on == /\ job'.train # <<>> /\ job'.train[1].best = best
                             /\ job'.train[1].codes = job.train[1].codes
              IN  \/ job'.writes = <<>> /\ best = job.train[1].best /\ goes_on
                  \/ job'.writes = <<a>> /\ best = loss /\ goes_on
                  \/ job'.writes = <<b>> /\ best = job.train[1].best /\ job'.train = <<>>
                  \/ job'.writes = <<a, b>> /\ best = loss /\ job'.train = <<>>
<1> DEFINE now == job.train[1]
<1>1. job.writes = <<>> /\ job.train # <<>> /\ UNCHANGED <<files, deaths>>
  BY DEF Epoch
<1>2. now = [best |-> now.best, bad |-> now.bad, epoch |-> now.epoch,
             codes |-> now.codes, measured |-> now.measured]
  <2>1. \A x : <<x>>[1] = x
    OBVIOUS
  <2> QED
    BY <1>1, <2>1 DEF CodeInv, JobInv
<1>3. PICK loss :
        LET better == loss < now.best
            best == IF better THEN loss ELSE now.best
            bad == IF better THEN 0 ELSE now.bad + 1
            ended == bad >= PATIENCE \/ now.epoch + 1 = EPOCHS
        IN  job' = [writes |-> (IF better THEN <<Put("model", [codes |-> now.codes, loss |-> loss])>> ELSE <<>>)
                                 \o (IF ended THEN <<Put("model_meta", [best_dev_loss |-> best])>> ELSE <<>>),
                    train |-> IF ended THEN <<>>
                              ELSE <<[now EXCEPT !.best = best, !.bad = bad, !.epoch = @ + 1]>>]
  BY DEF Epoch
<1> DEFINE better == loss < now.best
           best == IF better THEN loss ELSE now.best
           bad == IF better THEN 0 ELSE now.bad + 1
           ended == bad >= PATIENCE \/ now.epoch + 1 = EPOCHS
           a == Put("model", [codes |-> now.codes, loss |-> loss])
           b == Put("model_meta", [best_dev_loss |-> best])
           next == [now EXCEPT !.best = best, !.bad = bad, !.epoch = @ + 1]
<1>4. /\ job'.writes = (IF better THEN <<a>> ELSE <<>>) \o (IF ended THEN <<b>> ELSE <<>>)
      /\ job'.train = IF ended THEN <<>> ELSE <<next>>
  BY <1>3
<1>5. /\ next.best = best /\ next.codes = now.codes
      /\ next = [best |-> next.best, bad |-> next.bad, epoch |-> next.epoch,
                  codes |-> next.codes, measured |-> next.measured]
  <2> HIDE DEF best, bad
  <2>1. PICK x, y, z, c, m : now = [best |-> x, bad |-> y, epoch |-> z, codes |-> c, measured |-> m]
    BY <1>2
  <2> HIDE DEF now
  <2>2. next.best = best /\ next.codes = now.codes
    BY <2>1
  <2>3. next = [i \in {"best", "bad", "epoch", "codes", "measured"} |-> next[i]]
    BY <2>1
  <2> HIDE DEF next
  <2> QED
    BY <2>2, <2>3
<1>6. best = IF better THEN loss ELSE now.best
  OBVIOUS
<1>7. <<next>> # <<>> /\ <<next>>[1] = next
  OBVIOUS
<1> HIDE DEF next, best, better, ended, a, b
<1>8. \/ job'.writes = <<>> /\ best = now.best /\ job'.train = <<next>>
      \/ job'.writes = <<a>> /\ best = loss /\ job'.train = <<next>>
      \/ job'.writes = <<b>> /\ best = now.best /\ job'.train = <<>>
      \/ job'.writes = <<a, b>> /\ best = loss /\ job'.train = <<>>
  <2>1. /\ <<>> \o <<>> = <<>> /\ <<a>> \o <<>> = <<a>>
        /\ <<>> \o <<b>> = <<b>> /\ <<a>> \o <<b>> = <<a, b>>
    BY Glue
  <2> QED
    BY <1>4, <1>6, <2>1
<1>9. \/ job'.writes = <<>> /\ best = now.best /\ job'.train # <<>> /\ job'.train[1].best = best /\ job'.train[1].codes = now.codes
      \/ job'.writes = <<a>> /\ best = loss /\ job'.train # <<>> /\ job'.train[1].best = best /\ job'.train[1].codes = now.codes
      \/ job'.writes = <<b>> /\ best = now.best /\ job'.train = <<>>
      \/ job'.writes = <<a, b>> /\ best = loss /\ job'.train = <<>>
  BY <1>5, <1>7, <1>8
<1>10. JobInv'
  <2>1. job' = [writes |-> job'.writes, train |-> job'.train]
    BY <1>3
  <2>2. job'.train = <<>> \/ job'.train = <<next>>
    BY <1>4
  <2> QED
    BY <1>5, <1>7, <2>1, <2>2 DEF JobInv
<1> QED
  BY <1>1, <1>9, <1>10 DEF a, b

\* An epoch leaves the exported model alone, for there is none.
LEMMA EpochCode == ASSUME CodeInv, SealInv', Epoch PROVE CodeInv'
<1>1. /\ job.writes = <<>> /\ job.train # <<>> /\ JobInv' /\ UNCHANGED <<files, deaths>>
  BY EpochMoves
<1>2. PICK loss, best :
        LET a == Put("model", [codes |-> job.train[1].codes, loss |-> loss])
            b == Put("model_meta", [best_dev_loss |-> best])
            goes_on == /\ job'.train # <<>> /\ job'.train[1].best = best
                       /\ job'.train[1].codes = job.train[1].codes
        IN  \/ job'.writes = <<>> /\ best = job.train[1].best /\ goes_on
            \/ job'.writes = <<a>> /\ best = loss /\ goes_on
            \/ job'.writes = <<b>> /\ best = job.train[1].best /\ job'.train = <<>>
            \/ job'.writes = <<a, b>> /\ best = loss /\ job'.train = <<>>
  BY EpochMoves
<1> DEFINE now == job.train[1]
           a == Put("model", [codes |-> now.codes, loss |-> loss])
           b == Put("model_meta", [best_dev_loss |-> best])
           v == job'.writes
<1>3. /\ a[1] = "model" /\ Len(a[2]) = 1 /\ a[2][1].codes = now.codes /\ a[2][1].loss = loss
      /\ b[1] = "model_meta" /\ Len(b[2]) = 1 /\ b[2][1].best_dev_loss = best
  <2> DEFINE model == [codes |-> now.codes, loss |-> loss]
             account == [best_dev_loss |-> best]
  <2>1. model.codes = now.codes /\ model.loss = loss /\ account.best_dev_loss = best
    OBVIOUS
  <2>2. a = Put("model", model) /\ b = Put("model_meta", account)
    OBVIOUS
  <2> HIDE DEF model, account, a, b, now
  <2>3. /\ a[1] = "model" /\ Len(a[2]) = 1 /\ a[2][1] = model
        /\ b[1] = "model_meta" /\ Len(b[2]) = 1 /\ b[2][1] = account
    BY <2>2 DEF Put
  <2> QED
    BY <2>1, <2>3
<1>4. /\ v \in {<<>>, <<a>>, <<b>>, <<a, b>>}
      /\ \/ best = loss /\ 1 \in DOMAIN v /\ v[1] = a
         \/ best = now.best /\ \A i \in DOMAIN v : v[i] # a
      /\ job'.train # <<>> => /\ job'.train[1].best = best /\ job'.train[1].codes = now.codes
                              /\ \A i \in DOMAIN v : v[i] # b
      /\ \A i \in DOMAIN v : /\ v[i] \in {a, b}
                             /\ v[i] = b => job'.train = <<>> /\ \A j \in DOMAIN v : v[j] = a => j < i
  <2>0. job'.train # <<>> => job'.train[1].best = best /\ job'.train[1].codes = now.codes
    BY <1>2
  <2>1. CASE v = <<>> /\ best = now.best
    BY <1>2, <1>3, <2>0, <2>1
  <2>2. CASE v = <<a>> /\ best = loss
    <3>1. DOMAIN <<a>> = {1} /\ a # b
      BY <1>3
    <3> HIDE DEF a, b, now
    <3> QED
      BY <2>0, <2>2, <3>1
  <2>3. CASE v = <<b>> /\ best = now.best /\ job'.train = <<>>
    <3>1. DOMAIN <<b>> = {1} /\ a # b
      BY <1>3
    <3> HIDE DEF a, b, now
    <3> QED
      BY <2>0, <2>3, <3>1
  <2>4. CASE v = <<a, b>> /\ best = loss /\ job'.train = <<>>
    <3>1. DOMAIN <<a, b>> = {1, 2} /\ a # b
      BY <1>3
    <3> HIDE DEF a, b, now
    <3> QED
      BY <2>0, <2>4, <3>1
  <2> QED
    BY <1>2, <2>1, <2>2, <2>3, <2>4
<1> HIDE DEF a, b, now, v
<1>5. /\ \A i \in DOMAIN v : v[i][1] \in {"model", "model_meta"} /\ Len(v[i][2]) > 0
      /\ \A i \in DOMAIN v : v[i][1] = "model" <=> v[i] = a
      /\ \A i \in DOMAIN v : v[i][1] = "model_meta" <=> v[i] = b
  BY <1>3, <1>4
<1>6. \A f : f \notin {"model", "model_meta"} => Calm(f) /\ ~Pending(f)'
  BY <1>1, <1>5, CalmOthers DEF v
<1>7. \A f : ~Pending(f)
  BY <1>1 DEF Pending
<1>8. OnceInv'
  BY <1>5, <1>6, OnceKept DEF CodeInv, v
<1>9. CodedInv'
  BY <1>6, CodedKept DEF CodeInv
<1>10. OneIdsInv'
  BY <1>1, <1>6, <1>7, OneIdsKept DEF CodeInv, Exists
<1>11. ~Exists("onnx") /\ Bodies("onnx") = {} /\ Bodies("bundle_onnx") = {} /\ Bodies("bundle_codes") = {}
  BY <1>1, <1>7, NoBodies DEF CodeInv, ExportInv
<1>12. ExportInv' /\ BundleInv'
  BY <1>1, <1>6, <1>11 DEF ExportInv, BundleInv, Calm, Exists
<1>13. ModelInv'
  <2>1. Whole("places") /\ now.codes = TrainedCodes
    BY <1>1 DEF CodeInv, ModelInv, now
  <2>2. Whole("places")' /\ TrainedCodes' = TrainedCodes
    BY <1>6, <2>1, PlacesStay DEF CodeInv
  <2>3. ASSUME NEW m \in Bodies("model")' PROVE m.codes = TrainedCodes
    <3>1. \/ Whole("model") /\ m = Body("model")
          \/ \E i \in DOMAIN v : v[i][1] = "model" /\ m = v[i][2][1]
      BY <1>1, NewBodies DEF v
    <3>2. \A i \in DOMAIN v : v[i][1] = "model" => v[i][2][1].codes = TrainedCodes
      BY <1>3, <1>5, <2>1
    <3> QED
      BY <3>1, <3>2, WholeBodies DEF CodeInv, ModelInv
  <2> QED
    BY <1>4, <2>1, <2>2, <2>3 DEF ModelInv
<1>14. LossInv'
  <2>1. Whole("model_meta") => Body("model_meta").best_dev_loss = Inf
    BY <1>1 DEF CodeInv, LossInv
  <2>2. Whole("model_meta")' => Body("model_meta")'.best_dev_loss = Inf
    BY <1>1, <2>1 DEF Whole, Body
  <2>3. now.best = Inf \/ (Whole("model") /\ Body("model").loss = now.best)
    BY <1>1 DEF CodeInv, LossInv, Coming, now
  <2>4. best = Inf \/ Coming(best)'
    <3>1. CASE best = loss /\ 1 \in DOMAIN v /\ v[1] = a
      <4>1. v[1][1] = "model" /\ Len(v[1][2]) = 1 /\ v[1][2][1].loss = best
        BY <1>3, <3>1
      <4> QED
        BY <3>1, <4>1 DEF Coming, v
    <3>2. CASE best = now.best /\ \A i \in DOMAIN v : v[i] # a
      <4>1. ~Pending("model")'
        BY <1>5, <3>2 DEF Pending, v
      <4> QED
        BY <1>1, <2>3, <3>2, <4>1 DEF Coming, Whole, Body
    <3> QED
      BY <1>4, <3>1, <3>2
  <2>5. ASSUME NEW i \in DOMAIN v, v[i][1] = "model_meta"
        PROVE  /\ job'.train = <<>> /\ Len(v[i][2]) = 1
               /\ (LET l == job.writes[i][2][1].best_dev_loss IN l = Inf \/ Coming(l))'
               /\ \A j \in DOMAIN v : v[j][1] = "model" => j < i
    <3>1. v[i] = b /\ job'.train = <<>> /\ \A j \in DOMAIN v : v[j] = a => j < i
      BY <1>4, <1>5, <2>5
    <3>2. v[i][2][1].best_dev_loss = best /\ Len(v[i][2]) = 1
      BY <1>3, <3>1
    <3>3. (LET l == job.writes[i][2][1].best_dev_loss IN l = Inf \/ Coming(l))'
      BY <2>4, <3>2 DEF Coming, v
    <3> QED
      BY <1>5, <3>1, <3>2, <3>3
  <2>6. job'.train # <<>> => (job.train[1].best = Inf \/ Coming(job.train[1].best))'
    BY <1>4, <2>4 DEF Coming
  <2> QED
    BY <2>2, <2>5, <2>6 DEF LossInv, v
<1> QED
  BY <1>1, <1>8, <1>9, <1>10, <1>12, <1>13, <1>14 DEF CodeInv

\* The model is exported when no training runs.
LEMMA ExportCode == ASSUME CodeInv, SealInv', ExportOnnx PROVE CodeInv'
<1> DEFINE w == <<Put("onnx", Body("model"))>>
<1>1. Script({"model"}, w) /\ Whole("model") /\ ~Exists("onnx")
  BY DEF ExportOnnx
<1>2. /\ \A f \in {"texts", "ids", "places", "dictionary", "model", "model_meta",
                   "bundle_onnx", "bundle_codes"} : Untouched(w, f)
      /\ \A i \in DOMAIN w : Len(w[i][2]) > 0 /\ w[i][2][1] = Body("model")
  <2>1. DOMAIN w = {1}
    OBVIOUS
  <2> QED
    BY <2>1, Names
<1> HIDE DEF w
<1>3. OnceInv'
  BY <1>1, <1>2, ScriptOnce
<1>4. /\ job'.writes = w /\ files' = files /\ job'.train = <<>> /\ job.train = <<>> /\ ~Pending("onnx")
      /\ ~Pending("model")' /\ Calm("bundle_onnx") /\ Calm("bundle_codes")
  BY <1>1, <1>2, ScriptCode
<1>5. ExportInv'
  <2>1. Whole("model")' /\ Body("model")' = Body("model")
    BY <1>1, <1>4 DEF Whole, Body
  <2>2. \A m \in Bodies("onnx")' : m = Body("model")
    BY <1>1, <1>2, <1>4, NewBodies, WholeExists
  <2>3. Bodies("bundle_onnx") = {} /\ Bodies("bundle_codes") = {}
    BY <1>1 DEF CodeInv, ExportInv
  <2> QED
    BY <1>4, <2>1, <2>2, <2>3 DEF ExportInv, Calm
<1> QED
  BY <1>1, <1>2, <1>3, <1>5, ScriptCode DEF CodeInv

\* A bundle copies the exported model, and names codes and loss of that one.
LEMMA PackageCode == ASSUME CodeInv, SealInv', Package PROVE CodeInv'
<1>1. CASE ~Exists("onnx")
  <2> DEFINE w == <<Put("bundle", "folder")>>
  <2>1. Script({"places", "model_meta"}, w)
    BY <1>1 DEF Package
  <2>2. /\ \A f \in {"texts", "ids", "places", "dictionary", "onnx", "model", "model_meta",
                     "bundle_onnx", "bundle_codes"} : Untouched(w, f)
        /\ \A i \in DOMAIN w : Len(w[i][2]) > 0
    BY Names, Sizes
  <2> HIDE DEF w
  <2>3. OnceInv'
    BY <2>1, <2>2, ScriptOnce
  <2> QED
    BY <2>1, <2>2, <2>3, ScriptCode DEF CodeInv
<1>2. CASE Exists("onnx")
  <2> DEFINE codes == [g \in {h \in DOMAIN TrainedCodes : Body("places")[h].passes} |-> TrainedCodes[g]]
             version == [best_dev_loss |-> Body("model_meta").best_dev_loss]
             c == Put("bundle_codes", [version |-> version, codes |-> codes])
             w == <<Put("bundle", "folder"), <<"bundle_onnx", files["onnx"]>>, c>>
  <2>1. Script({"places", "model_meta"}, w) /\ Whole("places") /\ Whole("model_meta")
    BY <1>2 DEF Package
  <2>2. c[1] = "bundle_codes" /\ Len(c[2]) = 1 /\ c[2][1] = [version |-> version, codes |-> codes]
    <3> DEFINE body == [version |-> version, codes |-> codes]
    <3>1. c = Put("bundle_codes", body)
      OBVIOUS
    <3> HIDE DEF body, c
    <3>2. c[1] = "bundle_codes" /\ Len(c[2]) = 1 /\ c[2][1] = body
      BY <3>1 DEF Put
    <3> QED
      BY <3>2 DEF body
  <2>3. DOMAIN w = {1, 2, 3}
    OBVIOUS
  <2> HIDE DEF codes, version, c
  <2>4. /\ \A f \in {"texts", "ids", "places", "dictionary", "onnx", "model", "model_meta"} : Untouched(w, f)
        /\ \A i \in DOMAIN w : Len(w[i][2]) > 0
        /\ \A i \in DOMAIN w : w[i][1] = "bundle_onnx" => w[i][2] = files["onnx"]
        /\ \A i \in DOMAIN w : w[i][1] = "bundle_codes" => w[i][2] = c[2]
    <3> DEFINE folder_ == Put("bundle", "folder")
               copy == <<"bundle_onnx", files["onnx"]>>
    <3>1. folder_[1] = "bundle" /\ Len(folder_[2]) = 1
      BY DEF Put
    <3>2. copy[1] = "bundle_onnx" /\ copy[2] = files["onnx"] /\ Len(copy[2]) > 0
      BY <1>2 DEF Exists
    <3>3. w[1] = folder_ /\ w[2] = copy /\ w[3] = c
      OBVIOUS
    <3> HIDE DEF folder_, copy, w
    <3> QED
      BY <2>2, <2>3, <3>1, <3>2, <3>3 DEF Untouched
  <2> HIDE DEF w
  <2>5. OnceInv'
    BY <2>1, <2>4, ScriptOnce
  <2>6. /\ job'.writes = w /\ files' = files /\ job'.train = <<>> /\ job.train = <<>>
        /\ Calm("onnx") /\ Calm("model") /\ Calm("places")
    BY <2>1, <2>4, ScriptCode
  <2>7. /\ Whole("model") /\ Whole("model")' /\ Body("model")' = Body("model") /\ ~Pending("model")'
        /\ Exists("onnx")' /\ Whole("places")' /\ TrainedCodes' = TrainedCodes
    BY <1>2, <2>1, <2>6, ModelStays, PlacesStay DEF CodeInv, Exists
  <2>8. ASSUME NEW m \in Bodies("bundle_onnx")' PROVE m = Body("model")
    <3>1. CASE Whole("bundle_onnx") /\ m = Body("bundle_onnx")
      BY <3>1, WholeBodies DEF CodeInv, ExportInv
    <3>2. CASE Whole("onnx") /\ m = Body("onnx")
      BY <3>2, WholeBodies DEF CodeInv, ExportInv
    <3> QED
      BY <2>4, <2>6, <2>8, <3>1, <3>2, NewBodies DEF Whole, Body
  <2>9. \A m \in Bodies("onnx")' : m = Body("model")
    BY <2>6 DEF CodeInv, ExportInv, Calm
  <2>10. ExportInv'
    BY <2>6, <2>7, <2>8, <2>9 DEF ExportInv
  <2>11. Body("model_meta").best_dev_loss \in {Body("model").loss, Inf}
    BY <2>1 DEF CodeInv, LossInv
  <2>12. ASSUME NEW m \in Bodies("bundle_codes")'
         PROVE  /\ DOMAIN m.codes \subseteq DOMAIN TrainedCodes
                /\ \A g \in DOMAIN m.codes : m.codes[g] = TrainedCodes[g]
                /\ m.version.best_dev_loss \in {Body("model").loss, Inf}
    <3>1. CASE Whole("bundle_codes") /\ m = Body("bundle_codes")
      BY <3>1, WholeBodies DEF CodeInv, BundleInv
    <3>2. CASE m = [version |-> version, codes |-> codes]
      BY <2>11, <3>2 DEF codes, version
    <3> QED
      BY <2>2, <2>4, <2>6, <2>12, <3>1, <3>2, NewBodies
  <2>13. BundleInv'
    BY <2>7, <2>12 DEF BundleInv
  <2> QED
    BY <2>1, <2>4, <2>5, <2>10, <2>13, ScriptCode DEF CodeInv
<1> QED
  BY <1>1, <1>2

\* What keeps the files keeps the invariant.
LEMMA CodeUnchanged == ASSUME CodeInv, SealInv', UNCHANGED <<files, job, deaths>> PROVE CodeInv'
<1>1. /\ \A f : Exists(f)' = Exists(f) /\ Whole(f)' = Whole(f) /\ Body(f)' = Body(f)
      /\ \A f : Bodies(f)' = Bodies(f) /\ Pending(f)' = Pending(f)
      /\ TrainedCodes' = TrainedCodes
  BY DEF Bodies, Contents, Pending, Exists, Whole, Body, TrainedCodes
<1>2. \A loss : Coming(loss)' = Coming(loss)
  BY DEF Coming, Pending, Whole, Body
<1>3. JobInv' /\ OnceInv' /\ CodedInv' /\ OneIdsInv'
  BY <1>1 DEF CodeInv, JobInv, OnceInv, CodedInv, OneIdsInv
<1>4. ModelInv' /\ ExportInv' /\ BundleInv'
  BY <1>1 DEF CodeInv, ModelInv, ExportInv, BundleInv
<1>5. LossInv'
  BY <1>1, <1>2 DEF CodeInv, LossInv
<1> QED
  BY <1>3, <1>4, <1>5 DEF CodeInv

\* So it holds of an empty folder,
LEMMA EmptyCode ==
  ASSUME files = [f \in Files |-> <<>>], job = Idle, learned = {}, judged = {}, deaths = 0
  PROVE  CodeInv
<1>1. job.writes = <<>> /\ job.train = <<>> /\ job = [writes |-> <<>>, train |-> <<>>]
  BY DEF Idle
<1>2. \A f : ~Pending(f)
  BY <1>1 DEF Pending
<1>3. \A f \in Files : ~Exists(f) /\ ~Whole(f)
  BY DEF Exists, Whole
<1>4. \A f \in Files : Bodies(f) = {}
  BY <1>2, <1>3, NoBodies
<1>5. {"texts", "ids", "rq_meta", "dictionary", "places", "model", "model_meta", "onnx", "bundle_onnx", "bundle_codes"}
        \subseteq Files
  BY DEF Files
<1>6. SealInv
  BY EmptyFolder
<1>7. JobInv /\ OnceInv
  BY <1>1, <1>2 DEF JobInv, OnceInv
<1>8. CodedInv /\ OneIdsInv
  BY <1>2, <1>3, <1>4, <1>5 DEF CodedInv, OneIdsInv
<1>9. ModelInv /\ ExportInv /\ BundleInv
  BY <1>1, <1>2, <1>3, <1>4, <1>5 DEF ModelInv, ExportInv, BundleInv
<1>10. LossInv
  BY <1>1, <1>2, <1>3, <1>5 DEF LossInv
<1> QED
  BY <1>6, <1>7, <1>8, <1>9, <1>10 DEF CodeInv

\* and every step keeps it.
LEMMA CodeKept == ASSUME CodeInv, [ReleaseNext]_releaseVars PROVE CodeInv'
<1>1. SealInv
  BY DEF CodeInv
<1>2. CASE SemanticNext
  <2>1. SealInv'
    BY <1>1, <1>2, SemanticKeeps
  <2> QED
    BY <1>2, <2>1, QuietScripts, EmbedCode, RqvaeCode, DictionaryCode, TrainDataCode, TrainCode, EpochCode,
       ExportCode, PackageCode, MovesKeepCode
    DEF SemanticNext
<1>3. CASE UNCHANGED semanticVars
  <2>1. SealInv'
    BY <1>1, <1>3, SealUnchanged DEF semanticVars, folder
  <2> QED
    BY <1>3, <2>1, CodeUnchanged DEF semanticVars, folder
<1> QED
  BY <1>2, <1>3 DEF ReleaseNext, releaseVars, StartWorker

\* The places of one coding before a place.
LEMMA GroupBefore ==
  ASSUME NEW db \in DBs, NEW coding \in Codings, NEW g \in DOMAIN db
  PROVE  LET A == {l \in DOMAIN db : l < g /\ coding[l] = coding[g]}
         IN  /\ IdsOf(db, coding)[g] = Append(coding[g], Cardinality(A))
             /\ IsFiniteSet(A) /\ Cardinality(A) \in Nat /\ g \notin A
             /\ Cardinality(A \cup {g}) = Cardinality(A) + 1
             /\ coding[g] \in Seq(0..(CODEBOOK - 1)) /\ Len(coding[g]) = Levels
<1> DEFINE A == {l \in DOMAIN db : l < g /\ coding[l] = coding[g]}
           codes == [h \in DOMAIN db |-> coding[h]]
<1>1. IsFiniteSet(DOMAIN db) /\ DOMAIN db \subseteq Nat /\ coding[g] \in [1..Levels -> 0..(CODEBOOK - 1)]
  BY CodingAssumption
<1>2. g \notin A /\ A \in SUBSET DOMAIN db
  BY <1>1
<1>3. IsFiniteSet(A)
  BY <1>1, <1>2, FS_Subset
<1>4. Cardinality(A) \in Nat
  BY <1>3, FS_CardinalityType
<1>5. Cardinality(A \cup {g}) = Cardinality(A) + 1
  BY <1>2, <1>3, FS_AddElement
<1>6. coding[g] \in Seq(0..(CODEBOOK - 1)) /\ Len(coding[g]) = Levels
  <2>1. Levels \in Nat
    BY CodesAssumption
  <2>2. coding[g] \in Seq(0..(CODEBOOK - 1))
    BY <1>1, <2>1, SeqDef
  <2>3. DOMAIN coding[g] = 1..Levels
    BY <1>1
  <2> QED
    BY <2>1, <2>2, <2>3, LenProperties
<1>7. IdsOf(db, coding)[g] = Append(coding[g], Cardinality(A))
  <2>1. A = {l \in DOMAIN codes : l < g /\ codes[l] = codes[g]} /\ codes[g] = coding[g]
    OBVIOUS
  <2> HIDE DEF A
  <2>2. assign_collision_ids(codes)[g]
          = Append(codes[g], Cardinality({l \in DOMAIN codes : l < g /\ codes[l] = codes[g]}))
    BY DEF assign_collision_ids
  <2> QED
    BY <2>1, <2>2 DEF IdsOf
<1> QED
  BY <1>2, <1>3, <1>4, <1>5, <1>6, <1>7

\* The collision numbers keep any two places apart.
LEMMA IdsDiffer == ASSUME NEW ids \in AllIds PROVE ~DictionaryRaises(ids)
<1>1. PICK db \in DBs, coding \in Codings : ids = IdsOf(db, coding)
  BY DEF AllIds
<1>2. DOMAIN ids = DOMAIN db /\ DOMAIN db \subseteq Nat
  BY <1>1, CodingAssumption DEF IdsOf, assign_collision_ids
<1>3. ASSUME NEW g \in DOMAIN db, NEW h \in DOMAIN db, g < h PROVE ids[g] # ids[h]
  <2> DEFINE A == {l \in DOMAIN db : l < g /\ coding[l] = coding[g]}
             B == {l \in DOMAIN db : l < h /\ coding[l] = coding[h]}
  <2>1. ids[g] = Append(coding[g], Cardinality(A)) /\ ids[h] = Append(coding[h], Cardinality(B))
    BY <1>1, GroupBefore
  <2>2. SUFFICES ASSUME ids[g] = ids[h] PROVE FALSE
    OBVIOUS
  <2>3. /\ Cardinality(A) \in Nat /\ Cardinality(B) \in Nat /\ IsFiniteSet(B)
        /\ Cardinality(A \cup {g}) = Cardinality(A) + 1
        /\ coding[g] \in Seq(0..(CODEBOOK - 1)) /\ coding[h] \in Seq(0..(CODEBOOK - 1))
    BY GroupBefore
  <2>4. coding[g] = coding[h] /\ Cardinality(A) = Cardinality(B)
    <3>1. CODEBOOK \in Nat
      BY CodesAssumption
    <3>2. coding[g] \in Seq(Int) /\ coding[h] \in Seq(Int) /\ Cardinality(A) \in Int /\ Cardinality(B) \in Int
      BY <2>3, <3>1
    <3> HIDE DEF A, B
    <3> DEFINE m == Cardinality(A)
               n == Cardinality(B)
               s == coding[g]
               t == coding[h]
    <3>3. s \in Seq(Int) /\ t \in Seq(Int) /\ m \in Int /\ n \in Int /\ Append(s, m) = Append(t, n)
      BY <2>1, <2>2, <3>2
    <3> HIDE DEF m, n, s, t
    <3>4. s = t /\ m = n
      BY <3>3, AppendInjective
    <3> QED
      BY <3>4 DEF m, n, s, t
  <2>5. A \cup {g} \in SUBSET B
    BY <1>2, <1>3, <2>4
  <2>6. Cardinality(A \cup {g}) <= Cardinality(B)
    BY <2>3, <2>5, FS_Subset
  <2> QED
    BY <2>3, <2>4, <2>6
<1>4. ASSUME NEW g \in DOMAIN ids, NEW h \in DOMAIN ids, g # h PROVE ids[g] # ids[h]
  <2>1. g < h \/ h < g
    BY <1>2, <1>4
  <2> QED
    BY <1>2, <1>3, <1>4, <2>1
<1> QED
  BY <1>4 DEF DictionaryRaises

\* The codes of a table that was coded.
LEMMA TableCodes ==
  ASSUME NEW db, NEW ids, Body("places") = export_places(db, ids)
  PROVE  /\ DOMAIN TrainedCodes = DOMAIN db \cap DOMAIN ids
         /\ \A g \in DOMAIN TrainedCodes : TrainedCodes[g] = ids[g]
<1> DEFINE table == Body("places")
<1>1. /\ DOMAIN table = DOMAIN db
      /\ \A g \in DOMAIN db : table[g].code = IF g \in DOMAIN ids THEN <<ids[g]>> ELSE <<>>
  BY DEF export_places
<1>2. \A g \in DOMAIN db : /\ g \in DOMAIN ids => table[g].code # <<>> /\ table[g].code[1] = ids[g]
                           /\ g \notin DOMAIN ids => table[g].code = <<>>
  <2>1. \A x : <<x>> # <<>> /\ <<x>>[1] = x
    OBVIOUS
  <2> HIDE DEF table
  <2> QED
    BY <1>1, <2>1
<1>3. TrainedCodes = [g \in {h \in DOMAIN table : table[h].code # <<>>} |-> table[g].code[1]]
  BY DEF TrainedCodes
<1> HIDE DEF table
<1>4. {h \in DOMAIN table : table[h].code # <<>>} = DOMAIN db \cap DOMAIN ids
  BY <1>1, <1>2
<1> QED
  BY <1>2, <1>3, <1>4

\* The invariant implies the property.
LEMMA CodeImplies == ASSUME CodeInv PROVE OneCoding
<1>1. ASSUME Whole("ids") PROVE ~DictionaryRaises(Body("ids"))
  BY <1>1, WholeBodies, IdsDiffer DEF CodeInv, CodedInv
<1>2. ASSUME Whole("dictionary"), Whole("places"), deaths = 0, NEW g \in DOMAIN TrainedCodes
      PROVE  TrainedCodes[g] \in DOMAIN Body("dictionary") /\ Body("dictionary")[TrainedCodes[g]] = g
  <2> DEFINE ids == Body("ids")
  <2>1. Whole("ids") /\ Body("dictionary") = build_dictionary(ids)
    BY <1>2, WholeBodies DEF CodeInv, OneIdsInv
  <2>2. PICK db \in DBs : Body("places") = export_places(db, ids)
    BY <1>2, WholeBodies DEF CodeInv, OneIdsInv
  <2>3. g \in DOMAIN ids /\ TrainedCodes[g] = ids[g]
    <3> HIDE DEF ids
    <3>1. /\ DOMAIN TrainedCodes = DOMAIN db \cap DOMAIN ids
          /\ \A h \in DOMAIN TrainedCodes : TrainedCodes[h] = ids[h]
      BY <2>2, TableCodes
    <3> QED
      BY <1>2, <3>1
  <2>4. ~DictionaryRaises(ids)
    BY <1>1, <2>1
  <2> HIDE DEF ids
  <2>5. (CHOOSE h \in DOMAIN ids : ids[h] = ids[g]) = g
    BY <2>3, <2>4 DEF DictionaryRaises
  <2>6. build_dictionary(ids)[ids[g]] = CHOOSE h \in DOMAIN ids : ids[h] = ids[g]
    BY <2>3 DEF build_dictionary
  <2>7. ids[g] \in DOMAIN build_dictionary(ids)
    BY <2>3 DEF build_dictionary
  <2> QED
    BY <2>1, <2>3, <2>5, <2>6, <2>7
<1>3. DictionaryFits
  BY <1>1, <1>2 DEF DictionaryFits
<1>4. ASSUME Whole("bundle_onnx"), Whole("bundle_codes") PROVE BundleAsTrained
  <2>1. Body("bundle_onnx") \in Bodies("bundle_onnx") /\ Body("bundle_codes") \in Bodies("bundle_codes")
    BY <1>4, WholeBodies
  <2>2. Whole("model") /\ Body("bundle_onnx") = Body("model")
    BY <2>1 DEF CodeInv, ExportInv
  <2>3. Body("model").codes = TrainedCodes
    BY <2>2, WholeBodies DEF CodeInv, ModelInv
  <2> QED
    BY <2>1, <2>2, <2>3 DEF CodeInv, BundleInv, BundleAsTrained
<1> QED
  BY <1>3, <1>4 DEF OneCoding, BundleAsTrained

\* Whatever the table, the log, the coding and the losses, and whichever
\* scripts die: no code stands for two places, every code of a bundle is the
\* one its model learnt the place by and the loss it names the model's own,
\* and while no script dies dictionary and model name each place alike
\* (rqvae.py:160, code_dict.py:26, package_bundle.py:31, train.py:122).
THEOREM OneCodingThroughout == ReleaseSpec => []OneCoding
<1>1. ReleaseInit => CodeInv
  BY EmptyCode DEF ReleaseInit, SemanticInit
<1>2. CodeInv /\ [ReleaseNext]_releaseVars => CodeInv'
  BY CodeKept
<1>3. CodeInv => OneCoding
  BY CodeImplies
<1> QED
  BY <1>1, <1>2, <1>3, PTL DEF ReleaseSpec

\* No place leaves the table or comes to it while a version is made.
TableKeepsPlaces == \A d, e \in DBs : DOMAIN d = DOMAIN e

\* Append, and take the last away again.
LEMMA FrontOfAppend == ASSUME NEW S, NEW s \in Seq(S), NEW x \in S PROVE Front(Append(s, x)) = s
<1>1. /\ Append(s, x) \in Seq(S) /\ Len(Append(s, x)) = Len(s) + 1
      /\ \A i \in 1..Len(s) : Append(s, x)[i] = s[i]
  BY AppendProperties
<1> DEFINE t == Append(s, x)
<1> HIDE DEF t
<1>2. Len(s) \in Nat
  OBVIOUS
<1>3. t \in Seq(S) /\ Len(t) = Len(s) + 1 /\ \A i \in 1..Len(s) : t[i] = s[i]
  BY <1>1 DEF t
<1>4. SubSeq(t, 1, Len(s)) \in Seq(S) /\ Len(SubSeq(t, 1, Len(s))) = Len(s)
      /\ \A i \in 1..Len(s) : SubSeq(t, 1, Len(s))[i] = s[i]
  BY <1>2, <1>3
<1>5. SubSeq(t, 1, Len(s)) = s
  BY <1>4
<1>6. Front(t) = SubSeq(t, 1, Len(s))
  BY <1>2, <1>3 DEF Front
<1> QED
  BY <1>5, <1>6 DEF t

\* A code is in range when fewer places of its group come before its place
\* than there are collision tokens, and only then.
LEMMA GroupFits ==
  ASSUME NEW db \in DBs, NEW coding \in Codings, NEW g \in DOMAIN db
  PROVE  InRange(IdsOf(db, coding)[g]) <=>
           Cardinality({h \in DOMAIN db : h < g /\ Front(IdsOf(db, coding)[h]) = Front(IdsOf(db, coding)[g])}) < MAX_COLLISION
<1> DEFINE ids == IdsOf(db, coding)
           A == {l \in DOMAIN db : l < g /\ coding[l] = coding[g]}
<1>1. CODEBOOK \in Nat /\ Levels \in Nat /\ MAX_COLLISION \in Nat
  BY CodesAssumption, CodingAssumption
<1>2. ASSUME NEW h \in DOMAIN db PROVE Front(ids[h]) = coding[h]
  <2> DEFINE B == {l \in DOMAIN db : l < h /\ coding[l] = coding[h]}
  <2>1. ids[h] = Append(coding[h], Cardinality(B)) /\ Cardinality(B) \in Nat /\ coding[h] \in Seq(0..(CODEBOOK - 1))
    BY GroupBefore
  <2>2. coding[h] \in Seq(Int) /\ Cardinality(B) \in Int
    BY <1>1, <2>1
  <2> HIDE DEF B
  <2> QED
    BY <2>1, <2>2, FrontOfAppend
<1>3. A = {h \in DOMAIN db : h < g /\ Front(ids[h]) = Front(ids[g])}
  BY <1>2
<1>4. /\ ids[g] = Append(coding[g], Cardinality(A)) /\ Cardinality(A) \in Nat
      /\ coding[g] \in Seq(0..(CODEBOOK - 1)) /\ Len(coding[g]) = Levels
  BY GroupBefore
<1> HIDE DEF A, ids
<1>5. /\ \A i \in 1..Levels : ids[g][i] = coding[g][i] /\ coding[g][i] \in 0..(CODEBOOK - 1)
      /\ ids[g][Levels + 1] = Cardinality(A)
  <2> DEFINE n == Cardinality(A)
  <2>1. coding[g] \in Seq(Int) /\ n \in Int
    BY <1>1, <1>4
  <2>2. \A i \in 1..Len(coding[g]) : coding[g][i] \in 0..(CODEBOOK - 1)
    BY <1>4, LenProperties
  <2> HIDE DEF n
  <2>3. /\ \A i \in 1..Len(coding[g]) : Append(coding[g], n)[i] = coding[g][i]
        /\ Append(coding[g], n)[Len(coding[g]) + 1] = n
    BY <2>1, AppendProperties
  <2> QED
    BY <1>4, <2>2, <2>3 DEF n
<1>6. Cardinality(A) \in 0..(MAX_COLLISION - 1) <=> Cardinality(A) < MAX_COLLISION
  BY <1>1, <1>4
<1>7. InRange(ids[g]) <=> Cardinality(A) < MAX_COLLISION
  BY <1>5, <1>6 DEF InRange, Depth
<1> QED
  BY <1>3, <1>7 DEF ids

\* What is served can be decoded: while the table keeps its places, of the
\* places of one code exactly the first MAX_COLLISION have a token for each of
\* their numbers, and no two places of a bundle have the same code
\* (codes.py:13, tokens.py:35).
THEOREM ServedCodesFit == ASSUME TableKeepsPlaces PROVE ReleaseSpec => []CodesServable
<1>1. ReleaseInit => CodeInv
  BY EmptyCode DEF ReleaseInit, SemanticInit
<1>2. CodeInv /\ [ReleaseNext]_releaseVars => CodeInv'
  BY CodeKept
<1>3. ASSUME CodeInv PROVE CodesServable
  <2> SUFFICES ASSUME Whole("bundle_codes"), Whole("bundle_onnx")
               PROVE  LET codes == Body("bundle_codes").codes
                          learnt == Body("bundle_onnx").codes
                      IN  /\ ~DictionaryRaises(codes)
                          /\ \A g \in DOMAIN codes :
                               InRange(codes[g]) <=>
                                 Cardinality({h \in DOMAIN learnt : h < g /\ Front(learnt[h]) = Front(codes[g])}) < MAX_COLLISION
    BY DEF CodesServable
  <2> DEFINE codes == Body("bundle_codes").codes
             learnt == Body("bundle_onnx").codes
  <2>1. Body("bundle_onnx") \in Bodies("bundle_onnx") /\ Body("bundle_codes") \in Bodies("bundle_codes")
    BY WholeBodies
  <2>2. Whole("model") /\ Body("bundle_onnx") = Body("model")
    BY <1>3, <2>1 DEF CodeInv, ExportInv
  <2>3. Whole("places") /\ learnt = TrainedCodes
    BY <1>3, <2>2, WholeBodies DEF CodeInv, ModelInv
  <2>4. DOMAIN codes \subseteq DOMAIN learnt /\ \A g \in DOMAIN codes : codes[g] = learnt[g]
    BY <1>3, <2>1, <2>3 DEF CodeInv, BundleInv
  <2>5. PICK d \in DBs, ids \in AllIds : Body("places") = export_places(d, ids)
    BY <1>3, <2>3, WholeBodies DEF CodeInv, CodedInv
  <2>6. PICK db \in DBs, coding \in Codings : ids = IdsOf(db, coding)
    BY DEF AllIds
  <2>7. DOMAIN ids = DOMAIN db /\ DOMAIN db = DOMAIN d
    BY <2>6 DEF IdsOf, assign_collision_ids, TableKeepsPlaces
  <2>8. DOMAIN learnt = DOMAIN db /\ \A g \in DOMAIN db : learnt[g] = ids[g]
    <3>1. /\ DOMAIN TrainedCodes = DOMAIN d \cap DOMAIN ids
          /\ \A g \in DOMAIN TrainedCodes : TrainedCodes[g] = ids[g]
      BY <2>5, TableCodes
    <3> HIDE DEF learnt
    <3> QED
      BY <2>3, <2>7, <3>1
  <2> HIDE DEF codes, learnt
  <2>9. ~DictionaryRaises(codes)
    <3>1. ~DictionaryRaises(ids)
      BY IdsDiffer
    <3> QED
      BY <2>4, <2>7, <2>8, <3>1 DEF DictionaryRaises
  <2>10. ASSUME NEW g \in DOMAIN codes
         PROVE  InRange(codes[g]) <=>
                  Cardinality({h \in DOMAIN learnt : h < g /\ Front(learnt[h]) = Front(codes[g])}) < MAX_COLLISION
    <3>1. g \in DOMAIN db /\ codes[g] = ids[g]
      BY <2>4, <2>8
    <3>2. {h \in DOMAIN learnt : h < g /\ Front(learnt[h]) = Front(codes[g])}
            = {h \in DOMAIN db : h < g /\ Front(ids[h]) = Front(ids[g])}
      BY <2>8, <3>1
    <3> QED
      BY <2>6, <3>1, <3>2, GroupFits
  <2> QED
    BY <2>9, <2>10 DEF codes, learnt
<1> QED
  BY <1>1, <1>2, <1>3, PTL DEF ReleaseSpec
-----------------------------------------------------------------------------
(***************************************************************************)
(* The beam search.                                                        *)
(***************************************************************************)
\* Beams of one level: no two have the same path.
Lined(S, n) ==
  /\ \A x \in S : x = [path |-> x.path, cost |-> x.cost] /\ x.path \in [1..n -> Nat] /\ x.cost \in Int
  /\ \A x, y \in S : x.path = y.path => x = y

\* Paths of one length are ordered by their first difference.
LEMMA LexOrder ==
  ASSUME NEW n \in Nat, NEW a \in [1..n -> Nat], NEW b \in [1..n -> Nat]
  PROVE  /\ ~LexLess(a, a)
         /\ a # b => LexLess(a, b) \/ LexLess(b, a)
         /\ \A c \in [1..n -> Nat] : LexLess(a, b) /\ LexLess(b, c) => LexLess(a, c)
<1>1. ~LexLess(a, a)
  BY DEF LexLess
<1>2. ASSUME a # b PROVE LexLess(a, b) \/ LexLess(b, a)
  <2> DEFINE D == {i \in 1..n : a[i] # b[i]}
  <2>1. D # {} /\ D \subseteq Nat
    BY <1>2
  <2>2. PICK i \in D : \A k \in D : i <= k
    BY <2>1, LeastOfSome
  <2>3. /\ i \in 1..n /\ a[i] \in Nat /\ b[i] \in Nat /\ a[i] # b[i]
        /\ \A j \in 1..(i - 1) : a[j] = b[j]
    BY <2>2
  <2>4. a[i] < b[i] \/ b[i] < a[i]
    BY <2>3
  <2>5. i \in DOMAIN a /\ i \in DOMAIN b /\ \A j \in 1..(i - 1) : b[j] = a[j]
    BY <2>3
  <2>6. a[i] < b[i] => LexLess(a, b)
    BY <2>3, <2>5, Zenon DEF LexLess
  <2>7. b[i] < a[i] => LexLess(b, a)
    BY <2>3, <2>5, Zenon DEF LexLess
  <2> QED
    BY <2>4, <2>6, <2>7
<1>3. ASSUME NEW c \in [1..n -> Nat], LexLess(a, b), LexLess(b, c) PROVE LexLess(a, c)
  <2>1. PICK i \in 1..n : a[i] < b[i] /\ \A j \in 1..(i - 1) : a[j] = b[j]
    BY <1>3 DEF LexLess
  <2>2. PICK k \in 1..n : b[k] < c[k] /\ \A j \in 1..(k - 1) : b[j] = c[j]
    BY <1>3 DEF LexLess
  <2>3. CASE i <= k
    <3>1. a[i] < c[i]
      <4>1. CASE i = k
        BY <4>1, <2>1, <2>2
      <4>2. CASE i < k
        <5>1. b[i] = c[i]
          BY <4>2, <2>2
        <5> QED
          BY <5>1, <2>1
      <4> QED
        BY <2>3, <4>1, <4>2
    <3>2. \A j \in 1..(i - 1) : a[j] = c[j]
      BY <2>1, <2>2, <2>3
    <3> QED
      BY <3>1, <3>2 DEF LexLess
  <2>4. CASE k < i
    <3>1. a[k] = b[k]
      BY <2>1, <2>4
    <3>2. a[k] < c[k] /\ \A j \in 1..(k - 1) : a[j] = c[j]
      BY <2>1, <2>2, <2>4, <3>1
    <3> QED
      BY <3>2 DEF LexLess
  <2> QED
    BY <2>3, <2>4
<1> QED
  BY <1>1, <1>2, <1>3

\* The beams of one level are strictly ordered.
LEMMA BeamOrder ==
  ASSUME NEW n \in Nat, NEW S, Lined(S, n), NEW x \in S, NEW y \in S
  PROVE  /\ ~Before(x, x)
         /\ x # y => Before(x, y) \/ Before(y, x)
         /\ \A z \in S : Before(x, y) /\ Before(y, z) => Before(x, z)
<1>1. /\ x.path \in [1..n -> Nat] /\ y.path \in [1..n -> Nat] /\ x.cost \in Int /\ y.cost \in Int
      /\ x.path = y.path => x = y
  BY DEF Lined
<1>2. ~Before(x, x)
  <2>1. ~LexLess(x.path, x.path)
    BY <1>1 DEF LexLess
  <2>2. ~(x.cost < x.cost)
    BY <1>1
  <2> QED
    BY <2>1, <2>2 DEF Before
<1>3. x # y => Before(x, y) \/ Before(y, x)
  <2>1. x # y => LexLess(x.path, y.path) \/ LexLess(y.path, x.path)
    BY <1>1, LexOrder
  <2> QED
    BY <1>1, <2>1 DEF Before
<1>4. ASSUME NEW z \in S, Before(x, y), Before(y, z) PROVE Before(x, z)
  <2>1. z.path \in [1..n -> Nat] /\ z.cost \in Int
    BY DEF Lined
  <2>2. LexLess(x.path, y.path) /\ LexLess(y.path, z.path) => LexLess(x.path, z.path)
    BY <1>1, <2>1, LexOrder
  <2>3. x.cost < y.cost \/ (x.cost = y.cost /\ LexLess(x.path, y.path))
    BY <1>4 DEF Before
  <2>4. y.cost < z.cost \/ (y.cost = z.cost /\ LexLess(y.path, z.path))
    BY <1>4 DEF Before
  <2>5. x.cost < z.cost \/ (x.cost = z.cost /\ LexLess(x.path, z.path))
    BY <1>1, <2>1, <2>2, <2>3, <2>4
  <2> QED
    BY <2>5 DEF Before
<1> QED
  BY <1>2, <1>3, <1>4

\* Counting what is ahead numbers the beams of a level, from zero on.
LEMMA AheadCounts ==
  ASSUME NEW n \in Nat, NEW S, Lined(S, n), IsFiniteSet(S)
  PROVE  [x \in S |-> Cardinality(Ahead(S, x))] \in Bijection(S, 0..(Cardinality(S) - 1))
<1> DEFINE N == Cardinality(S)
           r == [x \in S |-> Cardinality(Ahead(S, x))]
<1>1. N \in Nat /\ IsFiniteSet(0..(N - 1)) /\ Cardinality(0..(N - 1)) = N
  <2>1. N \in Nat
    BY FS_CardinalityType
  <2> HIDE DEF N
  <2>2. 0 \in Int /\ N - 1 \in Int
    BY <2>1
  <2>3. IsFiniteSet(0..(N - 1)) /\ Cardinality(0..(N - 1)) = IF 0 > N - 1 THEN 0 ELSE N - 1 - 0 + 1
    BY <2>2, FS_Interval
  <2> QED
    BY <2>1, <2>3
<1>2. ASSUME NEW x \in S
      PROVE  IsFiniteSet(Ahead(S, x)) /\ Cardinality(Ahead(S, x)) \in 0..(N - 1)
  <2>1. Ahead(S, x) \in SUBSET S /\ x \notin Ahead(S, x)
    BY BeamOrder DEF Ahead
  <2>2. IsFiniteSet(Ahead(S, x)) /\ Cardinality(Ahead(S, x)) <= N /\ Cardinality(Ahead(S, x)) # N
    BY <2>1, FS_Subset
  <2>3. Cardinality(Ahead(S, x)) \in Nat
    BY <2>2, FS_CardinalityType
  <2> QED
    BY <1>1, <2>2, <2>3
<1>3. ASSUME NEW x \in S, NEW y \in S, Before(x, y)
      PROVE  Cardinality(Ahead(S, x)) # Cardinality(Ahead(S, y))
  <2>1. Ahead(S, x) \in SUBSET Ahead(S, y)
    BY <1>3, BeamOrder DEF Ahead
  <2>2. x \in Ahead(S, y) /\ x \notin Ahead(S, x)
    BY <1>3, BeamOrder DEF Ahead
  <2> QED
    BY <1>2, <2>1, <2>2, FS_Subset
<1>4. \A x, y \in S : Cardinality(Ahead(S, x)) = Cardinality(Ahead(S, y)) => x = y
  BY <1>3, BeamOrder
<1>5. r \in Injection(S, 0..(N - 1))
  BY <1>2, <1>4 DEF Injection, IsInjective
<1>6. r \in Surjection(S, 0..(N - 1))
  BY <1>1, <1>5, FS_Injection
<1> QED
  BY <1>5, <1>6 DEF Bijection

\* The leading ones are as many as asked for or as there are, and behind them
\* comes only what has as many ahead.
LEMMA LeadingAre ==
  ASSUME NEW n \in Nat, NEW S, Lined(S, n), IsFiniteSet(S), NEW k \in Nat
  PROVE  /\ Leading(S, k) \subseteq S
         /\ IsFiniteSet(Leading(S, k)) /\ Cardinality(Leading(S, k)) = Least(k, Cardinality(S))
         /\ \A x \in S \ Leading(S, k) : Cardinality(Ahead(S, x)) >= k
<1> DEFINE N == Cardinality(S)
           r == [x \in S |-> Cardinality(Ahead(S, x))]
           L == Leading(S, k)
           m == Least(k, N)
           f == [x \in L |-> r[x]]
<1>1. L \subseteq S /\ \A x \in S : x \in L <=> r[x] < k
  BY DEF Leading
<1>2. N \in Nat /\ m \in Nat /\ IsFiniteSet(L)
  BY <1>1, FS_CardinalityType, FS_Subset DEF Least
<1>3. r \in [S -> 0..(N - 1)] /\ (\A x, y \in S : r[x] = r[y] => x = y) /\ \A i \in 0..(N - 1) : \E x \in S : r[x] = i
  <2>1. r \in Bijection(S, 0..(N - 1))
    BY AheadCounts
  <2> HIDE DEF N, r
  <2> QED
    BY <2>1 DEF Bijection, Injection, IsInjective, Surjection
<1> HIDE DEF N, r, L
<1>4. f \in [L -> 0..(m - 1)] /\ \A i \in 0..(m - 1) : \E x \in L : f[x] = i
  BY <1>1, <1>2, <1>3, Z3 DEF Least
<1>5. f \in Surjection(L, 0..(m - 1)) /\ f \in Injection(L, 0..(m - 1))
  BY <1>1, <1>3, <1>4 DEF Surjection, Injection, IsInjective
<1>6. Cardinality(0..(m - 1)) = Cardinality(L)
  BY <1>2, <1>5, FS_Surjection
<1>7. Cardinality(0..(m - 1)) = m
  <2>1. 0 \in Int /\ m - 1 \in Int
    BY <1>2
  <2>2. Cardinality(0..(m - 1)) = IF 0 > m - 1 THEN 0 ELSE m - 1 - 0 + 1
    BY <2>1, FS_Interval
  <2> QED
    BY <1>2, <2>2
<1>8. \A x \in S \ L : r[x] >= k
  BY <1>1, <1>2, <1>3
<1> QED
  BY <1>1, <1>2, <1>6, <1>7, <1>8 DEF L, r, N

\* A function that starts with a value and goes on by a step.
Closed(step, S, D) == \A n \in 1..D : \A x \in S : step[<<n, x>>] \in S

Follows(f, start, step, D) == f[0] = start /\ \A n \in 1..D : f[n] = step[<<n, f[n - 1]>>]

\* There is one, for a step that stays within a set.
LEMMA Recursion ==
  ASSUME NEW S, NEW D \in Nat, NEW start \in S, NEW step, Closed(step, S, D)
  PROVE  \E f \in [0..D -> S] : Follows(f, start, step, D)
<1>0. \A n \in 1..D : \A x \in S : step[<<n, x>>] \in S
  BY DEF Closed
<1> DEFINE Good(m, f) == f[0] = start /\ \A n \in 1..m : f[n] = step[<<n, f[n - 1]>>]
           Bad == {m \in 0..D : ~\E f \in [0..m -> S] : Good(m, f)}
<1>1. Bad = {}
  <2> SUFFICES ASSUME Bad # {} PROVE FALSE
    OBVIOUS
  <2>1. PICK m \in Bad : \A k \in Bad : m <= k
    <3>1. Bad \subseteq Nat
      OBVIOUS
    <3> HIDE DEF Bad
    <3> QED
      BY <3>1, LeastOfSome
  <2>2. m \in 0..D
    OBVIOUS
  <2>3. CASE m = 0
    <3> DEFINE f == [n \in 0..0 |-> start]
    <3>1. f \in [0..m -> S] /\ Good(m, f)
      BY <2>3
    <3> QED
      BY <3>1
  <2>4. CASE m # 0
    <3>1. m - 1 \in 0..D /\ m - 1 \notin Bad /\ m \in 1..D
      <4>1. m - 1 \in 0..D /\ m \in 1..D /\ ~(m <= m - 1)
        BY <2>2, <2>4
      <4> HIDE DEF Bad
      <4> QED
        BY <4>1, <2>1
    <3>2. PICK f \in [0..(m - 1) -> S] : Good(m - 1, f)
      BY <3>1
    <3>3. PICK x \in S : x = step[<<m, f[m - 1]>>]
      <4>1. f[m - 1] \in S
        BY <3>1
      <4> QED
        BY <1>0, <3>1, <4>1
    <3> DEFINE g == [n \in 0..m |-> IF n = m THEN x ELSE f[n]]
    <3>4. g \in [0..m -> S]
      BY <3>1
    <3>5. g[0] = start
      BY <3>1, <3>2
    <3>6. ASSUME NEW n \in 1..m PROVE g[n] = step[<<n, g[n - 1]>>]
      <4>1. n - 1 \in 0..(m - 1) /\ g[n - 1] = f[n - 1]
        BY <3>1
      <4>2. CASE n = m
        <5>1. g[n] = x
          BY <4>2
        <5> HIDE DEF g
        <5> QED
          BY <4>1, <4>2, <5>1, <3>3
      <4>3. CASE n # m
        <5>1. n \in 1..(m - 1) /\ g[n] = f[n]
          BY <4>3, <3>1
        <5> QED
          BY <5>1, <4>1, <3>2
      <4> QED
        BY <4>2, <4>3
    <3> HIDE DEF g
    <3>7. Good(m, g)
      BY <3>5, <3>6
    <3> QED
      BY <3>4, <3>7
  <2> QED
    BY <2>3, <2>4
<1>2. PICK f \in [0..D -> S] : Good(D, f)
  <2>1. D \in 0..D
    OBVIOUS
  <2> QED
    BY <1>1, <2>1
<1> QED
  BY <1>2 DEF Follows

\* The beginning of a code.
LEMMA Cut ==
  ASSUME NEW m \in Nat, NEW s \in [1..m -> Nat], NEW n \in 0..m
  PROVE  /\ SubSeq(s, 1, n) = [i \in 1..n |-> s[i]]
         /\ SubSeq(s, 1, n) \in [1..n -> Nat] /\ Len(SubSeq(s, 1, n)) = n
         /\ n # 0 => Front(SubSeq(s, 1, n)) = SubSeq(s, 1, n - 1)
         /\ SubSeq(s, 1, m) = s
<1>1. s \in Seq(Nat) /\ Len(s) = m
  OBVIOUS
<1>2. ASSUME NEW k \in 0..m PROVE SubSeq(s, 1, k) = [i \in 1..k |-> s[i]] /\ Len(SubSeq(s, 1, k)) = k
  <2>1. /\ SubSeq(s, 1, k) \in Seq(Nat) /\ Len(SubSeq(s, 1, k)) = IF 1 <= k THEN k - 1 + 1 ELSE 0
        /\ \A i \in 1..(k - 1 + 1) : SubSeq(s, 1, k)[i] = s[1 + i - 1]
    <3>1. \A i \in 1..k : s[i] \in Nat
      OBVIOUS
    <3> QED
      BY <3>1, SubSeqProperties
  <2> DEFINE t == SubSeq(s, 1, k)
  <2> HIDE DEF t
  <2>2. t \in Seq(Nat) /\ Len(t) = k /\ \A i \in 1..k : t[i] = s[i]
    BY <2>1 DEF t
  <2>3. t = [i \in 1..k |-> s[i]]
    BY <2>2
  <2> QED
    BY <2>2, <2>3 DEF t
<1>3. SubSeq(s, 1, n) \in [1..n -> Nat]
  <2>1. [i \in 1..n |-> s[i]] \in [1..n -> Nat]
    OBVIOUS
  <2>2. SubSeq(s, 1, n) = [i \in 1..n |-> s[i]]
    BY <1>2
  <2> QED
    BY <2>1, <2>2
<1>4. SubSeq(s, 1, m) = s
  BY <1>2
<1>5. ASSUME n # 0 PROVE Front(SubSeq(s, 1, n)) = SubSeq(s, 1, n - 1)
  <2> DEFINE t == SubSeq(s, 1, n)
  <2>1. t = [i \in 1..n |-> s[i]] /\ Len(t) = n /\ t \in [1..n -> Nat] /\ n - 1 \in 0..m
    BY <1>2, <1>3, <1>5
  <2>2. SubSeq(s, 1, n - 1) = [i \in 1..(n - 1) |-> s[i]]
    BY <1>2, <2>1
  <2> HIDE DEF t
  <2>3. Front(t) = SubSeq(t, 1, n - 1)
    BY <2>1 DEF Front
  <2>4. \A i \in 1..(n - 1) : t[i] \in Nat
    BY <2>1
  <2>5. /\ SubSeq(t, 1, n - 1) \in Seq(Nat) /\ Len(SubSeq(t, 1, n - 1)) = n - 1
        /\ \A i \in 1..(n - 1) : SubSeq(t, 1, n - 1)[i] = t[i]
    <3>1. n - 1 \in Nat
      BY <2>1
    <3>2. /\ SubSeq(t, 1, n - 1) \in Seq(Nat) /\ Len(SubSeq(t, 1, n - 1)) = IF 1 <= n - 1 THEN n - 1 - 1 + 1 ELSE 0
          /\ \A i \in 1..(n - 1 - 1 + 1) : SubSeq(t, 1, n - 1)[i] = t[1 + i - 1]
      BY <2>4, <3>1, SubSeqProperties
    <3> DEFINE u == SubSeq(t, 1, n - 1)
    <3> HIDE DEF u
    <3>3. /\ u \in Seq(Nat) /\ Len(u) = n - 1 /\ \A i \in 1..(n - 1) : u[i] = t[i]
      BY <3>1, <3>2 DEF u
    <3> QED
      BY <3>3 DEF u
  <2> DEFINE u == SubSeq(t, 1, n - 1)
  <2> HIDE DEF u
  <2>6. u \in Seq(Nat) /\ Len(u) = n - 1 /\ \A i \in 1..(n - 1) : u[i] = s[i]
    BY <2>1, <2>5 DEF u
  <2>7. u = [i \in 1..(n - 1) |-> s[i]]
    BY <2>6
  <2> QED
    BY <2>2, <2>3, <2>7 DEF t, u
<1> QED
  BY <1>2, <1>3, <1>4, <1>5

\* The cost of a code adds up token by token.
LEMMA CostSteps ==
  ASSUME Depth \in Nat, NEW cost, NEW code, \A n \in 1..Depth : cost[SubSeq(code, 1, n)] \in Int
  PROVE  /\ PathCost(cost, code, 0) = 0
         /\ \A n \in 0..Depth : PathCost(cost, code, n) \in Int
         /\ \A n \in 1..Depth : PathCost(cost, code, n) = PathCost(cost, code, n - 1) + cost[SubSeq(code, 1, n)]
<1> DEFINE Rec(f) == f = [i \in 0..Depth |-> IF i = 0 THEN 0 ELSE f[i - 1] + cost[SubSeq(code, 1, i)]]
           sum == CHOOSE f : Rec(f)
           step == [x \in (1..Depth) \X Int |-> x[2] + cost[SubSeq(code, 1, x[1])]]
<1>1. \E f : Rec(f)
  <2>1. \A n \in 1..Depth : \A x \in Int : step[<<n, x>>] = x + cost[SubSeq(code, 1, n)]
    OBVIOUS
  <2> HIDE DEF step
  <2>2. ASSUME NEW n \in 1..Depth, NEW x \in Int PROVE step[<<n, x>>] \in Int
    <3>1. step[<<n, x>>] = x + cost[SubSeq(code, 1, n)] /\ cost[SubSeq(code, 1, n)] \in Int
      BY <2>1
    <3> QED
      BY <3>1
  <2>0. 0 \in Int
    OBVIOUS
  <2>8. Closed(step, Int, Depth)
    BY <2>2 DEF Closed
  <2>9. PICK f \in [0..Depth -> Int] : Follows(f, 0, step, Depth)
    BY <2>0, <2>8, Recursion, Zenon
  <2>3. f[0] = 0 /\ \A n \in 1..Depth : f[n] = step[<<n, f[n - 1]>>]
    BY <2>9 DEF Follows
  <2>4. \A n \in 1..Depth : f[n - 1] \in Int
    OBVIOUS
  <2>5. \A n \in 1..Depth : f[n] = f[n - 1] + cost[SubSeq(code, 1, n)]
    BY <2>1, <2>3, <2>4
  <2>6. \A n \in 0..Depth : n = 0 \/ n \in 1..Depth
    OBVIOUS
  <2>7. Rec(f)
    BY <2>3, <2>5, <2>6
  <2> QED
    BY <2>7
<1>2. Rec(sum)
  BY <1>1, Zenon
<1>3. \A n : PathCost(cost, code, n) = sum[n]
  BY DEF PathCost
<1> HIDE DEF sum
<1>4. sum[0] = 0 /\ \A n \in 1..Depth : sum[n] = sum[n - 1] + cost[SubSeq(code, 1, n)]
  BY <1>2
<1> DEFINE Bad == {n \in 0..Depth : sum[n] \notin Int}
<1>5. Bad = {}
  <2> SUFFICES ASSUME Bad # {} PROVE FALSE
    OBVIOUS
  <2>1. PICK m \in Bad : \A k \in Bad : m <= k
    <3>1. Bad \subseteq Nat
      OBVIOUS
    <3> HIDE DEF Bad
    <3> QED
      BY <3>1, LeastOfSome
  <2>2. m # 0 /\ m \in 1..Depth
    BY <1>4
  <2>3. m - 1 \in 0..Depth /\ m - 1 \notin Bad
    BY <2>1, <2>2
  <2>4. sum[m] \in Int
    BY <1>4, <2>2, <2>3
  <2> QED
    BY <2>4
<1> QED
  BY <1>3, <1>4, <1>5

\* What the search keeps on each level.
KeptOf(kept, pool, cost, width) ==
  /\ kept[0] = {[path |-> <<>>, cost |-> 0]}
  /\ \A n \in 1..Depth : kept[n] = Leading(Expand(build_trie(pool), cost, kept[n - 1]), width)
  /\ beam_search(pool, cost, width) = kept[Depth]

\* A cost for each token of a pool.
Costed(pool, cost) == \A q \in build_trie(pool) : cost[q] \in Int

\* The search goes level by level.
LEMMA SearchSteps ==
  ASSUME Depth \in Nat, NEW pool, NEW cost, NEW width, Costed(pool, cost)
  PROVE  \E kept : KeptOf(kept, pool, cost, width)
<1> DEFINE trie == build_trie(pool)
           Root == {[path |-> <<>>, cost |-> 0]}
           Rec(f) == f = [n \in 0..Depth |-> IF n = 0 THEN Root ELSE Leading(Expand(trie, cost, f[n - 1]), width)]
           kept == CHOOSE f : Rec(f)
           U == [path : trie \cup {<<>>}, cost : Int]
           step == [x \in (1..Depth) \X SUBSET U |-> Leading(Expand(trie, cost, x[2]), width)]
<1>1. \E f : Rec(f)
  <2>1. \A n \in 1..Depth : \A B \in SUBSET U : step[<<n, B>>] = Leading(Expand(trie, cost, B), width)
    OBVIOUS
  <2>2. ASSUME NEW B \in SUBSET U PROVE Leading(Expand(trie, cost, B), width) \in SUBSET U
    <3>1. Expand(trie, cost, B) \in SUBSET U
      <4> SUFFICES ASSUME NEW b \in B, NEW q \in Children(trie, b.path)
                   PROVE  [path |-> q, cost |-> b.cost + cost[q]] \in U
        BY DEF Expand
      <4>1. q \in trie /\ b.cost \in Int
        BY DEF Children
      <4> QED
        BY <4>1 DEF Costed
    <3> QED
      BY <3>1 DEF Leading
  <2>3. Root \in SUBSET U
    OBVIOUS
  <2>4. \A n \in 1..Depth : \A B \in SUBSET U : step[<<n, B>>] \in SUBSET U
    BY <2>1, <2>2
  <2> HIDE DEF step, U, Root
  <2>5. Closed(step, SUBSET U, Depth)
    BY <2>4 DEF Closed
  <2>6. PICK f \in [0..Depth -> SUBSET U] : Follows(f, Root, step, Depth)
    BY <2>3, <2>5, Recursion, Zenon
  <2>7. f[0] = Root /\ \A n \in 1..Depth : f[n] = step[<<n, f[n - 1]>>]
    BY <2>6 DEF Follows
  <2>8. \A n \in 1..Depth : f[n - 1] \in SUBSET U
    OBVIOUS
  <2>9. \A n \in 1..Depth : f[n] = Leading(Expand(trie, cost, f[n - 1]), width)
    BY <2>1, <2>7, <2>8
  <2>10. \A n \in 0..Depth : n = 0 \/ n \in 1..Depth
    OBVIOUS
  <2>11. Rec(f)
    BY <2>7, <2>9, <2>10
  <2> QED
    BY <2>11
<1>2. Rec(kept)
  BY <1>1, Zenon
<1>3. beam_search(pool, cost, width) = kept[Depth]
  BY DEF beam_search
<1> HIDE DEF kept
<1>4. kept[0] = Root /\ \A n \in 1..Depth : kept[n] = Leading(Expand(trie, cost, kept[n - 1]), width)
  <2>1. \A n \in 0..Depth : kept[n] = IF n = 0 THEN Root ELSE Leading(Expand(trie, cost, kept[n - 1]), width)
    BY <1>2, Zenon
  <2>2. 0 \in 0..Depth /\ \A n \in 1..Depth : n \in 0..Depth /\ n # 0
    OBVIOUS
  <2> QED
    BY <2>1, <2>2, Zenon
<1> QED
  BY <1>3, <1>4, Zenon DEF KeptOf

\* A pool of different codes, and a model that has a cost for each token.
SearchPool(pool, cost) ==
  /\ IsFiniteSet(DOMAIN pool)
  /\ \A g \in DOMAIN pool : pool[g] \in [1..Depth -> Nat]
  /\ \A g, h \in DOMAIN pool : pool[g] = pool[h] => g = h
  /\ Costed(pool, cost)

\* The beginnings of n tokens of all codes of a pool.
LevelOf(pool, cost, n) == {Prefix(cost, pool[g], n) : g \in DOMAIN pool}

\* The first n tokens of a code, from the first n - 1.
Grown(pool, cost, g, n) ==
  LET path == SubSeq(pool[g], 1, n)
      sum == PathCost(cost, pool[g], n)
  IN  /\ Prefix(cost, pool[g], n) = [path |-> path, cost |-> sum]
      /\ path \in [1..n -> Nat] /\ Len(path) = n /\ sum \in Int
      /\ n = 0 => path = <<>> /\ sum = 0
      /\ n = Depth => path = pool[g]
      /\ n # 0 => /\ n - 1 \in 0..Depth /\ path \in build_trie(pool)
                  /\ Front(path) = SubSeq(pool[g], 1, n - 1)
                  /\ sum = PathCost(cost, pool[g], n - 1) + cost[path]

\* One token more, from the beginning before.
LEMMA PrefixGrows ==
  ASSUME Depth \in Nat, NEW pool, NEW cost, SearchPool(pool, cost), NEW g \in DOMAIN pool, NEW n \in 0..Depth
  PROVE  Grown(pool, cost, g, n)
<1>1. pool[g] \in [1..Depth -> Nat]
  BY DEF SearchPool
<1>2. \A i \in 1..Depth : SubSeq(pool[g], 1, i) \in build_trie(pool)
  BY DEF build_trie
<1>3. \A i \in 1..Depth : cost[SubSeq(pool[g], 1, i)] \in Int
  BY <1>2 DEF SearchPool, Costed
<1>4. /\ PathCost(cost, pool[g], 0) = 0
      /\ \A i \in 0..Depth : PathCost(cost, pool[g], i) \in Int
      /\ \A i \in 1..Depth : PathCost(cost, pool[g], i) = PathCost(cost, pool[g], i - 1) + cost[SubSeq(pool[g], 1, i)]
  BY <1>3, CostSteps
<1>5. /\ SubSeq(pool[g], 1, n) = [i \in 1..n |-> pool[g][i]]
      /\ SubSeq(pool[g], 1, n) \in [1..n -> Nat] /\ Len(SubSeq(pool[g], 1, n)) = n
      /\ n # 0 => Front(SubSeq(pool[g], 1, n)) = SubSeq(pool[g], 1, n - 1)
      /\ SubSeq(pool[g], 1, Depth) = pool[g]
  BY <1>1, Cut
<1>6. n # 0 => n \in 1..Depth /\ n - 1 \in 0..Depth
  OBVIOUS
<1>7. n = 0 => SubSeq(pool[g], 1, n) = <<>>
  <2> SUFFICES ASSUME n = 0 PROVE SubSeq(pool[g], 1, n) = <<>>
    OBVIOUS
  <2>1. [i \in 1..n |-> pool[g][i]] = <<>>
    OBVIOUS
  <2> QED
    BY <1>5, <2>1
<1>8. Prefix(cost, pool[g], n) = [path |-> SubSeq(pool[g], 1, n), cost |-> PathCost(cost, pool[g], n)]
  BY DEF Prefix
<1> QED
  BY <1>2, <1>4, <1>5, <1>6, <1>7, <1>8, Zenon DEF Grown

\* What begins alike costs the same.
LEMMA SameCost ==
  ASSUME Depth \in Nat, NEW pool, NEW cost, SearchPool(pool, cost), NEW g \in DOMAIN pool, NEW h \in DOMAIN pool
  PROVE  \A n \in 0..Depth : SubSeq(pool[g], 1, n) = SubSeq(pool[h], 1, n) =>
           PathCost(cost, pool[g], n) = PathCost(cost, pool[h], n)
<1> DEFINE Bad == {n \in 0..Depth : /\ SubSeq(pool[g], 1, n) = SubSeq(pool[h], 1, n)
                                    /\ PathCost(cost, pool[g], n) # PathCost(cost, pool[h], n)}
<1> SUFFICES ASSUME Bad # {} PROVE FALSE
  BY Zenon
<1>1. PICK m \in Bad : \A k \in Bad : m <= k
  <2>1. Bad \subseteq Nat
    OBVIOUS
  <2> HIDE DEF Bad
  <2> QED
    BY <2>1, LeastOfSome
<1>2. /\ m \in 0..Depth /\ SubSeq(pool[g], 1, m) = SubSeq(pool[h], 1, m)
      /\ PathCost(cost, pool[g], m) # PathCost(cost, pool[h], m)
  OBVIOUS
<1>0. Grown(pool, cost, g, m) /\ Grown(pool, cost, h, m)
  BY <1>2, PrefixGrows
<1>3. m # 0
  BY <1>0, <1>2 DEF Grown
<1>4. /\ m - 1 \in 0..Depth
      /\ Front(SubSeq(pool[g], 1, m)) = SubSeq(pool[g], 1, m - 1)
      /\ PathCost(cost, pool[g], m) = PathCost(cost, pool[g], m - 1) + cost[SubSeq(pool[g], 1, m)]
  BY <1>0, <1>3, Zenon DEF Grown
<1>5. /\ Front(SubSeq(pool[h], 1, m)) = SubSeq(pool[h], 1, m - 1)
      /\ PathCost(cost, pool[h], m) = PathCost(cost, pool[h], m - 1) + cost[SubSeq(pool[h], 1, m)]
  BY <1>0, <1>3, Zenon DEF Grown
<1>6. SubSeq(pool[g], 1, m - 1) = SubSeq(pool[h], 1, m - 1)
  BY <1>2, <1>4, <1>5, Zenon
<1>7. PathCost(cost, pool[g], m - 1) # PathCost(cost, pool[h], m - 1)
  BY <1>2, <1>4, <1>5, Zenon
<1>8. m - 1 \in Bad
  BY <1>4, <1>6, <1>7, Zenon
<1>9. m \in Nat /\ ~(m <= m - 1)
  BY <1>2
<1> HIDE DEF Bad
<1> QED
  BY <1>1, <1>8, <1>9

\* The beginnings of a level are no more than the places, and the whole codes
\* as many.
LEMMA LevelLined ==
  ASSUME Depth \in Nat, NEW pool, NEW cost, SearchPool(pool, cost), NEW n \in 0..Depth
  PROVE  /\ Lined(LevelOf(pool, cost, n), n)
         /\ IsFiniteSet(LevelOf(pool, cost, n))
         /\ Cardinality(LevelOf(pool, cost, n)) <= Cardinality(DOMAIN pool)
         /\ n = Depth => Cardinality(LevelOf(pool, cost, n)) = Cardinality(DOMAIN pool)
<1> DEFINE L == LevelOf(pool, cost, n)
           P == DOMAIN pool
           f == [g \in P |-> Prefix(cost, pool[g], n)]
<1>1. \A g \in P : /\ f[g] = [path |-> SubSeq(pool[g], 1, n), cost |-> PathCost(cost, pool[g], n)]
                   /\ SubSeq(pool[g], 1, n) \in [1..n -> Nat] /\ PathCost(cost, pool[g], n) \in Int
                   /\ n = Depth => SubSeq(pool[g], 1, n) = pool[g]
  <2> SUFFICES ASSUME NEW g \in P
               PROVE  /\ f[g] = [path |-> SubSeq(pool[g], 1, n), cost |-> PathCost(cost, pool[g], n)]
                      /\ SubSeq(pool[g], 1, n) \in [1..n -> Nat] /\ PathCost(cost, pool[g], n) \in Int
                      /\ n = Depth => SubSeq(pool[g], 1, n) = pool[g]
    OBVIOUS
  <2>1. Grown(pool, cost, g, n) /\ f[g] = Prefix(cost, pool[g], n)
    BY PrefixGrows
  <2> HIDE DEF f
  <2> QED
    BY <2>1, Zenon DEF Grown
<1>2. f \in [P -> L] /\ \A x \in L : \E g \in P : f[g] = x
  BY DEF LevelOf
<1>3. IsFiniteSet(P) /\ \A g, h \in P : pool[g] = pool[h] => g = h
  BY DEF SearchPool
<1> HIDE DEF f, L, P
<1>4. f \in Surjection(P, L)
  BY <1>2 DEF Surjection
<1>5. /\ IsFiniteSet(L) /\ Cardinality(L) <= Cardinality(P)
      /\ Cardinality(L) = Cardinality(P) <=> f \in Injection(P, L)
  BY <1>3, <1>4, FS_Surjection
<1>6. ASSUME n = Depth PROVE f \in Injection(P, L)
  <2>1. ASSUME NEW g \in P, NEW h \in P, f[g] = f[h] PROVE g = h
    <3>0. /\ f[g] = [path |-> pool[g], cost |-> PathCost(cost, pool[g], n)]
          /\ f[h] = [path |-> pool[h], cost |-> PathCost(cost, pool[h], n)]
      BY <1>1, <1>6, Zenon
    <3>1. f[g].path = pool[g] /\ f[h].path = pool[h]
      BY <3>0
    <3> QED
      BY <1>3, <2>1, <3>1
  <2> QED
    BY <1>2, <2>1 DEF Injection, IsInjective
<1>7. Lined(L, n)
  <2>1. ASSUME NEW x \in L
        PROVE  x = [path |-> x.path, cost |-> x.cost] /\ x.path \in [1..n -> Nat] /\ x.cost \in Int
    <3>1. PICK g \in P : f[g] = x
      BY <1>2
    <3>2. x = [path |-> SubSeq(pool[g], 1, n), cost |-> PathCost(cost, pool[g], n)]
      BY <1>1, <3>1
    <3>3. x.path = SubSeq(pool[g], 1, n) /\ x.cost = PathCost(cost, pool[g], n)
      BY <3>2
    <3> QED
      BY <1>1, <3>2, <3>3
  <2>2. ASSUME NEW x \in L, NEW y \in L, x.path = y.path PROVE x = y
    <3>1. PICK g \in P, h \in P : f[g] = x /\ f[h] = y
      BY <1>2
    <3>2. /\ x = [path |-> SubSeq(pool[g], 1, n), cost |-> PathCost(cost, pool[g], n)]
          /\ y = [path |-> SubSeq(pool[h], 1, n), cost |-> PathCost(cost, pool[h], n)]
      BY <1>1, <3>1
    <3>3. SubSeq(pool[g], 1, n) = SubSeq(pool[h], 1, n)
      BY <2>2, <3>2
    <3>4. PathCost(cost, pool[g], n) = PathCost(cost, pool[h], n)
      BY <3>3, SameCost DEF P
    <3> QED
      BY <3>2, <3>3, <3>4
  <2> QED
    BY <2>1, <2>2 DEF Lined
<1> QED
  BY <1>5, <1>6, <1>7 DEF L, P

\* The children of beams are the beginnings that are one token longer.
LEMMA ExpandLevel ==
  ASSUME Depth \in Nat, NEW pool, NEW cost, SearchPool(pool, cost), NEW n \in 1..Depth,
         NEW B, B \subseteq LevelOf(pool, cost, n - 1)
  PROVE  /\ \A x \in Expand(build_trie(pool), cost, B) :
              \E g \in DOMAIN pool : x = Prefix(cost, pool[g], n) /\ Prefix(cost, pool[g], n - 1) \in B
         /\ \A g \in DOMAIN pool : Prefix(cost, pool[g], n - 1) \in B =>
              Prefix(cost, pool[g], n) \in Expand(build_trie(pool), cost, B)
<1> DEFINE trie == build_trie(pool)
           P == DOMAIN pool
           E == Expand(trie, cost, B)
<1>0. n \in 0..Depth /\ n - 1 \in 0..Depth /\ n # 0
  OBVIOUS
<1>1. ASSUME NEW x \in E
      PROVE  \E g \in P : x = Prefix(cost, pool[g], n) /\ Prefix(cost, pool[g], n - 1) \in B
  <2>0. PICK b \in B : x \in {[path |-> q, cost |-> b.cost + cost[q]] : q \in Children(trie, b.path)}
    BY DEF Expand
  <2>1. PICK q \in Children(trie, b.path) : x = [path |-> q, cost |-> b.cost + cost[q]]
    BY <2>0
  <2>2. PICK h \in P : b = Prefix(cost, pool[h], n - 1)
    BY DEF LevelOf
  <2>3. b.path = SubSeq(pool[h], 1, n - 1) /\ Len(b.path) = n - 1 /\ b.cost = PathCost(cost, pool[h], n - 1)
    <3>0. Grown(pool, cost, h, n - 1)
      BY <1>0, PrefixGrows
    <3>1. /\ b = [path |-> SubSeq(pool[h], 1, n - 1), cost |-> PathCost(cost, pool[h], n - 1)]
          /\ Len(SubSeq(pool[h], 1, n - 1)) = n - 1
      BY <2>2, <3>0, Zenon DEF Grown
    <3> QED
      BY <3>1
  <2>4. q \in trie /\ Len(q) = n /\ Front(q) = b.path
    <3>1. q \in trie /\ Len(q) = Len(b.path) + 1 /\ Front(q) = b.path
      BY Zenon DEF Children
    <3>2. n - 1 + 1 = n
      OBVIOUS
    <3> QED
      BY <2>3, <3>1, <3>2, Zenon
  <2>5. PICK g \in P, i \in 1..Depth : q = SubSeq(pool[g], 1, i)
    BY <2>4 DEF build_trie
  <2>6. i = n
    <3>1. i \in 0..Depth
      OBVIOUS
    <3>2. Len(SubSeq(pool[g], 1, i)) = i
      <4>1. Grown(pool, cost, g, i)
        BY <3>1, PrefixGrows
      <4> QED
        BY <4>1, Zenon DEF Grown
    <3> QED
      BY <2>4, <2>5, <3>2
  <2>7. /\ Prefix(cost, pool[g], n) = [path |-> SubSeq(pool[g], 1, n), cost |-> PathCost(cost, pool[g], n)]
        /\ Front(SubSeq(pool[g], 1, n)) = SubSeq(pool[g], 1, n - 1)
        /\ PathCost(cost, pool[g], n) = PathCost(cost, pool[g], n - 1) + cost[SubSeq(pool[g], 1, n)]
    <3>1. Grown(pool, cost, g, n)
      BY <1>0, PrefixGrows
    <3> QED
      BY <1>0, <3>1, Zenon DEF Grown
  <2>8. SubSeq(pool[g], 1, n - 1) = SubSeq(pool[h], 1, n - 1)
    BY <2>3, <2>4, <2>5, <2>6, <2>7, Zenon
  <2>9. PathCost(cost, pool[g], n - 1) = PathCost(cost, pool[h], n - 1)
    BY <1>0, <2>8, SameCost, Zenon
  <2>10. Prefix(cost, pool[g], n - 1) = b
    BY <2>2, <2>8, <2>9, Zenon DEF Prefix
  <2>11. x = Prefix(cost, pool[g], n)
    BY <2>1, <2>3, <2>5, <2>6, <2>7, <2>9, Zenon
  <2> QED
    BY <2>10, <2>11
<1>2. ASSUME NEW g \in P, Prefix(cost, pool[g], n - 1) \in B PROVE Prefix(cost, pool[g], n) \in E
  <2> DEFINE q == SubSeq(pool[g], 1, n)
             b == Prefix(cost, pool[g], n - 1)
  <2>1. /\ Prefix(cost, pool[g], n) = [path |-> q, cost |-> PathCost(cost, pool[g], n)]
        /\ q \in trie /\ Len(q) = n /\ Front(q) = SubSeq(pool[g], 1, n - 1)
        /\ PathCost(cost, pool[g], n) = PathCost(cost, pool[g], n - 1) + cost[q]
    <3>1. Grown(pool, cost, g, n)
      BY <1>0, PrefixGrows
    <3> QED
      BY <1>0, <3>1, Zenon DEF Grown
  <2>2. /\ b = [path |-> SubSeq(pool[g], 1, n - 1), cost |-> PathCost(cost, pool[g], n - 1)]
        /\ Len(SubSeq(pool[g], 1, n - 1)) = n - 1
    <3>1. Grown(pool, cost, g, n - 1)
      BY <1>0, PrefixGrows
    <3> QED
      BY <3>1, Zenon DEF Grown
  <2> HIDE DEF q, b
  <2>3. b.path = SubSeq(pool[g], 1, n - 1) /\ b.cost = PathCost(cost, pool[g], n - 1)
    BY <2>2
  <2>4. q \in Children(trie, b.path)
    <3>1. Len(q) = Len(b.path) + 1
      BY <1>0, <2>1, <2>2, <2>3
    <3> QED
      BY <2>1, <2>3, <3>1 DEF Children
  <2>5. Prefix(cost, pool[g], n) = [path |-> q, cost |-> b.cost + cost[q]]
    BY <2>1, <2>3
  <2>6. b \in B
    BY <1>2 DEF b
  <2> QED
    BY <2>4, <2>5, <2>6 DEF Expand
<1> QED
  BY <1>1, <1>2

\* Every beam has a child, and no two share one.
LEMMA ExpandMore ==
  ASSUME Depth \in Nat, NEW pool, NEW cost, SearchPool(pool, cost), NEW n \in 1..Depth,
         NEW B, B \subseteq LevelOf(pool, cost, n - 1)
  PROVE  /\ Expand(build_trie(pool), cost, B) \subseteq LevelOf(pool, cost, n)
         /\ Lined(Expand(build_trie(pool), cost, B), n)
         /\ IsFiniteSet(Expand(build_trie(pool), cost, B))
         /\ IsFiniteSet(B) /\ Cardinality(B) <= Cardinality(Expand(build_trie(pool), cost, B))
<1> DEFINE P == DOMAIN pool
           E == Expand(build_trie(pool), cost, B)
           f == [b \in B |-> CHOOSE x \in E : Front(x.path) = b.path]
<1>0. n \in 0..Depth /\ n - 1 \in 0..Depth /\ n # 0
  OBVIOUS
<1>1. /\ \A x \in E : \E g \in P : x = Prefix(cost, pool[g], n) /\ Prefix(cost, pool[g], n - 1) \in B
      /\ \A g \in P : Prefix(cost, pool[g], n - 1) \in B => Prefix(cost, pool[g], n) \in E
  BY ExpandLevel
<1>2. E \subseteq LevelOf(pool, cost, n)
  BY <1>1 DEF LevelOf
<1>3. /\ Lined(LevelOf(pool, cost, n), n) /\ IsFiniteSet(LevelOf(pool, cost, n))
      /\ Lined(LevelOf(pool, cost, n - 1), n - 1) /\ IsFiniteSet(LevelOf(pool, cost, n - 1))
  BY <1>0, LevelLined
<1>4. IsFiniteSet(E) /\ IsFiniteSet(B)
  BY <1>2, <1>3, FS_Subset
<1>5. Lined(E, n)
  BY <1>2, <1>3 DEF Lined
<1>6. ASSUME NEW b \in B PROVE \E x \in E : Front(x.path) = b.path
  <2>1. PICK g \in P : b = Prefix(cost, pool[g], n - 1)
    BY DEF LevelOf
  <2>2. /\ Prefix(cost, pool[g], n) = [path |-> SubSeq(pool[g], 1, n), cost |-> PathCost(cost, pool[g], n)]
        /\ Front(SubSeq(pool[g], 1, n)) = SubSeq(pool[g], 1, n - 1)
        /\ b = [path |-> SubSeq(pool[g], 1, n - 1), cost |-> PathCost(cost, pool[g], n - 1)]
    <3>1. Grown(pool, cost, g, n) /\ Grown(pool, cost, g, n - 1)
      BY <1>0, PrefixGrows
    <3> QED
      BY <1>0, <2>1, <3>1, Zenon DEF Grown
  <2>3. Prefix(cost, pool[g], n).path = SubSeq(pool[g], 1, n) /\ b.path = SubSeq(pool[g], 1, n - 1)
    BY <2>2
  <2>4. Prefix(cost, pool[g], n) \in E
    BY <1>1, <2>1, Zenon
  <2> QED
    BY <2>2, <2>3, <2>4, Zenon
<1> HIDE DEF E
<1>7. \A b \in B : f[b] \in E /\ Front(f[b].path) = b.path
  BY <1>6
<1>8. ASSUME NEW b \in B, NEW c \in B, f[b] = f[c] PROVE b = c
  <2>1. b.path = c.path
    BY <1>7, <1>8
  <2> QED
    BY <1>3, <2>1 DEF Lined
<1>9. f \in Injection(B, E)
  <2>1. f \in [B -> E]
    BY <1>7
  <2> QED
    BY <1>8, <2>1 DEF Injection, IsInjective
<1> QED
  BY <1>2, <1>4, <1>5, <1>9, FS_Injection DEF E

\* As many beginnings as the beam is wide come before the one of g somewhere.
Overtaken(pool, cost, width, g, n) ==
  \E i \in 1..n : Cardinality(Ahead(LevelOf(pool, cost, i), Prefix(cost, pool[g], i))) >= width

\* What the search keeps on level n, all of the level or as many as it may.
KeptRight(pool, cost, width, K, n) ==
  /\ K \subseteq LevelOf(pool, cost, n)
  /\ width >= 1 =>
       /\ \/ K = LevelOf(pool, cost, n) /\ Cardinality(K) <= width
          \/ Cardinality(K) = width /\ Cardinality(LevelOf(pool, cost, n)) >= width
       /\ \A g \in DOMAIN pool : Prefix(cost, pool[g], n) \notin K => Overtaken(pool, cost, width, g, n)

\* From one level to the next.
LEMMA SearchStep ==
  ASSUME Depth \in Nat, NEW pool, NEW cost, SearchPool(pool, cost), NEW n \in 1..Depth, NEW width \in Int,
         NEW B, KeptRight(pool, cost, width, B, n - 1)
  PROVE  KeptRight(pool, cost, width, Leading(Expand(build_trie(pool), cost, B), width), n)
<1> DEFINE P == DOMAIN pool
           E == Expand(build_trie(pool), cost, B)
           K == Leading(E, width)
           L == LevelOf(pool, cost, n)
           M == LevelOf(pool, cost, n - 1)
<1>1. n \in Nat /\ n \in 0..Depth /\ B \subseteq M
  BY DEF KeptRight
<1>2. E \subseteq L /\ Lined(E, n) /\ IsFiniteSet(E) /\ IsFiniteSet(B) /\ Cardinality(B) <= Cardinality(E)
  BY <1>1, ExpandMore
<1>3. K \subseteq E
  BY DEF Leading
<1>4. IsFiniteSet(L) /\ Cardinality(L) \in Nat /\ Cardinality(E) \in Nat /\ Cardinality(E) <= Cardinality(L)
      /\ Cardinality(B) \in Nat
  <2>1. IsFiniteSet(L)
    BY <1>1, LevelLined
  <2> QED
    BY <1>2, <2>1, FS_CardinalityType, FS_Subset
<1>5. /\ \A x \in E : \E g \in P : x = Prefix(cost, pool[g], n) /\ Prefix(cost, pool[g], n - 1) \in B
      /\ \A g \in P : Prefix(cost, pool[g], n - 1) \in B => Prefix(cost, pool[g], n) \in E
  BY <1>1, ExpandLevel
<1>6. ASSUME width >= 1
      PROVE  /\ \/ K = L /\ Cardinality(K) <= width
                \/ Cardinality(K) = width /\ Cardinality(L) >= width
             /\ \A g \in P : Prefix(cost, pool[g], n) \notin K => Overtaken(pool, cost, width, g, n)
  <2>1. width \in Nat
    BY <1>6
  <2>2. /\ IsFiniteSet(K) /\ Cardinality(K) = Least(width, Cardinality(E))
        /\ \A x \in E \ K : Cardinality(Ahead(E, x)) >= width
    BY <1>1, <1>2, <2>1, LeadingAre
  <2>3. /\ \/ B = M /\ Cardinality(B) <= width
           \/ Cardinality(B) = width /\ Cardinality(M) >= width
        /\ \A g \in P : Prefix(cost, pool[g], n - 1) \notin B => Overtaken(pool, cost, width, g, n - 1)
    BY <1>6 DEF KeptRight
  <2> HIDE DEF E, K, L, P, M
  <2>4. Cardinality(E) > width => Cardinality(K) = width /\ Cardinality(L) >= width
    BY <1>4, <2>1, <2>2 DEF Least
  <2>5. \/ K = L /\ Cardinality(K) <= width
        \/ Cardinality(K) = width /\ Cardinality(L) >= width
    <3>1. CASE B = M
      <4>1. E = L
        <5>1. \A g \in P : Prefix(cost, pool[g], n - 1) \in M
          BY DEF LevelOf, M, P
        <5>2. \A x \in L : \E g \in P : x = Prefix(cost, pool[g], n)
          BY DEF LevelOf, L, P
        <5> QED
          BY <1>2, <1>5, <3>1, <5>1, <5>2
      <4>2. Cardinality(E) <= width => K = E /\ Cardinality(K) <= width
        <5>1. Cardinality(E) <= width => Cardinality(K) = Cardinality(E)
          BY <1>4, <2>1, <2>2 DEF Least
        <5>2. Cardinality(K) = Cardinality(E) => E = K
          BY <1>2, <1>3, FS_Subset
        <5> QED
          BY <5>1, <5>2
      <4> QED
        BY <1>4, <2>1, <2>2, <2>4, <4>1, <4>2 DEF Least
    <3>2. CASE Cardinality(B) = width
      BY <1>2, <1>4, <2>1, <2>2, <3>2 DEF Least
    <3> QED
      BY <2>3, <3>1, <3>2
  <2>7. ASSUME NEW g \in P, Prefix(cost, pool[g], n) \notin K PROVE Overtaken(pool, cost, width, g, n)
    <3>1. CASE Prefix(cost, pool[g], n - 1) \in B
      <4> DEFINE x == Prefix(cost, pool[g], n)
      <4>1. x \in E \ K
        BY <1>5, <2>7, <3>1
      <4>2. Cardinality(Ahead(E, x)) >= width
        BY <2>2, <4>1
      <4>3. Ahead(E, x) \in SUBSET Ahead(L, x) /\ Ahead(L, x) \in SUBSET L
        BY <1>2 DEF Ahead
      <4>4. IsFiniteSet(Ahead(L, x))
        BY <1>4, <4>3, FS_Subset
      <4>5. IsFiniteSet(Ahead(E, x)) /\ Cardinality(Ahead(E, x)) <= Cardinality(Ahead(L, x))
        BY <4>3, <4>4, FS_Subset
      <4>6. Cardinality(Ahead(E, x)) \in Nat /\ Cardinality(Ahead(L, x)) \in Nat
        BY <4>4, <4>5, FS_CardinalityType
      <4>7. Cardinality(Ahead(L, x)) >= width
        BY <2>1, <4>2, <4>5, <4>6
      <4>8. n \in 1..n
        BY <1>1
      <4> QED
        BY <4>7, <4>8, Zenon DEF Overtaken, L
    <3>2. CASE Prefix(cost, pool[g], n - 1) \notin B
      <4>1. Overtaken(pool, cost, width, g, n - 1)
        BY <2>3, <3>2
      <4>2. \A i \in 1..(n - 1) : i \in 1..n
        BY <1>1
      <4> QED
        BY <4>1, <4>2, Zenon DEF Overtaken
    <3> QED
      BY <3>1, <3>2
  <2> QED
    BY <2>5, <2>7
<1> QED
  BY <1>2, <1>3, <1>6 DEF KeptRight

\* The search finds what it may.
LEMMA SearchKeeps ==
  ASSUME Depth \in Nat, NEW pool, NEW cost, SearchPool(pool, cost), DOMAIN pool # {}, NEW width \in Int
  PROVE  KeptRight(pool, cost, width, beam_search(pool, cost, width), Depth)
<1>1. Costed(pool, cost)
  BY DEF SearchPool
<1>2. PICK kept : KeptOf(kept, pool, cost, width)
  BY <1>1, SearchSteps, Zenon
<1>3. /\ kept[0] = {[path |-> <<>>, cost |-> 0]}
      /\ \A n \in 1..Depth : kept[n] = Leading(Expand(build_trie(pool), cost, kept[n - 1]), width)
      /\ beam_search(pool, cost, width) = kept[Depth]
  BY <1>2 DEF KeptOf
<1>4. KeptRight(pool, cost, width, kept[0], 0)
  <2> DEFINE Root == [path |-> <<>>, cost |-> 0]
  <2>1. \A g \in DOMAIN pool : Prefix(cost, pool[g], 0) = Root
    <3> SUFFICES ASSUME NEW g \in DOMAIN pool PROVE Prefix(cost, pool[g], 0) = Root
      OBVIOUS
    <3>1. 0 \in 0..Depth
      OBVIOUS
    <3>2. Grown(pool, cost, g, 0)
      BY <3>1, PrefixGrows
    <3> QED
      BY <3>2, Zenon DEF Grown
  <2> HIDE DEF Root
  <2>2. LevelOf(pool, cost, 0) = {Root}
    <3>1. PICK g \in DOMAIN pool : TRUE
      OBVIOUS
    <3> QED
      BY <2>1, <3>1 DEF LevelOf
  <2>3. kept[0] = {Root}
    BY <1>3 DEF Root
  <2>4. Cardinality({Root}) = 1
    BY FS_Singleton
  <2> QED
    BY <2>1, <2>2, <2>3, <2>4 DEF KeptRight
<1> DEFINE Bad == {n \in 0..Depth : ~KeptRight(pool, cost, width, kept[n], n)}
<1>5. Bad = {}
  <2> SUFFICES ASSUME Bad # {} PROVE FALSE
    OBVIOUS
  <2>1. PICK m \in Bad : \A k \in Bad : m <= k
    <3>1. Bad \subseteq Nat
      OBVIOUS
    <3> HIDE DEF Bad
    <3> QED
      BY <3>1, LeastOfSome
  <2>2. m \in 0..Depth /\ ~KeptRight(pool, cost, width, kept[m], m)
    OBVIOUS
  <2>3. m # 0
    BY <1>4, <2>2
  <2>4. m \in 1..Depth /\ m - 1 \in 0..Depth /\ ~(m <= m - 1)
    BY <2>2, <2>3
  <2>5. m - 1 \notin Bad
    <3> HIDE DEF Bad
    <3> QED
      BY <2>1, <2>4
  <2>6. KeptRight(pool, cost, width, kept[m - 1], m - 1)
    BY <2>4, <2>5
  <2>7. KeptRight(pool, cost, width, Leading(Expand(build_trie(pool), cost, kept[m - 1]), width), m)
    BY <2>4, <2>6, SearchStep
  <2> QED
    BY <1>3, <2>2, <2>4, <2>7
<1>6. Depth \in 0..Depth
  OBVIOUS
<1>7. KeptRight(pool, cost, width, kept[Depth], Depth)
  BY <1>5, <1>6
<1> QED
  BY <1>3, <1>7

\* An empty pool gives nothing.
LEMMA SearchOfNone ==
  ASSUME Depth \in Nat \ {0}, NEW pool, NEW cost, DOMAIN pool = {}, NEW width
  PROVE  beam_search(pool, cost, width) = {}
<1>1. build_trie(pool) = {}
  BY DEF build_trie
<1>2. Depth \in Nat /\ Depth \in 1..Depth /\ Costed(pool, cost)
  BY <1>1 DEF Costed
<1>3. PICK kept : KeptOf(kept, pool, cost, width)
  BY <1>2, SearchSteps, Zenon
<1>4. kept[Depth] = Leading(Expand(build_trie(pool), cost, kept[Depth - 1]), width)
      /\ beam_search(pool, cost, width) = kept[Depth]
  BY <1>2, <1>3 DEF KeptOf
<1>5. Expand(build_trie(pool), cost, kept[Depth - 1]) = {}
  BY <1>1 DEF Expand, Children
<1>6. Leading({}, width) = {}
  BY DEF Leading
<1> QED
  BY <1>4, <1>5, <1>6

\* What the search gives, in all.
LEMMA SearchExact ==
  ASSUME Depth \in Nat \ {0}, NEW pool, NEW cost, SearchPool(pool, cost), NEW width \in Nat \ {0}
  PROVE  LET found == beam_search(pool, cost, width)
         IN  /\ found \subseteq LevelOf(pool, cost, Depth)
             /\ Cardinality(found) = Least(width, Cardinality(DOMAIN pool))
             /\ \A g \in DOMAIN pool : Prefix(cost, pool[g], Depth) \notin found =>
                  Overtaken(pool, cost, width, g, Depth)
<1> DEFINE found == beam_search(pool, cost, width)
           P == DOMAIN pool
           L == LevelOf(pool, cost, Depth)
<1>1. IsFiniteSet(P) /\ Cardinality(P) \in Nat
  BY FS_CardinalityType DEF SearchPool
<1>2. CASE P = {}
  <2>1. found = {} /\ Cardinality(found) = 0 /\ Cardinality(P) = 0
    BY <1>2, SearchOfNone, FS_EmptySet
  <2> QED
    BY <1>2, <2>1 DEF Least
<1>3. CASE P # {}
  <2>1. KeptRight(pool, cost, width, found, Depth)
    BY <1>3, SearchKeeps
  <2>2. Depth \in 0..Depth /\ Depth \in Nat
    OBVIOUS
  <2>3. Cardinality(L) = Cardinality(P)
    BY <2>2, LevelLined
  <2>4. /\ found \subseteq L
        /\ \/ found = L /\ Cardinality(found) <= width
           \/ Cardinality(found) = width /\ Cardinality(L) >= width
        /\ \A g \in P : Prefix(cost, pool[g], Depth) \notin found => Overtaken(pool, cost, width, g, Depth)
    BY <2>1 DEF KeptRight
  <2> HIDE DEF found, L, P
  <2>5. Cardinality(found) = Least(width, Cardinality(P))
    BY <1>1, <2>3, <2>4 DEF Least
  <2> QED
    BY <2>4, <2>5 DEF found, L, P
<1> QED
  BY <1>2, <1>3

-----------------------------------------------------------------------------
(***************************************************************************)
(* The worker.                                                             *)
(***************************************************************************)
\* The codes of a bundle: a full one for each place, and no two the same.
CodesFine(codes) ==
  /\ IsFiniteSet(DOMAIN codes) /\ DOMAIN codes \subseteq Nat \ {0}
  /\ \A g \in DOMAIN codes : codes[g] \in [1..Depth -> Nat]
  /\ \A g, h \in DOMAIN codes : codes[g] = codes[h] => g = h

\* A code has one number more than the levels.
LEMMA DepthOne == Depth \in Nat \ {0} /\ Depth = Levels + 1 /\ Levels \in Nat
  BY CodesAssumption DEF Depth

\* The codes of every coding are fine.
LEMMA IdsFine == ASSUME NEW ids \in AllIds PROVE CodesFine(ids)
<1>1. PICK db \in DBs, coding \in Codings : ids = IdsOf(db, coding)
  BY DEF AllIds
<1>2. DOMAIN ids = DOMAIN db
  BY <1>1 DEF IdsOf, assign_collision_ids
<1>3. IsFiniteSet(DOMAIN db) /\ DOMAIN db \subseteq Nat \ {0}
  BY CodingAssumption
<1>4. ASSUME NEW g \in DOMAIN ids PROVE ids[g] \in [1..Depth -> Nat]
  <2> DEFINE n == Cardinality({l \in DOMAIN db : l < g /\ coding[l] = coding[g]})
  <2>1. /\ ids[g] = Append(coding[g], n) /\ n \in Nat
        /\ coding[g] \in Seq(0..(CODEBOOK - 1)) /\ Len(coding[g]) = Levels
    BY <1>1, <1>2, GroupBefore
  <2> HIDE DEF n
  <2>2. CODEBOOK \in Nat
    BY CodesAssumption
  <2>3. coding[g] \in Seq(Nat)
    BY <2>1, <2>2
  <2>4. Append(coding[g], n) \in Seq(Nat) /\ Len(Append(coding[g], n)) = Levels + 1
    BY <2>1, <2>3, AppendProperties
  <2>5. ids[g] \in Seq(Nat) /\ Len(ids[g]) = Depth
    BY <2>1, <2>4, DepthOne
  <2>6. ids[g] \in [1..Len(ids[g]) -> Nat]
    BY <2>5, LenProperties
  <2> QED
    BY <2>5, <2>6
<1>5. ~DictionaryRaises(ids)
  BY IdsDiffer
<1> QED
  BY <1>2, <1>3, <1>4, <1>5 DEF CodesFine, DictionaryRaises

\* So are those of a bundle.
LEMMA BundleFine == ASSUME CodeInv, Whole("bundle_codes") PROVE CodesFine(Body("bundle_codes").codes)
<1> DEFINE codes == Body("bundle_codes").codes
<1>1. Body("bundle_codes") \in Bodies("bundle_codes")
  BY WholeBodies
<1>2. /\ Whole("places") /\ DOMAIN codes \subseteq DOMAIN TrainedCodes
      /\ \A g \in DOMAIN codes : codes[g] = TrainedCodes[g]
  BY <1>1 DEF CodeInv, BundleInv
<1>3. PICK d \in DBs, ids \in AllIds : Body("places") = export_places(d, ids)
  BY <1>2, WholeBodies DEF CodeInv, CodedInv
<1>4. /\ DOMAIN TrainedCodes = DOMAIN d \cap DOMAIN ids
      /\ \A g \in DOMAIN TrainedCodes : TrainedCodes[g] = ids[g]
  BY <1>3, TableCodes
<1>5. CodesFine(ids)
  BY IdsFine
<1> HIDE DEF codes
<1>6. DOMAIN codes \in SUBSET DOMAIN ids /\ \A g \in DOMAIN codes : codes[g] = ids[g]
  BY <1>2, <1>4
<1>7. IsFiniteSet(DOMAIN codes)
  BY <1>5, <1>6, FS_Subset DEF CodesFine
<1>8. CodesFine(codes)
  BY <1>5, <1>6, <1>7 DEF CodesFine
<1> QED
  BY <1>8 DEF codes

\* A worker that has started has such codes, one that has not did nothing yet.
WorkerInv ==
  /\ worker = <<>> => request = <<>> /\ trip = <<>> /\ answer = "none"
  /\ worker # <<>> => CodesFine(Codes)

\* Both stay.
LEMMA WorkerKept == ASSUME CodeInv, WorkerInv, [ReleaseNext]_releaseVars PROVE WorkerInv'
<1>1. ASSUME StartWorker PROVE WorkerInv'
  <2>1. Whole("bundle_codes") /\ worker' = <<Body("bundle_codes").codes>>
    BY <1>1 DEF StartWorker
  <2>2. CodesFine(Body("bundle_codes").codes)
    BY <2>1, BundleFine
  <2>3. worker' # <<>> /\ Codes' = Body("bundle_codes").codes
    BY <2>1 DEF Codes
  <2> QED
    BY <2>2, <2>3 DEF WorkerInv
<1>2. ASSUME UNCHANGED worker, ServingNext PROVE WorkerInv'
  <2>1. worker # <<>>
    BY <1>2 DEF WorkerInv, ServingNext, Receive, Slot, SlotRaises, NextDay, Reply, Finish
  <2>2. worker' # <<>> /\ Codes' = Codes
    BY <1>2, <2>1 DEF Codes
  <2> QED
    BY <2>1, <2>2 DEF WorkerInv
<1>3. ASSUME UNCHANGED serving PROVE WorkerInv'
  BY <1>3 DEF WorkerInv, serving, Codes
<1>4. ServingNext => UNCHANGED worker
  BY DEF ServingNext, Receive, Slot, SlotRaises, NextDay, Reply, Finish
<1> QED
  BY <1>1, <1>2, <1>3, <1>4 DEF ReleaseNext, releaseVars

\* A pool of the codes, at any cost.
LEMMA PoolFine ==
  ASSUME CodesFine(Codes), NEW P, P \subseteq DOMAIN Codes, NEW cost \in Costings
  PROVE  SearchPool([g \in P |-> Codes[g]], cost)
<1> DEFINE pool == [g \in P |-> Codes[g]]
<1>1. IsFiniteSet(P)
  BY FS_Subset DEF CodesFine
<1>2. build_trie(pool) \subseteq build_trie(Codes)
  BY DEF build_trie
<1>3. Costed(pool, cost)
  BY <1>2, ItineraryAssumption DEF Costings, Costed
<1>4. DOMAIN pool = P /\ \A g \in P : pool[g] = Codes[g]
  OBVIOUS
<1> HIDE DEF pool
<1>5. SearchPool(pool, cost)
  BY <1>1, <1>3, <1>4 DEF SearchPool, CodesFine
<1> QED
  BY <1>5 DEF pool

\* And they hold at the start.
LEMMA WorkerStarts == ASSUME ReleaseInit PROVE CodeInv /\ WorkerInv
<1>1. CodeInv
  BY EmptyCode DEF ReleaseInit, SemanticInit
<1> QED
  BY <1>1 DEF ReleaseInit, ServingInit, WorkerInv

\* Whatever the codes of a bundle and whatever the model thinks of the tokens,
\* on whichever pool and at whichever width: the search finds as many places
\* of the pool as the beam is wide, or all, each at what it costs, and passes
\* over one only where on some level as many beginnings of codes as the beam
\* is wide come before the beginning of its code (decode.py:28).
THEOREM SearchStaysExact == ReleaseSpec => []BeamExact
<1>1. ReleaseInit => CodeInv /\ WorkerInv
  BY WorkerStarts
<1>2. CodeInv /\ WorkerInv /\ [ReleaseNext]_releaseVars => (CodeInv /\ WorkerInv)'
  BY CodeKept, WorkerKept
<1>3. ASSUME WorkerInv PROVE BeamExact
  <2> SUFFICES ASSUME Fresh, NEW P \in SUBSET DOMAIN Codes, NEW width \in 1..Cardinality(DOMAIN Codes),
                      NEW cost \in Costings
               PROVE  LET found == beam_search([g \in P |-> Codes[g]], cost, width)
                          Level(n) == {Prefix(cost, Codes[g], n) : g \in P}
                      IN  /\ found \subseteq Level(Depth)
                          /\ Cardinality(found) = Least(width, Cardinality(P))
                          /\ \A g \in P : Prefix(cost, Codes[g], Depth) \notin found =>
                               \E n \in 1..Depth : Cardinality(Ahead(Level(n), Prefix(cost, Codes[g], n))) >= width
    BY DEF BeamExact
  <2> DEFINE pool == [g \in P |-> Codes[g]]
             found == beam_search(pool, cost, width)
             Level(n) == {Prefix(cost, Codes[g], n) : g \in P}
  <2>1. CodesFine(Codes)
    BY <1>3 DEF WorkerInv, Fresh
  <2>2. SearchPool(pool, cost)
    BY <2>1, PoolFine
  <2>3. width \in Nat \ {0}
    <3>1. Cardinality(DOMAIN Codes) \in Nat
      BY <2>1, FS_CardinalityType DEF CodesFine
    <3> QED
      BY <3>1
  <2>4. DOMAIN pool = P /\ \A g \in P : pool[g] = Codes[g]
    OBVIOUS
  <2>5. Depth \in Nat \ {0}
    BY DepthOne
  <2> HIDE DEF pool
  <2>6. /\ found \subseteq LevelOf(pool, cost, Depth)
        /\ Cardinality(found) = Least(width, Cardinality(P))
        /\ \A g \in P : Prefix(cost, pool[g], Depth) \notin found => Overtaken(pool, cost, width, g, Depth)
    BY <2>2, <2>3, <2>4, <2>5, SearchExact
  <2>7. \A n : LevelOf(pool, cost, n) = Level(n)
    BY <2>4 DEF LevelOf
  <2>8. ASSUME NEW g \in P, Prefix(cost, Codes[g], Depth) \notin found
        PROVE  \E n \in 1..Depth : Cardinality(Ahead(Level(n), Prefix(cost, Codes[g], n))) >= width
    <3>1. Overtaken(pool, cost, width, g, Depth)
      BY <2>4, <2>6, <2>8
    <3>2. PICK n \in 1..Depth : Cardinality(Ahead(LevelOf(pool, cost, n), Prefix(cost, pool[g], n))) >= width
      BY <3>1 DEF Overtaken
    <3>3. LevelOf(pool, cost, n) = Level(n) /\ pool[g] = Codes[g]
      BY <2>4, <2>7
    <3> QED
      BY <3>2, <3>3
  <2>9. found \subseteq Level(Depth)
    BY <2>6, <2>7
  <2> QED
    BY <2>6, <2>8, <2>9 DEF pool
<1> QED
  BY <1>1, <1>2, <1>3, PTL DEF ReleaseSpec

-----------------------------------------------------------------------------
(***************************************************************************)
(* The trip.                                                               *)
(***************************************************************************)
\* The slots of the days of t.
SlotsOf(t) == UNION {{d} \X DOMAIN t[d] : d \in DOMAIN t}

\* A slot is a day and its number in the day.
LEMMA SlotsAre ==
  ASSUME NEW t
  PROVE  \A s : s \in SlotsOf(t) <=>
           s = <<s[1], s[2]>> /\ s[1] \in DOMAIN t /\ s[2] \in DOMAIN t[s[1]]
<1> SUFFICES ASSUME NEW s
             PROVE  s \in SlotsOf(t) <=> s = <<s[1], s[2]>> /\ s[1] \in DOMAIN t /\ s[2] \in DOMAIN t[s[1]]
  OBVIOUS
<1>1. ASSUME s \in SlotsOf(t) PROVE s = <<s[1], s[2]>> /\ s[1] \in DOMAIN t /\ s[2] \in DOMAIN t[s[1]]
  <2>1. PICK d \in DOMAIN t : s \in {d} \X DOMAIN t[d]
    BY <1>1 DEF SlotsOf
  <2> QED
    BY <2>1
<1>2. ASSUME s = <<s[1], s[2]>>, s[1] \in DOMAIN t, s[2] \in DOMAIN t[s[1]] PROVE s \in SlotsOf(t)
  <2>1. s \in {s[1]} \X DOMAIN t[s[1]]
    BY <1>2
  <2> QED
    BY <1>2, <2>1 DEF SlotsOf
<1> QED
  BY <1>1, <1>2, Zenon

\* A slot gets a place of its pool, or none; with a beam of one or more it
\* gets one when there is one.
LEMMA PickRight ==
  ASSUME CodesFine(Codes), request[1].width \in Int, request[1].first_k \in Nat \ {0},
         NEW d, NEW i, NEW cost \in Costings, NEW p \in Pick(d, i, cost)
  PROVE  /\ p = None \/ p \in Pool(d, i)
         /\ request[1].width >= 1 /\ p = None => Pool(d, i) = {}
<1> DEFINE P == Pool(d, i)
           pool == [g \in P |-> Codes[g]]
           randomize == i = 1 /\ request[1].first_k > 1
           width == IF randomize THEN request[1].first_k ELSE request[1].width
           k == IF randomize THEN request[1].first_k ELSE 1
           found == beam_search(pool, cost, width)
           ranking == IF P = {} THEN {} ELSE found
<1>1. P \subseteq DOMAIN Codes /\ P \subseteq Nat \ {0} /\ IsFiniteSet(P)
  <2>1. P \in SUBSET DOMAIN Codes
    BY DEF Pool
  <2> QED
    BY <2>1, FS_Subset DEF CodesFine
<1>2. SearchPool(pool, cost)
  BY <1>1, PoolFine
<1>3. width \in Int /\ (request[1].width >= 1 => width >= 1)
  OBVIOUS
<1>4. p \in IF ranking = {} THEN {None} ELSE {PlaceAt(pool, b.path) : b \in Leading(ranking, k)}
  BY DEF Pick
<1>5. DOMAIN pool = P /\ \A g \in P : pool[g] = Codes[g]
  OBVIOUS
<1>6. Depth \in Nat \ {0} /\ Depth \in 0..Depth
  BY DepthOne
<1> HIDE DEF P, pool, width, k
<1>7. ASSUME P # {}
      PROVE  found \subseteq LevelOf(pool, cost, Depth) /\ (width >= 1 => found # {})
  <2>1. KeptRight(pool, cost, width, found, Depth)
    BY <1>2, <1>3, <1>5, <1>6, <1>7, SearchKeeps
  <2>2. LevelOf(pool, cost, Depth) # {}
    BY <1>5, <1>7 DEF LevelOf
  <2>3. Cardinality({}) = 0
    BY FS_EmptySet
  <2> HIDE DEF found
  <2>4. found \subseteq LevelOf(pool, cost, Depth)
    BY <2>1 DEF KeptRight
  <2>5. width >= 1 => found = LevelOf(pool, cost, Depth) \/ Cardinality(found) = width
    BY <2>1 DEF KeptRight
  <2> QED
    BY <1>3, <2>2, <2>3, <2>4, <2>5
<1>8. ASSUME NEW b \in found, P # {} PROVE PlaceAt(pool, b.path) \in P
  <2>1. PICK g \in P : b = Prefix(cost, pool[g], Depth)
    BY <1>5, <1>7, <1>8 DEF LevelOf
  <2>2. Grown(pool, cost, g, Depth)
    BY <1>2, <1>5, <1>6, PrefixGrows
  <2>3. b.path = pool[g]
    BY <2>1, <2>2 DEF Grown
  <2>4. \A h \in P : pool[h] = pool[g] => h = g
    BY <1>2, <1>5 DEF SearchPool
  <2>5. g <= g
    BY <1>1
  <2>6. g \in DOMAIN pool /\ pool[g] = b.path /\ \A h \in DOMAIN pool : pool[h] = b.path => h <= g
    BY <1>5, <2>3, <2>4, <2>5
  <2>7. PlaceAt(pool, b.path) \in DOMAIN pool
    BY <2>6 DEF PlaceAt
  <2> QED
    BY <1>5, <2>7
<1> HIDE DEF found
<1>9. CASE ranking = {}
  <2>1. p = None
    BY <1>4, <1>9
  <2>2. P # {} => found = {}
    BY <1>9
  <2>3. request[1].width >= 1 => P = {}
    BY <1>3, <1>7, <2>2
  <2> QED
    BY <2>1, <2>3 DEF P
<1>10. CASE ranking # {}
  <2>1. P # {} /\ ranking = found
    BY <1>10
  <2>2. PICK b \in Leading(found, k) : p = PlaceAt(pool, b.path)
    BY <1>4, <1>10, <2>1
  <2>3. b \in found
    BY <2>2 DEF Leading
  <2>4. p \in P
    BY <1>8, <2>1, <2>2, <2>3
  <2>5. p # None
    BY <1>1, <2>4 DEF None
  <2> QED
    BY <2>4, <2>5 DEF P
<1> QED
  BY <1>9, <1>10 DEF P

\* The trip u is t with the slot of day d and number i, behind the others.
OneSlotMore(t, u, d, i, g) ==
  /\ u \in Seq(Seq(Nat)) /\ u # <<>>
  /\ \A s : s \in SlotsOf(u) <=> s \in SlotsOf(t) \/ s = <<d, i>>
  /\ u[d][i] = g
  /\ \A s \in SlotsOf(t) : u[s[1]][s[2]] = t[s[1]][s[2]] /\ Earlier(s, <<d, i>>) /\ s # <<d, i>>

\* Where a slot more is decoded.
LEMMA SlotAdds ==
  ASSUME NEW t \in Seq(Seq(Nat)), t # <<>>, NEW g \in Nat, NEW d, NEW i, d = Len(t), i = Len(t[d]) + 1,
         NEW u, u = [t EXCEPT ![d] = Append(t[d], g)]
  PROVE  OneSlotMore(t, u, d, i, g)
<1>1. d \in Nat /\ d \in DOMAIN t /\ DOMAIN t = 1..d /\ t[d] \in Seq(Nat)
  OBVIOUS
<1>2. i \in Nat /\ i - 1 = Len(t[d]) /\ DOMAIN t[d] = 1..(i - 1) /\ Len(t[d]) \in Nat
  BY <1>1
<1>3. /\ Append(t[d], g) \in Seq(Nat) /\ Len(Append(t[d], g)) = i
      /\ \A j \in 1..(i - 1) : Append(t[d], g)[j] = t[d][j]
      /\ Append(t[d], g)[i] = g
  <2>1. /\ Append(t[d], g) \in Seq(Nat) /\ Len(Append(t[d], g)) = Len(t[d]) + 1
        /\ \A j \in 1..Len(t[d]) : Append(t[d], g)[j] = t[d][j]
        /\ Append(t[d], g)[Len(t[d]) + 1] = g
    BY <1>1, AppendProperties
  <2> QED
    BY <1>2, <2>1
<1>4. u = [t EXCEPT ![d] = Append(t[d], g)]
  OBVIOUS
<1>5. DOMAIN u = DOMAIN t /\ u[d] = Append(t[d], g) /\ \A e \in DOMAIN t : e # d => u[e] = t[e]
  BY <1>1, <1>4
<1>6. u \in Seq(Seq(Nat)) /\ u # <<>>
  BY <1>1, <1>3, <1>4
<1>7. DOMAIN u[d] = 1..i
  BY <1>3, <1>5
<1>8. \A e \in DOMAIN t : \A j : j \in DOMAIN u[e] <=> j \in DOMAIN t[e] \/ (e = d /\ j = i)
  BY <1>2, <1>5, <1>7
<1>9. ASSUME NEW s PROVE s \in SlotsOf(u) <=> s \in SlotsOf(t) \/ s = <<d, i>>
  <2>1. s \in SlotsOf(u) <=> s = <<s[1], s[2]>> /\ s[1] \in DOMAIN t /\ s[2] \in DOMAIN u[s[1]]
    BY <1>5, SlotsAre
  <2>2. s \in SlotsOf(t) <=> s = <<s[1], s[2]>> /\ s[1] \in DOMAIN t /\ s[2] \in DOMAIN t[s[1]]
    BY SlotsAre
  <2> QED
    BY <1>1, <1>8, <2>1, <2>2
<1>10. ASSUME NEW s \in SlotsOf(t)
       PROVE  u[s[1]][s[2]] = t[s[1]][s[2]] /\ Earlier(s, <<d, i>>) /\ s # <<d, i>>
  <2>1. s = <<s[1], s[2]>> /\ s[1] \in 1..d /\ s[2] \in DOMAIN t[s[1]]
    BY <1>1, SlotsAre
  <2>2. s[1] = d => s[2] \in 1..(i - 1)
    BY <1>2, <2>1
  <2>3. Earlier(s, <<d, i>>)
    BY <1>1, <1>2, <2>1, <2>2 DEF Earlier
  <2>4. s # <<d, i>>
    BY <1>1, <1>2, <2>2
  <2> QED
    BY <1>1, <1>3, <1>5, <2>1, <2>2, <2>3, <2>4
<1>11. u[d][i] = g
  BY <1>3, <1>5
<1> QED
  BY <1>6, <1>9, <1>10, <1>11, Zenon DEF OneSlotMore

\* Where a day more is begun.
LEMMA OneDayMore ==
  ASSUME NEW t \in Seq(Seq(Nat)), NEW u, u = Append(t, <<>>)
  PROVE  /\ u \in Seq(Seq(Nat)) /\ u # <<>>
         /\ \A s : s \in SlotsOf(u) <=> s \in SlotsOf(t)
         /\ \A s \in SlotsOf(t) : u[s[1]][s[2]] = t[s[1]][s[2]]
<1>1. u \in Seq(Seq(Nat)) /\ Len(u) = Len(t) + 1 /\ DOMAIN t = 1..Len(t) /\ Len(t) \in Nat
      /\ \A d \in 1..Len(t) : u[d] = t[d]
  <2>1. <<>> \in Seq(Nat)
    OBVIOUS
  <2>2. u \in Seq(Seq(Nat)) /\ Len(u) = Len(t) + 1 /\ \A d \in 1..Len(t) : u[d] = t[d]
    BY <2>1, AppendProperties
  <2> QED
    BY <2>2
<1>2. u[Len(t) + 1] = <<>> /\ DOMAIN u = 1..(Len(t) + 1)
  BY <1>1
<1>3. ASSUME NEW s PROVE s \in SlotsOf(u) <=> s \in SlotsOf(t)
  <2>1. s \in SlotsOf(u) <=> s = <<s[1], s[2]>> /\ s[1] \in DOMAIN u /\ s[2] \in DOMAIN u[s[1]]
    BY SlotsAre
  <2>2. s \in SlotsOf(t) <=> s = <<s[1], s[2]>> /\ s[1] \in DOMAIN t /\ s[2] \in DOMAIN t[s[1]]
    BY SlotsAre
  <2>3. DOMAIN u[Len(t) + 1] = {}
    BY <1>2
  <2> QED
    BY <1>1, <1>2, <2>1, <2>2, <2>3
<1>4. \A s \in SlotsOf(t) : s[1] \in DOMAIN t
  BY SlotsAre
<1> QED
  BY <1>1, <1>2, <1>3, <1>4

\* The places of a trip are those of its slots.
LEMMA ChosenAre == \A g : g \in Chosen <=> g # None /\ \E s \in Filled : PlaceOn(s) = g
<1>1. Filled = SlotsOf(trip)
  BY DEF Filled, SlotsOf
<1>2. ASSUME NEW g \in Chosen PROVE g # None /\ \E s \in Filled : PlaceOn(s) = g
  <2>1. PICK d \in DOMAIN trip : g \in Range(trip[d])
    BY <1>2 DEF Chosen
  <2>2. PICK i \in DOMAIN trip[d] : g = trip[d][i]
    BY <2>1 DEF Range
  <2>3. <<d, i>> \in Filled /\ PlaceOn(<<d, i>>) = g
    BY <2>2 DEF Filled, PlaceOn
  <2>4. g # None
    BY <1>2 DEF Chosen
  <2> QED
    BY <2>3, <2>4, Zenon
<1>3. ASSUME NEW s \in Filled, PlaceOn(s) # None PROVE PlaceOn(s) \in Chosen
  <2>1. s[1] \in DOMAIN trip /\ s[2] \in DOMAIN trip[s[1]]
    BY <1>1, SlotsAre
  <2>2. PlaceOn(s) \in Range(trip[s[1]])
    BY <2>1 DEF PlaceOn, Range
  <2>3. Range(trip[s[1]]) \in {Range(trip[d]) : d \in DOMAIN trip}
    BY <2>1
  <2> QED
    BY <1>3, <2>2, <2>3, Zenon DEF Chosen
<1> QED
  BY <1>2, <1>3

\* What is running has a worker, a beam and a day.
RunningInv ==
  /\ trip \in Seq(Seq(Nat))
  /\ answer = "running" =>
       /\ worker # <<>> /\ request # <<>> /\ trip # <<>>
       /\ request[1].width \in Int /\ request[1].first_k \in Nat \ {0}

TripInv == RunningInv /\ TripDecoded

\* No day, no slot.
LEMMA NoSlots == ASSUME NEW t, t = <<>> \/ t = <<<<>>>> PROVE t \in Seq(Seq(Nat)) /\ \A s : s \notin SlotsOf(t)
<1>1. t \in Seq(Seq(Nat)) /\ DOMAIN t \subseteq {1} /\ \A d \in DOMAIN t : DOMAIN t[d] = {}
  <2>1. CASE t = <<>>
    BY <2>1
  <2>2. CASE t = <<<<>>>>
    <3>1. <<>> \in Seq(Nat)
      OBVIOUS
    <3>2. t \in Seq(Seq(Nat)) /\ DOMAIN t = {1} /\ t[1] = <<>>
      BY <2>2, <3>1
    <3> QED
      BY <3>2
  <2> QED
    BY <2>1, <2>2
<1> QED
  BY <1>1, SlotsAre

\* A trip without slots.
LEMMA EmptyTrip == ASSUME trip' = <<>> \/ trip' = <<<<>>>> PROVE TripDecoded' /\ (trip \in Seq(Seq(Nat)))'
<1>1. \A s : s \notin Filled'
  BY NoSlots DEF Filled, SlotsOf
<1>2. trip' \in Seq(Seq(Nat))
  BY NoSlots
<1> QED
  BY <1>1, <1>2 DEF TripDecoded, TripDistinct, EmptyOnlyIfTaken

\* A request that comes in.
LEMMA ReceiveTrip == ASSUME TripInv, Receive PROVE TripInv'
<1>1. PICK p \in Payloads :
        /\ worker # <<>> /\ worker' = worker
        /\ answer' = FirstReply(p)
        /\ request' = <<[plan |-> IF FirstReply(p) = "running" THEN resolve_days(p) ELSE <<>>,
                         width |-> Least(p.width, BEAM_CAP),
                         first_k |-> IF p.first_k < 1 THEN 1 ELSE Least(p.first_k, MAX_FIRST_K)]>>
        /\ trip' = <<<<>>>>
  BY DEF Receive
<1>2. TripDecoded' /\ trip' \in Seq(Seq(Nat))
  BY <1>1, EmptyTrip
<1>3. request' # <<>> /\ trip' # <<>> /\ worker' # <<>>
  BY <1>1
<1>4. ASSUME answer' = "running" PROVE request'[1].width \in Int /\ request'[1].first_k \in Nat \ {0}
  <2>1. p.width_int
    BY <1>1, <1>4 DEF FirstReply
  <2>2. p.width \in Int /\ p.first_k \in Int /\ BEAM_CAP \in Nat /\ MAX_FIRST_K \in Nat \ {0}
    BY <2>1, ItineraryAssumption
  <2>3. /\ request'[1].width = Least(p.width, BEAM_CAP)
        /\ request'[1].first_k = IF p.first_k < 1 THEN 1 ELSE Least(p.first_k, MAX_FIRST_K)
    BY <1>1
  <2> QED
    BY <2>2, <2>3 DEF Least
<1> QED
  BY <1>2, <1>3, <1>4 DEF TripInv, RunningInv

\* A slot that is decoded.
LEMMA SlotTrip == ASSUME TripInv, WorkerInv, Slot PROVE TripInv'
<1>1. /\ answer = "running" /\ UNCHANGED <<worker, request, answer>>
      /\ \E cost \in Costings : \E g \in Pick(Today, NextSlot, cost) :
           trip' = [trip EXCEPT ![Today] = Append(trip[Today], g)]
  BY DEF Slot
<1>2. PICK d, i : d = Today /\ i = NextSlot
  OBVIOUS
<1>3. PICK cost \in Costings : \E g \in Pick(d, i, cost) : trip' = [trip EXCEPT ![d] = Append(trip[d], g)]
  BY <1>1, <1>2
<1>4. PICK g \in Pick(d, i, cost) : trip' = [trip EXCEPT ![d] = Append(trip[d], g)]
  BY <1>3
<1> DEFINE new == <<d, i>>
<1>5. /\ trip \in Seq(Seq(Nat)) /\ trip # <<>> /\ CodesFine(Codes)
      /\ request[1].width \in Int /\ request[1].first_k \in Nat \ {0}
  BY <1>1 DEF TripInv, RunningInv, WorkerInv
<1>6. /\ g = None \/ g \in Pool(d, i)
      /\ request[1].width >= 1 /\ g = None => Pool(d, i) = {}
  BY <1>4, <1>5, PickRight
<1>7. /\ g # None => g \in Candidates(d, i) /\ g \in DOMAIN Codes /\ g \notin Chosen
      /\ g \in Nat
  BY <1>5, <1>6 DEF Pool, None, CodesFine
<1>8. OneSlotMore(trip, trip', d, i, g)
  <2>1. d = Len(trip) /\ i = Len(trip[d]) + 1
    BY <1>2 DEF Today, NextSlot
  <2> QED
    BY <1>4, <1>5, <1>7, <2>1, SlotAdds
<1>9. /\ \A s : s \in Filled' <=> s \in Filled \/ s = new
      /\ PlaceOn(new)' = g
      /\ \A s \in Filled : PlaceOn(s)' = PlaceOn(s) /\ Earlier(s, new) /\ s # new
  BY <1>8 DEF Filled, SlotsOf, PlaceOn, OneSlotMore
<1>10. /\ \A e, j : Candidates(e, j)' = Candidates(e, j)
       /\ Codes' = Codes /\ request' = request
  BY <1>1 DEF Candidates, Codes
<1>11. new[1] = d /\ new[2] = i
  OBVIOUS
<1> HIDE DEF new
<1>12. TripDistinct'
  <2>1. ASSUME NEW s \in Filled', PlaceOn(s)' # None
        PROVE  /\ PlaceOn(s)' \in Candidates(s[1], s[2]) \cap DOMAIN Codes
               /\ \A t \in Filled' \ {s} : PlaceOn(t)' # PlaceOn(s)'
    <3>1. CASE s = new
      <4>1. PlaceOn(s)' = g /\ g # None /\ g \in Candidates(s[1], s[2]) /\ g \in DOMAIN Codes
        BY <1>7, <1>9, <1>11, <2>1, <3>1
      <4>2. ASSUME NEW t \in Filled' \ {s} PROVE PlaceOn(t)' # g
        <5>1. t \in Filled /\ PlaceOn(t)' = PlaceOn(t)
          BY <1>9, <3>1, <4>2
        <5> QED
          BY <1>7, <4>1, <5>1, ChosenAre
      <4> QED
        BY <4>1, <4>2
    <3>2. CASE s \in Filled
      <4>1. PlaceOn(s)' = PlaceOn(s) /\ PlaceOn(s) # None
        BY <1>9, <2>1, <3>2
      <4>2. /\ PlaceOn(s) \in Candidates(s[1], s[2]) \cap DOMAIN Codes
            /\ \A t \in Filled \ {s} : PlaceOn(t) # PlaceOn(s)
        BY <3>2, <4>1 DEF TripInv, TripDecoded, TripDistinct
      <4>3. PlaceOn(s) # g
        BY <1>7, <3>2, <4>1, ChosenAre
      <4>4. ASSUME NEW t \in Filled' \ {s} PROVE PlaceOn(t)' # PlaceOn(s)
        BY <1>9, <4>2, <4>3, <4>4
      <4> QED
        BY <4>1, <4>2, <4>4
    <3> QED
      BY <1>9, <2>1, <3>1, <3>2
  <2> QED
    BY <1>10, <2>1 DEF TripDistinct
<1>13. EmptyOnlyIfTaken'
  <2>1. ASSUME request # <<>>, request[1].width >= 1, NEW s \in Filled', PlaceOn(s)' = None,
               NEW h \in Candidates(s[1], s[2]) \cap DOMAIN Codes
        PROVE  \E t \in Filled' : Earlier(t, s) /\ PlaceOn(t)' = h
    <3>1. CASE s = new
      <4>1. Pool(d, i) = {}
        BY <1>6, <1>9, <2>1, <3>1
      <4>2. h \in Candidates(d, i) /\ h \in DOMAIN Codes
        BY <1>11, <2>1, <3>1
      <4>3. h \in Chosen
        BY <4>1, <4>2 DEF Pool
      <4>4. PICK t \in Filled : PlaceOn(t) = h
        BY <4>3, ChosenAre
      <4> QED
        BY <1>9, <3>1, <4>4
    <3>2. CASE s \in Filled
      <4>1. PlaceOn(s) = None
        BY <1>9, <2>1, <3>2
      <4>2. PICK t \in Filled : Earlier(t, s) /\ PlaceOn(t) = h
        BY <2>1, <3>2, <4>1 DEF TripInv, TripDecoded, EmptyOnlyIfTaken
      <4> QED
        BY <1>9, <4>2
    <3> QED
      BY <1>9, <2>1, <3>1, <3>2
  <2> QED
    BY <1>10, <2>1 DEF EmptyOnlyIfTaken
<1>14. RunningInv'
  BY <1>1, <1>5, <1>8 DEF TripInv, RunningInv, OneSlotMore
<1> QED
  BY <1>12, <1>13, <1>14 DEF TripInv, TripDecoded

\* A day that is begun.
LEMMA DayTrip == ASSUME TripInv, NextDay PROVE TripInv'
<1>1. answer = "running" /\ trip' = Append(trip, <<>>) /\ UNCHANGED <<worker, request, answer>>
  BY DEF NextDay
<1>2. trip \in Seq(Seq(Nat))
  BY DEF TripInv, RunningInv
<1>3. /\ trip' \in Seq(Seq(Nat)) /\ trip' # <<>>
      /\ \A s : s \in SlotsOf(trip') <=> s \in SlotsOf(trip)
      /\ \A s \in SlotsOf(trip) : trip'[s[1]][s[2]] = trip[s[1]][s[2]]
  BY <1>1, <1>2, OneDayMore
<1>4. Filled' = Filled /\ \A s \in Filled : PlaceOn(s)' = PlaceOn(s)
  BY <1>3 DEF Filled, SlotsOf, PlaceOn
<1>5. /\ \A e, j : Candidates(e, j)' = Candidates(e, j)
      /\ Codes' = Codes /\ request' = request
  BY <1>1 DEF Candidates, Codes
<1>6. TripDistinct'
  BY <1>4, <1>5 DEF TripInv, TripDecoded, TripDistinct
<1>7. EmptyOnlyIfTaken'
  BY <1>4, <1>5 DEF TripInv, TripDecoded, EmptyOnlyIfTaken
<1>8. RunningInv'
  BY <1>1, <1>3 DEF TripInv, RunningInv
<1> QED
  BY <1>6, <1>7, <1>8 DEF TripInv, TripDecoded

\* A worker that starts, and what leaves the trip alone.
LEMMA TripStays ==
  ASSUME TripInv, UNCHANGED <<request, trip>>, worker' = worker \/ trip = <<>>,
         answer' # "running" \/ (answer' = answer /\ worker' = worker)
  PROVE  TripInv'
<1>1. RunningInv'
  BY DEF TripInv, RunningInv
<1>2. CASE trip = <<>>
  BY <1>1, <1>2, EmptyTrip DEF TripInv
<1>3. CASE worker' = worker
  BY <1>1, <1>3 DEF TripInv, TripDecoded, TripDistinct, EmptyOnlyIfTaken, Filled, PlaceOn, Candidates, Codes
<1> QED
  BY <1>2, <1>3

\* The trip stays right with every step.
LEMMA TripKept == ASSUME TripInv, WorkerInv, [ReleaseNext]_releaseVars PROVE TripInv'
<1>1. ASSUME UNCHANGED serving PROVE TripInv'
  BY <1>1, TripStays DEF serving
<1>2. ASSUME StartWorker PROVE TripInv'
  BY <1>2, TripStays DEF StartWorker, WorkerInv
<1>3. ASSUME Reply \/ SlotRaises PROVE TripInv'
  BY <1>3, TripStays DEF Reply, SlotRaises
<1>4. ASSUME Finish PROVE TripInv'
  <2>1. trip' = <<>> /\ answer' = "none"
    BY <1>4 DEF Finish
  <2> QED
    BY <2>1, EmptyTrip DEF TripInv, RunningInv
<1> QED
  BY <1>1, <1>2, <1>3, <1>4, ReceiveTrip, SlotTrip, DayTrip DEF ReleaseNext, ServingNext, releaseVars

\* For any bundle, any request and any costs: over the days of a trip no place
\* comes twice, each is a candidate of its own slot with a code, and with a
\* beam of one or more a slot stays empty only when earlier slots have taken
\* every candidate of it that has one (generation.py:42, generation.py:44).
THEOREM TripsDecoded == ReleaseSpec => []TripDecoded
<1>1. ReleaseInit => CodeInv /\ WorkerInv /\ TripInv
  <2> SUFFICES ASSUME ReleaseInit PROVE CodeInv /\ WorkerInv /\ TripInv
    OBVIOUS
  <2>1. trip = <<>> /\ answer = "none"
    BY DEF ReleaseInit, ServingInit
  <2>2. \A s : s \notin Filled
    BY <2>1, NoSlots DEF Filled, SlotsOf
  <2>3. TripInv
    BY <2>1, <2>2, NoSlots DEF TripInv, RunningInv, TripDecoded, TripDistinct, EmptyOnlyIfTaken
  <2> QED
    BY <2>3, WorkerStarts
<1>2. CodeInv /\ WorkerInv /\ TripInv /\ [ReleaseNext]_releaseVars => (CodeInv /\ WorkerInv /\ TripInv)'
  BY CodeKept, WorkerKept, TripKept
<1>3. TripInv => TripDecoded
  BY DEF TripInv
<1> QED
  BY <1>1, <1>2, <1>3, PTL DEF ReleaseSpec
=============================================================================
