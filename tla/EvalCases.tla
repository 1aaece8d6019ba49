----------------------------- MODULE EvalCases -----------------------------
(* eval_cases.py: the result files read into cases of one form, one case for *)
(* each photo and mission, counted by kind of error.  It writes nothing the  *)
(* others read, so that it is a function of the files.                       *)
EXTENDS EvalMeasure

CONSTANTS
  Relabel,        \* <<set, photo>> -> grade given on a second look, or "unclear"
  CountCommands   \* [progs, split, file, open, relabel]

ASSUME CountAssumption ==
  \A c \in CountCommands : c.split \in Sides \cup {"none"} /\ c.progs \subseteq {"a", "b"}

Judged(r) == r.reply \notin {"error", "unparsed"}

CaseType(k) ==
  IF k[3] # "negative" THEN "target_place"
  ELSE IF is_lookalike(k) THEN "lookalike" ELSE "other_place"

(* Set A: own missions count where a person labelled the photo.             *)
Counts(k) == k[3] = "positive" => k[2] \in DOMAIN LabelA

(* What a person said of the photo under the mission it was judged by; the   *)
(* lines of set B and of its augmentation carry it with them.                *)
TruthOf(k) ==
  CASE k[1] = "B" -> LabelB[k[2]]
    [] k[1] = "B_aug" -> LabelAug[k[2]]
    [] k[1] = "A" /\ k[3] = "positive" -> LabelA[k[2]]
    [] OTHER -> "fail"

(* from_a, from_b: the keys with a line in a file that is read. *)
KeysRead(c) ==
  {k \in UNION {CaseKeys[prog] : prog \in c.progs} :
     Counts(k) /\ \E prog \in c.progs : k \in CaseKeys[prog] /\ results[prog][k] # <<>>}

LinesOf(k) == results[IF k[1] = "A" THEN "a" ELSE "b"][k]

mixed_runs(c) ==
  Cardinality(UNION {{<<r.model, r.fmt>> : r \in Range(LinesOf(k))} : k \in KeysRead(c)}) > 1

\* Mutant: the first record counts, an error or not.
DedupeFirst(k) == LinesOf(k)[1]
\* Mutant: the last answer counts.
DedupeLast(k) ==
  LET s == LinesOf(k)
      answers == {i \in DOMAIN s : Judged(s[i])}
  IN  s[IF answers = {} THEN 1 ELSE Max(answers)]

(* The first answer, or the first line when there is none. *)
dedupe(k) ==
  LET s == LinesOf(k)
      answers == {i \in DOMAIN s : Judged(s[i])}
  IN  s[IF answers = {} THEN 1 ELSE Min(answers)]

(* A second look changes the truth of a photo's own missions only. *)
RelabelOf(c, k) ==
  IF c.relabel /\ CaseType(k) = "target_place" /\ <<k[1], k[2]>> \in DOMAIN Relabel
  THEN Relabel[<<k[1], k[2]>>] ELSE TruthOf(k)

apply_split(c, keys) == IF c.split = "none" THEN keys ELSE {k \in keys : k[2] \in split[c.split]}

(* The formats an EvalCase may have; a line of another one, an error or not, *)
(* ends the count.                                                           *)
Formats == {"score", "question", "question_v2", "question_v3"}

(* What is counted; the command is refused when the checks fail.             *)
Accepted(c) ==
  /\ ~split_error(c) /\ (c.split # "none" => split # <<>>)
  /\ \A k \in KeysRead(c) : \A r \in Range(LinesOf(k)) : r.fmt \in Formats
  /\ ~mixed_runs(c)

Report(c) ==
  {[key |-> k, type |-> CaseType(k), truth |-> RelabelOf(c, k), reply |-> dedupe(k).reply] :
     k \in apply_split(c, {l \in KeysRead(c) : RelabelOf(c, l) # "unclear"})}

classify(x) ==
  CASE x.type # "target_place" -> IF x.reply = "success" THEN "FP_CRITICAL" ELSE "TN"
    [] x.type = "target_place" /\ x.truth = "success" ->
         IF x.reply = "success" THEN "TP" ELSE IF x.reply = "retry" THEN "FN_LIGHT" ELSE "FN_HEAVY"
    [] OTHER -> IF x.reply # "success" THEN "TN" ELSE IF x.truth = "retry" THEN "FP_LIGHT" ELSE "FP"

(* Each rate has the cases as denominator in which its error can happen.     *)
metrics(report) ==
  LET judged == {x \in report : Judged(x)}
      n(outcome) == Cardinality({x \in judged : classify(x) = outcome})
      target(truth) == Cardinality({x \in judged : x.type = "target_place" /\ x.truth = truth})
      of(type) == {x \in judged : x.type = type}
      critical(type) == Cardinality({x \in of(type) : classify(x) = "FP_CRITICAL"})
  IN  [judged |-> Cardinality(judged),
       no_answer |-> Cardinality(report) - Cardinality(judged),
       critical_fp_other |-> <<critical("other_place"), Cardinality(of("other_place"))>>,
       critical_fp_lookalike |-> <<critical("lookalike"), Cardinality(of("lookalike"))>>,
       fp |-> <<n("FP"), target("fail")>>,
       fp_light |-> <<n("FP_LIGHT"), target("retry")>>,
       fn_heavy |-> <<n("FN_HEAVY"), target("success")>>,
       fn_light |-> <<n("FN_LIGHT"), target("success")>>,
       precision |-> <<n("TP"), n("TP") + n("FP_LIGHT") + n("FP") + n("FP_CRITICAL")>>,
       recall |-> <<n("TP"), target("success")>>]
-----------------------------------------------------------------------------
(* Until somebody opens it on purpose, nothing of the final side is seen:    *)
(* no photo of a travel that has a photo there was sent to a model, by       *)
(* either measurement, and no count that is accepted without --open-final    *)
(* shows one, in whatever order the scripts ran and died.                    *)
FinalUnseen ==
  /\ ~opened =>
       \A prog \in {"a", "b"} : \A k \in CaseKeys[prog] :
         results[prog][k] # <<>> => \A p \in split["final"] : Travel[p] # Travel[k[2]]
  /\ \A c \in CountCommands : run = NoRun /\ Accepted(c) /\ ~c.open =>
       \A x \in Report(c) : \A p \in split["final"] : Travel[p] # Travel[x.key[2]]

(* A result file is of one model and one answer format for ever, though the  *)
(* lines were written by several starts with other command lines.            *)
OneRunPerResult ==
  \A prog \in {"a", "b"} :
    \A k, l \in CaseKeys[prog] : \A i \in DOMAIN results[prog][k], j \in DOMAIN results[prog][l] :
      /\ results[prog][k][i].model = results[prog][l][j].model
      /\ results[prog][k][i].fmt = results[prog][l][j].fmt

(* A comparison of prompts never shares its file: while one runs, every line *)
(* there is of its own plan, and at any time the lines that carry a plan     *)
(* carry the one in .meta.json, also when the first start died before it     *)
(* wrote a line or a plain start appended later.                             *)
PlanAsRecorded ==
  /\ run.prog = "gen" /\ run.tag[2] # <<>> =>
       \A i \in DOMAIN missions[run.tag[1]] : missions[run.tag[1]][i].plan = run.tag[2]
  /\ \A out \in Outs : \A i \in DOMAIN missions[out] : missions[out][i].plan \in {<<>>, meta[out]}

(* Every count: a case that has an answer on file is counted once, with an   *)
(* answer, unless a second look took it out or it is of the other side; the  *)
(* passes are the true ones and the three kinds of false ones; and the       *)
(* answers for the photos a person called a success split into pass, retry   *)
(* and failure.  (A script may die at any point, so that the states between  *)
(* two scripts have every content the files can have.)                       *)
CountedOnce ==
  run = NoRun => \A c \in CountCommands : Accepted(c) =>
    LET rep == Report(c)
        m == metrics(rep)
        answered == {k \in apply_split(c, KeysRead(c)) :
                       RelabelOf(c, k) # "unclear" /\ \E r \in Range(LinesOf(k)) : Judged(r)}
    IN  /\ \A k \in answered : Cardinality({x \in rep : x.key = k /\ Judged(x)}) = 1
        /\ m.judged = Cardinality(answered)
        /\ m.precision[2] = Cardinality({x \in rep : x.reply = "success"})
        /\ m.recall[1] + m.fn_light[1] + m.fn_heavy[1] = m.recall[2]
        /\ m.precision[2] = m.precision[1] + m.fp[1] + m.fp_light[1]
                              + m.critical_fp_other[1] + m.critical_fp_lookalike[1]

(* A verdict once counted stays: no later start, retry or second mission of  *)
(* the same photo changes what a case is counted as.                         *)
VerdictStays ==
  [][\A k \in KeysA \cup KeysB :
       results[IF k[1] = "A" THEN "a" ELSE "b"][k] # <<>> /\ Judged(dedupe(k))
         => dedupe(k)' = dedupe(k)]_evalVars
-----------------------------------------------------------------------------
(* The lines of each script as a job log: set A; the augmentation; and the   *)
(* comparisons of prompts, whose lines carry a plan.                         *)
ALog == INSTANCE JobLog WITH
  Jobs <- KeysA,
  lines <- [k \in KeysA |-> [i \in DOMAIN results["a"][k] |-> results["a"][k][i].reply # "error"]]

AugLog == INSTANCE JobLog WITH
  Jobs <- DOMAIN LabelB,
  lines <- [p \in DOMAIN LabelB |-> [i \in DOMAIN aug[p] |-> aug[p][i] # "error"]]

(* The lines of s at some positions, in their order. *)
LinesAt(s, at) ==
  [n \in 1..Cardinality(at) |-> s[CHOOSE i \in at : Cardinality({j \in at : j <= i}) = n]]

PlanLines(p, out) ==
  LinesAt(missions[out],
          {i \in DOMAIN missions[out] : missions[out][i].photo = p /\ missions[out][i].plan # <<>>})

CompareLog == INSTANCE JobLog WITH
  Jobs <- PhotosB \X Outs,
  lines <- [j \in PhotosB \X Outs |->
              [i \in DOMAIN PlanLines(j[1], j[2]) |-> PlanLines(j[1], j[2])[i].ok]]

(* However often the scripts die, fail and are started again: a case of set *)
(* A that has a reply is never sent again, a photo with a written mission is *)
(* never written about again, and a comparison never makes a second mission  *)
(* for a photo.                                                              *)
JobsDoneOnce == ALog!JobSpec /\ AugLog!JobSpec /\ CompareLog!JobSpec
=============================================================================
