---------------------------- MODULE EvalMeasure ----------------------------
(* The measurements: baseline_verify.py asks a model about the cases of set  *)
(* A, measure_eval_b.py about those of set B and its augmentation, each once *)
(* per call and with no retry.  Every reply is a line of the result file; a  *)
(* later start skips the cases with a line that is no error.                 *)
EXTENDS EvalMissions

CONSTANTS
  PlaceOf,        \* photo on the list of set A that was found -> place
  Rank,           \* such photo -> position in the shuffled pool of its place
  OtherOf,        \* such photo -> the other place drawn for it
  Landmarks,      \* the places of set A
  LOOKALIKE,      \* two of them that look alike
  Grades,         \* grades an answer amounts to
  MeasureCommands \* [prog, model, fmt, split, file, open, cap] and, for set A,
                  \* perPlace, all, look, positives, for set B, sets

ASSUME MeasureAssumption ==
  /\ \A c \in MeasureCommands : c.split \in Sides \cup {"none"}
  /\ IsFiniteSet(DOMAIN PlaceOf) /\ IsFiniteSet(Landmarks)

VARIABLES
  results,  \* "a", "b" -> case key -> lines: [model, fmt, reply]
  opened    \* history: some measurement was started with --open-final

evalVars == <<split, missionVars, run, started, results, opened>>

KeysA == {<<"A", p, kind, place>> : p \in DOMAIN PlaceOf, kind \in {"positive", "negative"}, place \in Landmarks}
KeysB == {<<"B", p, "eval_b", "own">> : p \in DOMAIN LabelB}
           \cup {<<"B_aug", p, "eval_b", "own">> : p \in DOMAIN LabelAug}
CaseKeys == [prog \in {"a", "b"} |-> IF prog = "a" THEN KeysA ELSE KeysB]

(* A case of set A: the mission of the place itself, and of one other place *)
(* or of all.                                                                *)
build_cases(c) ==
  UNION {
    {<<"A", p, "positive", PlaceOf[p]>>}
      \cup {<<"A", p, "negative", o>> : o \in IF c.all THEN Landmarks \ {PlaceOf[p]} ELSE {OtherOf[p]}}
    : p \in {q \in DOMAIN PlaceOf : Rank[q] <= c.perPlace}}

is_lookalike(k) == k[3] = "negative" /\ {PlaceOf[k[2]], k[4]} = LOOKALIKE

(* --lookalike-only; the same photos' own missions come --with-positives. *)
lookalike_cases(keys, positives) ==
  {k \in keys : \/ is_lookalike(k)
                \/ positives /\ k[3] = "positive" /\ \E l \in keys : l[2] = k[2] /\ is_lookalike(l)}

CasesA(c) ==
  {[key |-> k, mission |-> 0] :
     k \in {l \in IF c.look THEN lookalike_cases(build_cases(c), c.positives) ELSE build_cases(c) :
              c.fmt = "identify" => l[3] = "positive"}}

(* eval_b_aug.json: the usable written missions a person gave a grade; one   *)
(* that is not looked at yet might as well not be written yet.               *)
AugItems == {p \in DOMAIN LabelAug : \E i \in DOMAIN aug[p] : aug[p][i] = "usable"}

(* A case of set B for every mission on file of a labelled photo: two of     *)
(* them when a photo has two missions.                                       *)
CasesB ==
  LET ms == missions["missions"]
  IN  {[key |-> <<"B", ms[i].photo, "eval_b", "own">>, mission |-> i] :
         i \in {j \in DOMAIN ms : ms[j].ok /\ ms[j].photo \in DOMAIN LabelB}}
        \cup {[key |-> <<"B_aug", p, "eval_b", "own">>, mission |-> 0] : p \in AugItems}

Cases(c) ==
  {x \in IF c.prog = "a" THEN CasesA(c) ELSE {y \in CasesB : y.key[1] \in c.sets} :
     c.split # "none" => x.key[2] \in split[c.split]}

\* Mutant: the records on file are not looked at.
OutConflictNever(c) == FALSE

(* Lines of another model or format in the file. *)
out_conflict(c) ==
  \E k \in CaseKeys[c.prog] : \E i \in DOMAIN results[c.prog][k] :
    results[c.prog][k][i].model # c.model \/ results[c.prog][k][i].fmt # c.fmt

\* Mutant: only an answer in the asked form counts as done.
DoneIfParsed(prog, k) ==
  \E i \in DOMAIN results[prog][k] : results[prog][k][i].reply \notin {"error", "unparsed"}

(* A reply off the schema is a reply: it is not asked for again. *)
Done(prog, k) == \E i \in DOMAIN results[prog][k] : results[prog][k][i].reply # "error"

Start(c) ==
  /\ ~split_error(c) /\ (c.split # "none" => split # <<>>)
  /\ c.prog = "a" /\ c.positives => c.look
  /\ ~out_conflict(c)
  /\ Begin(c.prog, <<c.model, c.fmt>>, {x \in Cases(c) : ~Done(c.prog, x.key)}, c.cap)
  /\ opened' = (opened \/ c.open)
  /\ UNCHANGED <<split, missionVars, results>>

StartA == \E c \in MeasureCommands : c.prog = "a" /\ Start(c)
StartB == \E c \in MeasureCommands : c.prog = "b" /\ Start(c)

(* The three ends of a call: an exception (a photo that cannot be read, too),*)
(* a reply off the schema, an answer.                                        *)
judge == {"error", "unparsed"} \cup Grades

Call(prog) ==
  /\ run.prog = prog
  /\ \E x \in run.todo, reply \in judge :
       /\ results' = [results EXCEPT ![prog][x.key] =
            Append(@, [model |-> run.tag[1], fmt |-> run.tag[2], reply |-> reply])]
       /\ run' = [run EXCEPT !.todo = @ \ {x}]
  /\ UNCHANGED <<split, missionVars, started, opened>>

CallA == Call("a")
CallB == Call("b")

(* The script ends when nothing is left to do, or dies before. *)
EndScript ==
  /\ run # NoRun /\ run' = NoRun
  /\ UNCHANGED <<split, missionVars, started, results, opened>>

EvalInit ==
  /\ split = <<>>
  /\ missions = [o \in Outs |-> <<>>] /\ meta = [o \in Outs |-> <<>>]
  /\ aug = [p \in DOMAIN LabelB |-> <<>>]
  /\ run = NoRun /\ started = 0
  /\ results = [prog \in {"a", "b"} |-> [k \in CaseKeys[prog] |-> <<>>]]
  /\ opened = FALSE

SplitStep == SplitOnce /\ run = NoRun /\ UNCHANGED <<missionVars, run, started, results, opened>>
MissionStep == (StartGen \/ CallBatch \/ StartAug \/ WriteMission) /\ UNCHANGED <<results, opened>>

EvalNext == SplitStep \/ MissionStep \/ StartA \/ StartB \/ CallA \/ CallB \/ EndScript

EvalSpec == EvalInit /\ [][EvalNext]_evalVars
=============================================================================
