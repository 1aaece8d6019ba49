------------------------------ MODULE TrainSet ------------------------------
(* The training set, from photos to examples: the photos TrainPhotos chose,  *)
(* the missions TrainMissions wrote for them, what a person said of each     *)
(* mission, and build_train_dataset.py, which joins the mission files with   *)
(* the labels.  One person runs the scripts one after the other.             *)
EXTENDS TrainMissions

CONSTANTS
  Verdicts    \* what a person may say: [grade, nearDup, byRule]

VARIABLES
  examples    \* rows of train.json: [id, photo]; {} before it is built

trainVars == <<missionVars, examples>>

RowsIn(name) == IF name \in DOMAIN files THEN files[name].rows ELSE <<>>

(* Three mission files: the writer's, the reused pilot missions, and two     *)
(* missions for every look-alike photo.                                      *)
WriterIds == {Id(log[i]) : i \in DOMAIN log}

\* Mutant: the pilot's own mission file instead of the part reused.
PilotIdsAll == {<<p, "pw">> : p \in pilot}

PilotIds == IF "pilot_reuse" \in DOMAIN files THEN {<<p, "pw">> : p \in files["pilot_reuse"].rows} ELSE {}
lookalike_missions ==
  {<<RowsIn("lookalike")[i].photo, kind>> : i \in DOMAIN RowsIn("lookalike"), kind \in {"own", "wrong"}}

merge_missions == WriterIds \cup PilotIds \cup lookalike_missions
SameIdTwice ==
  WriterIds \cap PilotIds # {} \/ (WriterIds \cup PilotIds) \cap lookalike_missions # {}

(* Missions a person has to label: those with a text. *)
Readable == merge_missions \ {Id(log[i]) : i \in {j \in DOMAIN log : ~log[j].usable}}

(* A person labels the missions on file; a label given stays.  Bound: the    *)
(* missions that are not the writer's are all a success.                     *)
Label ==
  /\ script = "idle" /\ phase = "off" /\ log # <<>> /\ Readable \ DOMAIN label # {}
  /\ \E said \in [(Readable \cap WriterIds) \ DOMAIN label -> Verdicts] :
       label' = [m \in Readable \cup DOMAIN label |->
                   IF m \in DOMAIN label THEN label[m]
                   ELSE IF m \in DOMAIN said THEN said[m]
                   ELSE [grade |-> "success", nearDup |-> FALSE, byRule |-> TRUE]]
  /\ UNCHANGED <<photoVars, writerVars, examples>>

(* The labels that become examples: decided, no near duplicate of another    *)
(* photo, and with the grade the rules give the answers.                     *)
select ==
  {m \in DOMAIN label \cap merge_missions :
     /\ label[m].grade \notin {"none", "unclear", "hold"}
     /\ ~label[m].nearDup /\ label[m].byRule}

BuildDataset ==
  /\ script = "idle" /\ phase = "off" /\ log # <<>>
  /\ ~SameIdTwice /\ Readable \subseteq DOMAIN label
  /\ examples' = {[id |-> m, photo |-> m[1]] : m \in select}
  /\ UNCHANGED missionVars

TrainInit == PhotoInit /\ MissionInit /\ examples = {}

(* Bound: the photos are chosen before the writer starts, and the set is     *)
(* built once, last.                                                         *)
PhotoStep == PhotoNext /\ starts = 0 /\ UNCHANGED <<writerVars, label, examples>>
WriterStep == WriterNext /\ UNCHANGED examples

TrainNext == examples = {} /\ (PhotoStep \/ WriterStep \/ Label \/ BuildDataset)

TrainSpec == TrainInit /\ [][TrainNext]_trainVars
-----------------------------------------------------------------------------
(* End to end: no photo of a travel that was excluded or reserved, no photo  *)
(* whose file is in the evaluation set, and no file twice reaches the        *)
(* training set, and a travel has no more photos in it than the cap, though  *)
(* three files written by two scripts are joined.                            *)
TrainingSetClean ==
  LET photos == {e.photo : e \in examples}
      kept == IF "reserve" \in DOMAIN files THEN files["reserve"].rows ELSE {}
  IN  /\ \A p \in photos : /\ Travel[p] \notin Excluded /\ Hash[p] \notin EvalHashes \cup DiagHashes
                           /\ Travel[p] \notin kept
      /\ \A p, q \in photos : p # q => Hash[p] # Hash[q]
      /\ \A p \in photos : Cardinality({q \in photos : Travel[q] = Travel[p]}) <= MaxPerTravel

(* What several starts and scripts wrote fits together: the files are of one *)
(* run, a mission id has one record, and a changed condition belongs to a    *)
(* usable mission on file (build_train_550.py, write_train_missions.py).     *)
RecordsFit == OneRunPerFolder /\ OneRecordPerMission /\ SwapOfKnownMission

(* From the choice of photos to the examples nothing barred gets in, nothing *)
(* comes twice, and fresh travels come first.                                *)
TrainingSound == ChoiceFair /\ TrainingSetClean
=============================================================================
