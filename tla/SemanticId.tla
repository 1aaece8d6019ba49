----------------------------- MODULE SemanticId -----------------------------
(* The scripts that make the model and the codes it speaks, run by a person  *)
(* one at a time and in any order over one version folder: build_days,       *)
(* split, embed, rqvae, code_dict, train_data, train, eval_model,            *)
(* export_onnx, package_bundle.  A script reads what it needs, computes, and *)
(* then writes its files one after the other; it may die between two of them *)
(* or within one.                                                            *)
EXTENDS SemanticDays

CONSTANTS
  Logs,       \* the travel log as it was and may become: [visits, meta]
  Shuffles,   \* orders the travellers may be divided in
  DBs,        \* the place table as it was and may become: place -> passes
  Codings,    \* what a training of the RQ-VAE may give: place -> levels
  Nearest,    \* what the embeddings may say: text -> [place, near]
  Losses,     \* losses on the development part, in the order of size
  PATIENCE,
  EPOCHS,
  MaxDeaths   \* bound: scripts that die

(* A table has finitely many places, none of them 0, and a coding gives each *)
(* a full code.                                                              *)
ASSUME CodingAssumption ==
  \A db \in DBs :
    /\ IsFiniteSet(DOMAIN db) /\ DOMAIN db \subseteq Nat \ {0}
    /\ \A coding \in Codings : \A g \in DOMAIN db : coding[g] \in [1..Levels -> 0..(CODEBOOK - 1)]

VARIABLES
  files,    \* file -> <<>> none, <<body>> written, Torn half written
  job,      \* the running script: [writes, train]
  learned,  \* history: travellers whose days a training has read
  judged,   \* history: travellers whose days were measured as the sealed part
  deaths

folder == <<files, job>>
semanticVars == <<folder, learned, judged, deaths>>

(* Files that no script reads (funnel.json, codes.npy) are left out. *)
Files ==
  {"days", "split", "embeddings", "texts", "embed_meta", "ids", "rqvae", "rq_meta", "dictionary",
   "places", "visit_map", "model", "model_meta", "onnx", "bundle", "bundle_onnx", "bundle_codes"}

Torn == <<"half", "written">>
Exists(f) == Len(files[f]) > 0
Whole(f) == Len(files[f]) = 1
Body(f) == files[f][1]
Put(f, body) == <<f, <<body>>>>

Idle == [writes |-> <<>>, train |-> <<>>]

(* A script that needs the files and got past its checks has these to write. *)
Script(needs, writes) ==
  /\ job = Idle
  /\ \A f \in needs : Whole(f)
  /\ job' = [Idle EXCEPT !.writes = writes]
  /\ UNCHANGED <<files, deaths>>

(* Days on file are replaced only with --overwrite. *)
write_outputs(examples, overwrite) ==
  /\ Exists("days") => overwrite
  /\ Script({}, <<Put("days", examples)>>)

BuildDays ==
  /\ \E log \in Logs, overwrite \in BOOLEAN : write_outputs(build_days(log), overwrite)
  /\ UNCHANGED <<learned, judged>>

Order(shuffled) == SelectSeq(shuffled, LAMBDA t : \E d \in Body("days") : d.traveler_id = t)

\* Mutant: the days are divided again when the log has grown.
WriteSplitAgain ==
  /\ \E shuffled \in Shuffles :
       Script({"days"}, <<Put("split", split_travelers(traveler_regions_from_days(Body("days")), Order(shuffled)))>>)
  /\ UNCHANGED <<learned, judged>>

(* The travellers are divided once, whatever the days become. *)
WriteSplit ==
  /\ ~Exists("split") /\ Whole("days")
  /\ \E shuffled \in Shuffles :
       Script({"days"}, <<Put("split", split_travelers(traveler_regions_from_days(Body("days")), Order(shuffled)))>>)
  /\ UNCHANGED <<learned, judged>>

VisitTexts == UNION {Range(d.visits) : d \in Body("days")}

(* The places of the table, and each text of the log once. *)
build_texts(db) == [db |-> DOMAIN db, log |-> VisitTexts]

Embed ==
  /\ ~Exists("embeddings") /\ Whole("days")
  /\ \E db \in DBs :
       LET items == build_texts(db)
       IN  Script({"days"}, <<Put("embeddings", items), Put("texts", items), Put("embed_meta", "meta")>>)
  /\ UNCHANGED <<learned, judged>>

(* Only the last of its files says that it is done: a run that died before   *)
(* is repeated, and may give other codes.                                    *)
TrainRqvae ==
  /\ ~Exists("rq_meta") /\ Whole("texts")
  /\ \E coding \in Codings :
       LET codes == [g \in Body("texts").db |-> coding[g]]
       IN  Script({"embeddings", "texts"},
                  <<Put("ids", assign_collision_ids(codes)), Put("rqvae", codes), Put("rq_meta", "meta")>>)
  /\ UNCHANGED <<learned, judged>>

CodeDict ==
  /\ ~Exists("dictionary") /\ Whole("ids") /\ ~DictionaryRaises(Body("ids"))
  /\ Script({"embed_meta", "rq_meta", "ids", "rqvae", "texts"}, <<Put("dictionary", build_dictionary(Body("ids")))>>)
  /\ UNCHANGED <<learned, judged>>

(* The place table with its codes, read when the script runs, and the place  *)
(* nearest to each text.                                                     *)
export_places(db, ids) ==
  [g \in DOMAIN db |-> [passes |-> db[g], code |-> IF g \in DOMAIN ids THEN <<ids[g]>> ELSE <<>>]]

nearest_places(near, items) == [t \in VisitTexts \cap items.log |-> near[t]]

\* Mutant: one of the two files is not enough to stop.
TrainDataAgain ==
  /\ Whole("ids") /\ Whole("texts") /\ Whole("days")
  /\ \E db \in DBs, near \in Nearest :
       /\ \A t \in DOMAIN near : near[t].place \in Body("texts").db
       /\ Script({"ids", "embeddings", "texts", "days"},
                 <<Put("places", export_places(db, Body("ids"))),
                   Put("visit_map", nearest_places(near, Body("texts")))>>)
  /\ UNCHANGED <<learned, judged>>

TrainData ==
  /\ ~Exists("places") /\ ~Exists("visit_map")
  /\ Whole("ids") /\ Whole("texts") /\ Whole("days")
  /\ \E db \in DBs, near \in Nearest :
       /\ \A t \in DOMAIN near : near[t].place \in Body("texts").db
       /\ Script({"ids", "embeddings", "texts", "days"},
                 <<Put("places", export_places(db, Body("ids"))),
                   Put("visit_map", nearest_places(near, Body("texts")))>>)
  /\ UNCHANGED <<learned, judged>>

(* The codes of the places that have one. *)
TrainedCodes ==
  LET coded == {g \in DOMAIN Body("places") : Body("places")[g].code # <<>>}
  IN  [g \in coded |-> Body("places")[g].code[1]]

Inputs == {"places", "visit_map", "days", "split"}

load_examples(part) == build_examples(iter_days(Body("days"), Body("split"), part), Body("visit_map"), TrainedCodes)

Targets(examples) == \E e \in examples : \E i \in DOMAIN e.targets : e.targets[i]

Inf == 99
NaN == 100

(* Training stops on a code out of range, and without a visit to learn from; *)
(* without one to measure on, every loss is 0.                               *)
Train ==
  /\ job = Idle /\ ~Exists("model") /\ \A f \in Inputs : Whole(f)
  /\ LET train == load_examples("train")
         dev == load_examples("dev")
     IN  /\ ~EncodeRaises(train \cup dev, TrainedCodes) /\ Targets(train)
         /\ learned' = learned \cup {e.traveler_id : e \in train \cup dev}
         /\ job' = [Idle EXCEPT !.train = <<[best |-> Inf, bad |-> 0, epoch |-> 0,
                                         codes |-> TrainedCodes, measured |-> Targets(dev)]>>]
  /\ UNCHANGED <<files, judged, deaths>>

(* An epoch: a better loss is saved at once, the account at the end. *)
Epoch ==
  /\ job.writes = <<>> /\ job.train # <<>>
  /\ \E dev_loss \in IF job.train[1].measured THEN Losses \cup {NaN} ELSE {0} :
       LET now == job.train[1]
           better == dev_loss < now.best
           best == IF better THEN dev_loss ELSE now.best
           bad == IF better THEN 0 ELSE now.bad + 1
           ended == bad >= PATIENCE \/ now.epoch + 1 = EPOCHS
       IN  job' = [writes |-> (IF better THEN <<Put("model", [codes |-> now.codes, loss |-> dev_loss])>> ELSE <<>>)
                                \o (IF ended THEN <<Put("model_meta", [best_dev_loss |-> best])>> ELSE <<>>),
                   train |-> IF ended THEN <<>>
                             ELSE <<[now EXCEPT !.best = best, !.bad = bad, !.epoch = @ + 1]>>]
  /\ UNCHANGED <<files, learned, judged, deaths>>

(* A measurement; the sealed part only when it is opened. *)
EvalModel ==
  \E part \in {"dev", "final"}, open_final \in BOOLEAN :
    /\ ~SealBroken(part, open_final) /\ \A f \in Inputs : Whole(f)
    /\ ~EncodeRaises(load_examples(part), TrainedCodes)
    /\ judged' = judged \cup (IF part = "final" THEN {e.traveler_id : e \in load_examples(part)} ELSE {})
    /\ Script(Inputs, <<>>)
    /\ UNCHANGED learned

ExportOnnx ==
  /\ ~Exists("onnx") /\ Whole("model")
  /\ Script({"model"}, <<Put("onnx", Body("model"))>>)
  /\ UNCHANGED <<learned, judged>>

(* The folder of the bundle is made first; with no model.onnx to copy the    *)
(* script stops there, and no later run gets past it.                        *)
Package ==
  /\ ~Exists("bundle") /\ Whole("places") /\ Whole("model_meta")
  /\ LET codes == [g \in {h \in DOMAIN TrainedCodes : Body("places")[h].passes} |-> TrainedCodes[g]]
         version == [best_dev_loss |-> Body("model_meta").best_dev_loss]
     IN  Script({"places", "model_meta"},
                IF Exists("onnx")
                THEN <<Put("bundle", "folder"), <<"bundle_onnx", files["onnx"]>>,
                       Put("bundle_codes", [version |-> version, codes |-> codes])>>
                ELSE <<Put("bundle", "folder")>>)
  /\ UNCHANGED <<learned, judged>>

(* The running script writes its next file, *)
WriteNext ==
  /\ job.writes # <<>>
  /\ files' = [files EXCEPT ![Head(job.writes)[1]] = Head(job.writes)[2]]
  /\ job' = [job EXCEPT !.writes = Tail(@)]
  /\ UNCHANGED <<learned, judged, deaths>>

(* or dies: before it, or within it. *)
Die ==
  /\ job # Idle /\ deaths < MaxDeaths
  /\ job' = Idle /\ deaths' = deaths + 1
  /\ \/ UNCHANGED files
     \/ job.writes # <<>> /\ files' = [files EXCEPT ![Head(job.writes)[1]] = Torn]
  /\ UNCHANGED <<learned, judged>>

SemanticInit ==
  /\ files = [f \in Files |-> <<>>] /\ job = Idle
  /\ learned = {} /\ judged = {} /\ deaths = 0

SemanticNext ==
  \/ BuildDays \/ WriteSplit \/ Embed \/ TrainRqvae \/ CodeDict \/ TrainData
  \/ Train \/ Epoch \/ EvalModel \/ ExportOnnx \/ Package \/ WriteNext \/ Die

(* No traveller of the sealed part that a measurement opened was ever seen   *)
(* by a training, for fitting or for choosing the best epoch, although the   *)
(* days may be built again at any time (build_days.py --overwrite,           *)
(* split.py:97, train.py:24).                                                *)
FinalUnread == learned \cap judged = {}

(* What a bundle holds belongs together, whatever died on the way: every     *)
(* code is the one the model learnt the place by, and the loss it names, if  *)
(* it is one, is the model's own (package_bundle.py:31, train_data.py:129,   *)
(* train.py:122).                                                            *)
BundleAsTrained ==
  Whole("bundle_onnx") /\ Whole("bundle_codes") =>
    LET model == Body("bundle_onnx")
        bundle == Body("bundle_codes")
    IN  /\ \A g \in DOMAIN bundle.codes : g \in DOMAIN model.codes /\ bundle.codes[g] = model.codes[g]
        /\ bundle.version.best_dev_loss \in {model.loss, Inf}

(* No two places share a code in the dictionary's source, and while no       *)
(* script dies the dictionary and the trained model name each place alike    *)
(* (rqvae.py:160, code_dict.py:26).                                          *)
DictionaryFits ==
  /\ Whole("ids") => ~DictionaryRaises(Body("ids"))
  /\ Whole("dictionary") /\ Whole("places") /\ deaths = 0 =>
       \A g \in DOMAIN TrainedCodes :
         TrainedCodes[g] \in DOMAIN Body("dictionary") /\ Body("dictionary")[TrainedCodes[g]] = g

(* One coding goes through all of it: the dictionary, the training and the   *)
(* bundle name each place alike.                                             *)
OneCoding == DictionaryFits /\ BundleAsTrained
=============================================================================
