-------------------------- MODULE TrainingPipeline --------------------------
(***************************************************************************)
(* The gated training run, shelfwise/training: a shakedown builds its       *)
(* datasets from the simulated world, checks the machine, trains an adapter *)
(* twice, evaluates what the adapter generates, probes the served model and *)
(* writes one report that says whether either is ready. An exception        *)
(* anywhere ends the run without a report.                                  *)
(*                                                                          *)
(* Several shakedowns may run beside each other and use each other's        *)
(* adapters, in directories named after the second they are made in; each   *)
(* may be killed at any step. Training, generation and the endpoint are     *)
(* external: they may do well, badly or fail.                               *)
(***************************************************************************)
EXTENDS Naturals, Sequences, FiniteSets, FiniteSetsExt, SequencesExt

CONSTANTS
    Runs,                 \* the shakedowns
    Profiles,             \* profile name |-> [model, size, default]
    Settings,             \* the configurations: [profile, model, revision, gate_mode, timestamp,
                          \*   resume, require_tool, mixture, modality_required, endpoint]
    Commands,             \* run |-> its command line, the cases: [config, dry_run,
                          \*   skip_preflight, skip_training, skip_serving_check, adapter]
    OldAdapters,          \* place |-> an adapter that is already there
    TrainExamples, EvalExamples,
    Lengths,              \* <<prompt, completion>>, the tokens of the rows in turn
    MAX_SEQ_LENGTH,
    MinRisk, MinActionability, MinGrounding, MaxEcho,   \* the gate, in hundredths
    Answers,              \* what a model may generate for a row, see Score
    ProbeReplies,              \* what the endpoint may answer, see Probe
    Files,                \* the sets of evidence types whose files may be there
    MaxSecond,
    Absent

-----------------------------------------------------------------------------
(* Configuration. *)

\* _load_simple_yaml and load_training_config give a value to every setting;
\* validate_training_config is what every stage demands of them.
ValidSettings(c) ==
    /\ c.profile \in DOMAIN Profiles /\ c.model = Profiles[c.profile].model
    /\ c.revision # Absent
    /\ c.gate_mode \in {"metadata_only", "generated_inference"}
    /\ \A m \in DOMAIN c.mixture : c.mixture[m] > 0
    /\ MapThenSumSet(LAMBDA m : c.mixture[m], DOMAIN c.mixture) = 100

VARIABLES
    training,   \* run |-> [at, dir, rows, batch, place, inference, answers, summary, serving, stages]
    options,    \* run |-> its command line
    adapters,   \* place |-> the adapter directory, or Absent
    dirs,       \* the run directories there are, [name, by]
    registry,   \* evaluation id |-> [pass_rate, gate_passed]
    reports,    \* run |-> shakedown_report.json, or Absent
    second,
    files,      \* the evidence types whose files are there
    loaded      \* history: adapters that were put on a base model, [truth, base, revision]

trainingVars == <<training, options, adapters, dirs, registry, reports, second, files, loaded>>

ConfigOf(s) == options[s].config
Go(s, at) == training' = [training EXCEPT ![s].at = at]
Fail(s) == Go(s, "failed")
At(s, at) == training[s].at = at

-----------------------------------------------------------------------------
(* The datasets: simulation.py writes them, dataset.py reads them. *)

CASE_TYPES ==
    <<"damaged goods", "missing stock", "supplier delay", "fake proof", "voice complaint",
      "customer dispute", "proof mismatch", "quality failure", "reconciliation",
      "supplier pattern", "safe transaction", "missing evidence", "expiry markdown",
      "temperature breach", "price mismatch">>

\* _case_type
CaseType(label) ==
    CASE label \in {"damaged goods", "quality failure"} -> "shipment_damage"
      [] label \in {"supplier delay", "supplier pattern"} -> "supplier_risk"
      [] label \in {"missing stock", "reconciliation"} -> "stock_discrepancy"
      [] label \in {"fake proof", "proof mismatch"} -> "delivery_dispute"
      [] label = "voice complaint" -> "compliance_evidence"
      [] label = "expiry markdown" -> "expiry_markdown"
      [] label = "temperature breach" -> "cold_chain_risk"
      [] label = "price mismatch" -> "price_integrity"
      [] OTHER -> "general"

\* _risk_level
RiskLevel(label) ==
    CASE label \in {"damaged goods", "voice complaint", "fake proof", "supplier pattern",
                    "quality failure", "temperature breach"} -> "high"
      [] label = "safe transaction" -> "low"
      [] OTHER -> "medium"

\* _world_event, as far as the expected output depends on it.
WorldEvent(label, refrigerated) ==
    [short |-> label \in {"proof mismatch", "missing stock"},
     hot   |-> refrigerated /\ label # "safe transaction"]

\* _expected_output: how many actions and how much missing information.
ExpectedOutput(label, event) ==
    [risk_level |-> RiskLevel(label),
     actions |-> CASE label = "safe transaction" -> 2
                   [] label \in {"expiry markdown", "temperature breach", "price mismatch"} -> 3
                   [] OTHER -> 2 + Cardinality({f \in {"short", "hot"} : event[f]})
                                 + (IF label = "missing evidence" THEN 1 ELSE 0),
     missing |-> IF label = "missing evidence" THEN 3 ELSE 0]

EVIDENCE_BY_CASE(label) ==
    (CASE label = "damaged goods" -> <<"image", "video">>
       [] label = "voice complaint" -> <<"audio">>
       [] label \in {"customer dispute", "proof mismatch"} -> <<"screenshot">>
       [] OTHER -> <<>>)
    \o (IF label \in {"proof mismatch", "expiry markdown", "temperature breach", "price mismatch"}
        THEN <<"structured_json">> ELSE <<>>)

\* _evidence
Evidence(label) == Append(EVIDENCE_BY_CASE(label), "structured_json")

\* _row_from_event
RowFromEvent(i, label, event) ==
    [id |-> i, case_type |-> CaseType(label), evidence |-> Evidence(label),
     expected |-> ExpectedOutput(label, event), data_domain |-> "world_simulation",
     length |-> Lengths[(i % Len(Lengths)) + 1]]

\* _generate_rows: the labels in turn. Bound: all products are refrigerated, or none is.
GenerateRows(refrigerated) ==
    [n \in 1 .. TrainExamples + EvalExamples |->
       LET label == CASE_TYPES[((n - 1) % Len(CASE_TYPES)) + 1]
       IN RowFromEvent(n - 1, label, WorldEvent(label, refrigerated))]

\* require_training_domain
TRAINING_DOMAINS == {"world_simulation", "training_fixture"}

\* parse_training_row, strictly: the evidence is there, the domain may be trained on.
RowLoads(row) ==
    /\ \A i \in DOMAIN row.evidence : row.evidence[i] \in files
    /\ row.expected.risk_level \in {"low", "medium", "high", "critical"}
    /\ row.data_domain \in TRAINING_DOMAINS

\* load_training_rows: one bad row refuses the file, and so does an empty file.
LoadsStrictly(rows) == rows # <<>> /\ \A i \in DOMAIN rows : RowLoads(rows[i])

\* summarize_rows
Modalities(rows) == UNION {Range(rows[i].evidence) : i \in DOMAIN rows}

TrainRows(s) == SubSeq(training[s].rows, 1, TrainExamples)
EvalRows(s) == SubSeq(training[s].rows, TrainExamples + 1, Len(training[s].rows))

-----------------------------------------------------------------------------
(* Examples, in collator.py. A token is <<kind, number>>. *)

MASK == <<"mask", 0>>
PAD == <<"pad", 0>>
Tokens(kind, n) == [i \in 1 .. n |-> <<kind, i>>]

\* What is kept of a sequence that is too long: its end.
\* Mistake: its beginning.
KeptFirst(seq) == SubSeq(seq, 1, Min({Len(seq), MAX_SEQ_LENGTH}))
Kept(seq) ==
    IF Len(seq) <= MAX_SEQ_LENGTH THEN seq
    ELSE SubSeq(seq, Len(seq) - MAX_SEQ_LENGTH + 1, Len(seq))

\* build_tokenized_example: the prompt is masked, the completion, which ends in the
\* end-of-sequence token, is what is learned.
TokenizedExample(row) ==
    LET prompt == Tokens("prompt", row.length[1])
        completion == Tokens("completion", row.length[2])
    IN [input_ids |-> Kept(prompt \o completion),
        labels |-> Kept([i \in DOMAIN prompt |-> MASK] \o completion),
        last |-> completion[Len(completion)]]

\* ShelfWiseDataCollator, with pad_left.
Collate(examples) ==
    LET longest == Max({Len(examples[i].input_ids) : i \in DOMAIN examples})
        Padding(e, with) == [i \in 1 .. longest - Len(e.input_ids) |-> with]
    IN [i \in DOMAIN examples |->
          LET e == examples[i]
          IN [input_ids |-> Padding(e, PAD) \o e.input_ids,
              labels |-> Padding(e, MASK) \o e.labels,
              attention |-> Padding(e, 0) \o [j \in DOMAIN e.input_ids |-> 1],
              last |-> e.last]]

-----------------------------------------------------------------------------
(* Adapters, in compatibility.py. *)

\* profile_for_model
ProfilesOf(base) == {p \in DOMAIN Profiles : Profiles[p].model = base}

\* read_adapter_identity: the manifest, where there is one, must not contradict PEFT's
\* own configuration, which names the base model and maybe the revision.
MetadataAgrees(a) ==
    /\ ProfilesOf(a.peft.base) # {}
    /\ a.manifest # Absent =>
         /\ a.manifest.base = a.peft.base
         /\ a.manifest.profile \in ProfilesOf(a.peft.base)
         /\ a.manifest.size = Profiles[a.manifest.profile].size
         /\ Absent \notin {a.peft.revision, a.manifest.revision} =>
                a.peft.revision = a.manifest.revision

\* Mistake: only the manifest is asked for the revision.
ManifestRevision(a) == IF a.manifest # Absent THEN a.manifest.revision ELSE Absent
KnownRevision(a) ==
    IF a.manifest # Absent /\ a.manifest.revision # Absent THEN a.manifest.revision
    ELSE a.peft.revision

\* validate_adapter_compatibility: an adapter of unknown revision goes with the default one.
Compatible(a, c) ==
    /\ MetadataAgrees(a)
    /\ \A p \in ProfilesOf(a.peft.base) : Profiles[p].size = Profiles[c.profile].size
    /\ a.peft.base = c.model
    /\ c.revision = IF KnownRevision(a) = Absent THEN Profiles[c.profile].default ELSE KnownRevision(a)

\* save_pretrained of the model; truth is history. The tokenizer is saved next to it, and
\* a processor that nothing here reads.
SavedAdapter(c) ==
    [peft |-> [base |-> c.model, revision |-> c.revision], manifest |-> Absent, tokens |-> Absent,
     truth |-> [base |-> c.model, revision |-> c.revision]]
WithTokenizer(a) == [a EXCEPT !.tokens = TRUE]

\* write_adapter_manifest
Manifest(c) == [base |-> c.model, profile |-> c.profile, size |-> Profiles[c.profile].size,
                revision |-> c.revision]
WithManifest(a, c) == [a EXCEPT !.manifest = Manifest(c)]
FinishedAdapter(c) == WithManifest(WithTokenizer(SavedAdapter(c)), c)

\* An adapter that was there before is what its metadata say, or else of the default revision.
MadeAsSaid(a) ==
    /\ a.truth.base = a.peft.base
    /\ \A p \in ProfilesOf(a.peft.base) :
          a.truth.revision = IF KnownRevision(a) = Absent THEN Profiles[p].default
                             ELSE KnownRevision(a)

\* An adapter is put on the base model of a configuration.
Load(a, c) == loaded' = loaded \cup {[truth |-> a.truth, base |-> c.model, revision |-> c.revision]}

-----------------------------------------------------------------------------
(* A shakedown. *)

NewRun == [at |-> "new", dir |-> Absent, rows |-> <<>>, batch |-> <<>>, place |-> Absent,
           inference |-> FALSE, answers |-> <<>>, summary |-> Absent, serving |-> Absent,
           stages |-> <<>>]

Places == DOMAIN OldAdapters \cup (Runs \X {"smoke", "full"})

TrainingAssumption ==
    /\ \A c \in Settings : ValidSettings(c)
    /\ \A o \in Commands : DOMAIN o = Runs /\ \A s \in Runs :
          /\ o[s].config \in Settings
          /\ {o[s].config.resume, o[s].adapter} \subseteq Places \cup {Absent}
    /\ {TrainExamples, EvalExamples, MAX_SEQ_LENGTH} \subseteq Nat \ {0}
    /\ Lengths \in Seq(Nat \X (Nat \ {0})) /\ Lengths # <<>>
    /\ {MinRisk, MinActionability, MinGrounding, MaxEcho} \subseteq 0 .. 100
    /\ DOMAIN OldAdapters \cap (Runs \X {"smoke", "full"}) = {}
    /\ \A p \in DOMAIN OldAdapters : MadeAsSaid(OldAdapters[p])
    /\ Absent \notin ProbeReplies
    /\ \A c \in Settings :
          Absent \notin {Manifest(c), SavedAdapter(c), WithTokenizer(SavedAdapter(c)), FinishedAdapter(c)}
    /\ MaxSecond \in Nat

TrainingInit ==
    /\ training = [s \in Runs |-> NewRun] /\ options \in Commands
    /\ adapters = [p \in Places |-> IF p \in DOMAIN OldAdapters THEN OldAdapters[p] ELSE Absent]
    /\ dirs = {} /\ registry = <<>> /\ reports = [s \in Runs |-> Absent] /\ second = 0
    /\ files \in Files /\ loaded = {}

\* timestamped_run_dir looks for a name that is free ...
Candidate(s) ==
    LET stamp == IF ConfigOf(s).timestamp THEN second ELSE 0
        taken == {d.name[2] : d \in {e \in dirs : e.name[1] = stamp}}
    IN <<stamp, Min((1 .. Cardinality(Runs) + 1) \ taken)>>
ChooseDirectory(s) ==
    /\ At(s, "new")
    /\ training' = [training EXCEPT ![s].at = "mkdir", ![s].dir = Candidate(s)]
    /\ UNCHANGED <<options, adapters, dirs, registry, reports, second, files, loaded>>

\* ... and makes it, which fails when another run was faster.
\* Mistake: a directory that is there will do.
AnyDirectory(s) == TRUE
DirectoryIsNew(s) == \A d \in dirs : d.name # training[s].dir
MakeDirectory(s) ==
    /\ At(s, "mkdir")
    /\ IF DirectoryIsNew(s)
       THEN Go(s, "dataset") /\ dirs' = dirs \cup {[name |-> training[s].dir, by |-> s]}
       ELSE Fail(s) /\ UNCHANGED dirs
    /\ UNCHANGED <<options, adapters, registry, reports, second, files, loaded>>

\* The stage that follows, and its entry in the report.
AfterPreflight(s) == IF options[s].skip_training THEN "evaluate" ELSE "smoke"
AfterDataset(s) ==
    IF options[s].dry_run THEN "evaluate"
    ELSE IF options[s].skip_preflight THEN AfterPreflight(s) ELSE "preflight"
Stage(s, name, next) ==
    training' = [training EXCEPT ![s].at = next, ![s].stages = Append(@, name)]

\* build_shakedown_datasets
BuildDatasets(s) ==
    /\ At(s, "dataset")
    /\ \E refrigerated \in BOOLEAN :
          LET rows == GenerateRows(refrigerated)
          IN IF LoadsStrictly(rows)
             THEN training' = [training EXCEPT ![s].at = AfterDataset(s), ![s].rows = rows,
                                     ![s].stages = Append(@, "simulation_dataset_generation")]
             ELSE Fail(s)
    /\ UNCHANGED <<options, adapters, dirs, registry, reports, second, files, loaded>>

\* run_preflight: the machine, modalities, tokens and target modules may be refused; the
\* tiny adapter it saves and reloads is its own.
PreflightPasses(s, machine) ==
    /\ machine
    /\ ConfigOf(s).modality_required => {"image", "audio", "video"} \subseteq Modalities(TrainRows(s))
    /\ Compatible(FinishedAdapter(ConfigOf(s)), ConfigOf(s))
Preflight(s) ==
    /\ At(s, "preflight")
    /\ \E machine \in BOOLEAN :
          IF PreflightPasses(s, machine) THEN Stage(s, "preflight", AfterPreflight(s)) ELSE Fail(s)
    /\ UNCHANGED <<options, adapters, dirs, registry, reports, second, files, loaded>>

-----------------------------------------------------------------------------
(* Training, run_training, first a few steps and then all of them. *)

Saved == [smoke |-> "smoke_saved", full |-> "full_saved"]
Tokenized == [smoke |-> "smoke_tokenized", full |-> "full_tokenized"]
Named == [smoke |-> "smoke_train", full |-> "full_train"]
Following == [smoke |-> "full", full |-> "evaluate"]

\* A checkpoint to resume from is checked before anything else; then the batches are made
\* and trained on, until the steps are done or the time budget is spent.
Train(s, stage) ==
    LET c == ConfigOf(s)
        resumed == IF c.resume = Absent THEN Absent ELSE adapters[c.resume]
    IN /\ At(s, stage)
       /\ IF (c.resume # Absent /\ resumed = Absent) \/ (resumed # Absent /\ ~Compatible(resumed, c))
          THEN Fail(s) /\ UNCHANGED <<adapters, loaded>>
          ELSE \E finite \in BOOLEAN :
                 /\ IF resumed # Absent THEN Load(resumed, c) ELSE UNCHANGED loaded
                 /\ training' = [training EXCEPT
                        ![s].at = IF finite THEN Saved[stage] ELSE "failed",
                        ![s].batch = Collate([i \in 1 .. TrainExamples |->
                                                TokenizedExample(TrainRows(s)[i])])]
                 /\ adapters' = IF finite THEN [adapters EXCEPT ![<<s, stage>>] = SavedAdapter(c)]
                                ELSE adapters
       /\ UNCHANGED <<options, dirs, registry, reports, second, files>>

SaveTokenizer(s, stage) ==
    /\ At(s, Saved[stage]) /\ Go(s, Tokenized[stage])
    /\ adapters' = [adapters EXCEPT ![<<s, stage>>] = WithTokenizer(@)]
    /\ UNCHANGED <<options, dirs, registry, reports, second, files, loaded>>

\* The manifest is written into the adapter that was saved, and the whole checked.
FinishAdapter(s, stage) ==
    LET a == WithManifest(adapters[<<s, stage>>], ConfigOf(s))
    IN /\ At(s, Tokenized[stage])
       /\ adapters' = [adapters EXCEPT ![<<s, stage>>] = a]
       /\ IF Compatible(a, ConfigOf(s)) THEN Stage(s, Named[stage], Following[stage]) ELSE Fail(s)
       /\ UNCHANGED <<options, dirs, registry, reports, second, files, loaded>>

-----------------------------------------------------------------------------
(* Evaluation, run_evaluation. *)

\* The adapter of this run, or the one it was given.
SelectedAdapter(s) ==
    IF ~options[s].skip_training /\ ~options[s].dry_run THEN <<s, "full">>
    ELSE IF options[s].dry_run THEN Absent ELSE options[s].adapter

\* The directory is named after this second; _build_adapter_generator refuses an adapter
\* of another base model and finds its tokenizer with it, before the model is put together.
\* Without an adapter the fixture answers.
Usable(p, c) ==
    adapters[p] # Absent /\ Compatible(adapters[p], c) /\ adapters[p].tokens # Absent
BeginEvaluation(s) ==
    LET p == SelectedAdapter(s)
    IN /\ At(s, "evaluate")
       /\ IF p # Absent /\ ~Usable(p, ConfigOf(s))
          THEN Fail(s) /\ UNCHANGED loaded
          ELSE /\ training' = [training EXCEPT ![s].at = "generate", ![s].place = p,
                                     ![s].inference = p # Absent, ![s].summary = second]
               /\ IF p # Absent THEN Load(adapters[p], ConfigOf(s)) ELSE UNCHANGED loaded
       /\ UNCHANGED <<options, adapters, dirs, registry, reports, second, files>>

\* _fixture_generation: it names no risk, action or evidence.
FixtureAnswer == [risk |-> FALSE, actions |-> 0, terms |-> 0, embedded |-> FALSE,
                  similarity |-> 10, copied |-> 0, novel |-> 90, empty |-> FALSE]

\* detect_reference_echo
ReferenceEcho(answer) ==
    answer.embedded \/ answer.similarity >= 92 \/ (answer.copied >= 90 /\ answer.novel <= 35)

\* _score: an answer names the risk, and covers a share of the expected actions and of the
\* terms of the evidence.
Score(row, answer) ==
    LET Share(part, whole) == (100 * Min({part, whole})) \div Max({whole, 1})
    IN [risk_classification |-> answer.risk,
        actionability |-> Share(answer.actions, row.expected.actions),
        grounding |-> Share(answer.terms, 2 * Len(row.evidence)),
        echo |-> ReferenceEcho(answer), empty |-> answer.empty]

Generate(s) ==
    /\ At(s, "generate")
    /\ \E answers \in [1 .. EvalExamples -> IF training[s].inference THEN Answers ELSE {FixtureAnswer}] :
          training' = [training EXCEPT ![s].at = "summarize", ![s].answers = answers]
    /\ UNCHANGED <<options, adapters, dirs, registry, reports, second, files, loaded>>

Percent(n) == (100 * n) \div EvalExamples

\* _evaluation_summary: the gate on the means of the scores, which are not rounded.
\* Mistake: answers that were not generated pass by their scores.
GateByScores(scores, inference) ==
    /\ \A i \in DOMAIN scores : ~scores[i].empty
    /\ Percent(Cardinality({i \in DOMAIN scores : scores[i].risk_classification})) >= MinRisk
GatePasses(scores, inference) ==
    LET Count(field) == Cardinality({i \in DOMAIN scores : scores[i][field]})
        Total(field) == MapThenSumSet(LAMBDA i : scores[i][field], DOMAIN scores)
    IN /\ inference
       /\ \A i \in DOMAIN scores : ~scores[i].empty
       /\ 100 * Count("echo") <= MaxEcho * EvalExamples
       /\ 100 * Count("risk_classification") >= MinRisk * EvalExamples
       /\ Total("actionability") >= MinActionability * EvalExamples
       /\ Total("grounding") >= MinGrounding * EvalExamples

\* The record of the evaluation is evidence for promotions. Its id is the directory's name,
\* so that a second evaluation begun in the same second is refused: it differs at least in
\* its time of creation. (The registry looks it up and inserts, and the key is unique.)
RecordEvaluation(s) ==
    LET scores == [i \in 1 .. EvalExamples |-> Score(EvalRows(s)[i], training[s].answers[i])]
        gate == GatePasses(scores, training[s].inference)
        id == training[s].summary
        rate == Percent(Cardinality({i \in DOMAIN scores : scores[i].risk_classification}))
    IN /\ At(s, "summarize")
       /\ IF id \in DOMAIN registry
          THEN Fail(s) /\ UNCHANGED registry
          ELSE /\ registry' = [i \in DOMAIN registry \cup {id} |->
                                 IF i = id THEN [by |-> s, pass_rate |-> rate, gate_passed |-> gate]
                                 ELSE registry[i]]
               /\ training' = [training EXCEPT
                     ![s].summary = [id |-> id, gate |-> gate],
                     ![s].stages = Append(@, CASE options[s].dry_run -> "dry_run_eval"
                                               [] training[s].inference -> "generated_evaluation"
                                               [] OTHER -> "fixture_only_evaluation"),
                     ![s].at = IF training[s].place # Absent /\ ~options[s].skip_serving_check
                               THEN "serving" ELSE "report"]
       /\ UNCHANGED <<options, adapters, dirs, reports, second, files, loaded>>

-----------------------------------------------------------------------------
(* The serving check, run_serving_check. *)

\* _generated_content and the probe's conditions; a reply that cannot be read has no choice.
\* Mistake: an adapter whose metadata is in order is ready.
ReadyByMetadata(c, metadata, reply) == metadata
DeploymentReady(c, metadata, reply) ==
    /\ c.gate_mode = "generated_inference" /\ metadata
    /\ reply.generated /\ reply.correct /\ reply.named
    /\ c.require_tool => reply.tool

\* The tokenizer's file and the adapter's metadata are looked at in any mode, the endpoint
\* only in one: without an address, or when it does not answer, the run fails.
ServingCheck(s) ==
    LET c == ConfigOf(s)
        a == adapters[training[s].place]
    IN /\ At(s, "serving")
       /\ IF a.tokens = Absent \/ ~Compatible(a, c) THEN Fail(s)
          ELSE \E reply \in IF c.gate_mode = "generated_inference" THEN ProbeReplies ELSE {Absent} :
                 IF c.gate_mode = "generated_inference" /\ (~c.endpoint \/ ~reply.readable)
                 THEN Fail(s)
                 ELSE training' = [training EXCEPT
                         ![s].at = "report",
                         ![s].serving = [ready |-> DeploymentReady(c, a.tokens, reply),
                                         reply |-> reply],
                         ![s].stages = Append(@, "serving_check")]
       /\ UNCHANGED <<options, adapters, dirs, registry, reports, second, files, loaded>>

\* _write_final_report; a dry run and one without a serving check are never ready.
WriteReport(s) ==
    /\ At(s, "report") /\ Go(s, "done")
    /\ reports' = [reports EXCEPT ![s] =
          [stages |-> training[s].stages,
           training_evaluation_ready |-> ~options[s].dry_run /\ training[s].summary.gate,
           deployment_ready |-> training[s].serving # Absent /\ training[s].serving.ready]]
    /\ UNCHANGED <<options, adapters, dirs, registry, second, files, loaded>>

\* The process is killed.
Kill(s) ==
    /\ training[s].at \notin {"new", "done", "failed"} /\ Fail(s)
    /\ UNCHANGED <<options, adapters, dirs, registry, reports, second, files, loaded>>

Tick ==
    /\ second < MaxSecond /\ second' = second + 1
    /\ UNCHANGED <<training, options, adapters, dirs, registry, reports, files, loaded>>

TrainingNext ==
    \/ \E s \in Runs :
          \/ ChooseDirectory(s) \/ MakeDirectory(s) \/ BuildDatasets(s) \/ Preflight(s)
          \/ \E stage \in {"smoke", "full"} :
                Train(s, stage) \/ SaveTokenizer(s, stage) \/ FinishAdapter(s, stage)
          \/ BeginEvaluation(s) \/ Generate(s) \/ RecordEvaluation(s) \/ ServingCheck(s)
          \/ WriteReport(s) \/ Kill(s)
    \/ Tick

TrainingSpec == TrainingInit /\ [][TrainingNext]_trainingVars

-----------------------------------------------------------------------------
(* Properties. *)

TrainingTypes ==
    /\ options \in Commands /\ files \in Files /\ second \in 0 .. MaxSecond
    /\ DOMAIN adapters = Places /\ DOMAIN training = Runs

\* An adapter is only ever put on the base model and revision it was made for, however a
\* run was killed while writing it, whoever uses it, and whether to resume, to evaluate or
\* to serve (compatibility.py:49 "Fail before loading an adapter trained for another model
\* size or revision").
AdaptersKeepTheirBase ==
    \A l \in loaded : l.truth.base = l.base /\ l.truth.revision = l.revision

Names(s, stage) == \E i \in DOMAIN reports[s].stages : reports[s].stages[i] = stage

\* A report is ready for what was done in its own run: the evaluation is ready only when
\* an adapter of this base model generated every answer, none was empty or an echo beyond
\* the limit, and enough named the risk; the deployment only when that evaluation took
\* place and the endpoint itself answered the probe, under the configured name; and the
\* registry has kept the evaluation as it was (docs/model-training.md:102 "only a generated
\* live-model evaluation and serving probe can mark a deployment ready").
ReportsAreEarned ==
    \A s \in Runs : reports[s] # Absent =>
        LET r == reports[s]
            own == training[s].answers
        IN /\ r.training_evaluation_ready =>
                /\ training[s].place # Absent /\ Compatible(adapters[training[s].place], ConfigOf(s))
                /\ Names(s, "generated_evaluation")
                /\ \A i \in DOMAIN own : ~own[i].empty
                /\ 100 * Cardinality({i \in DOMAIN own : ReferenceEcho(own[i])})
                     <= MaxEcho * EvalExamples
                /\ 100 * Cardinality({i \in DOMAIN own : own[i].risk}) >= MinRisk * EvalExamples
           /\ r.deployment_ready =>
                /\ Names(s, "generated_evaluation") /\ Names(s, "serving_check")
                /\ training[s].serving.reply # Absent /\ training[s].serving.reply.correct
                /\ training[s].serving.reply.named
           /\ registry[training[s].summary.id].by = s
           /\ registry[training[s].summary.id].gate_passed => Names(s, "generated_evaluation")
           /\ Names(s, "full_train") => adapters[<<s, "full">>].manifest # Absent

\* Every row of a batch teaches the end of its answer and nothing of its prompt: a label is
\* its own token or masked, masked where the token is padding or prompt, and padding is not
\* attended to (build_tokenized_example, ShelfWiseDataCollator).
Teaches(row) ==
    /\ Len(row.labels) = Len(row.input_ids) /\ Len(row.attention) = Len(row.input_ids)
    /\ Len(row.input_ids) <= MAX_SEQ_LENGTH
    /\ row.labels[Len(row.labels)] = row.last
    /\ \A j \in DOMAIN row.labels :
          /\ (row.labels[j] # MASK) = (row.input_ids[j][1] = "completion")
          /\ row.labels[j] # MASK => row.labels[j] = row.input_ids[j]
          /\ (row.attention[j] = 0) = (row.input_ids[j] = PAD)
BatchesTeachTheAnswer ==
    \A s \in Runs : \A i \in DOMAIN training[s].batch : Teaches(training[s].batch[i])

\* Two runs never write into one directory (timestamped_run_dir).
DirectoriesAreOwn == \A d, e \in dirs : d.name = e.name => d.by = e.by

TrainingIsHonest ==
    /\ TrainingTypes /\ AdaptersKeepTheirBase /\ ReportsAreEarned
    /\ BatchesTeachTheAnswer /\ DirectoriesAreOwn
=============================================================================
