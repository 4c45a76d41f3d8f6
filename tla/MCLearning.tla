----------------------------- MODULE MCLearning -----------------------------
(***************************************************************************)
(* Small instances of what surrounds the decisions: the chat about them,    *)
(* the skills and facts the platform learns from them, the campaign that    *)
(* tests all of it, the contract on what it claims to do, the benchmark of  *)
(* how its model is served, the training of that model, the shakedown of a  *)
(* deployed stack and the monitor that compares a trace with earlier ones.  *)
(* They share no state, so a behaviour is about one of them, its subject;   *)
(* the chat, the skills and the facts stay where they begin otherwise, no    *)
(* shakedown is started, the contract claims nothing, and the variables of   *)
(* the others are None. Of the decisions nothing is there.                   *)
(***************************************************************************)
EXTENDS AgentSystem, CapabilityContract, TrainingPipeline, TLC

CONSTANTS c1, c2, m1, m2, m3, e1, e2

\* Two interchangeable names, of whatever there are two of; only safety is checked.
Two == {c1, c2}
Symmetry == Permutations(Two)

\* The chat: a correction about the stock, a question about nothing in particular,
\* one about what was learned; the second exchange trims the transcript.
Asking == m1 :> {"operational"} @@ m2 :> {} @@ m3 :> {"learning"}

\* The skills: a second version that rests on other evidence and asks for more of it.
OwnEvidence == 1 :> {e1} @@ 2 :> {e2}
RisingBar == 1 :> 1 @@ 2 :> 2

\* The campaign: the blackout comes in the second of three cycles, the second of the
\* three events is a fault, the third one is where the sum is a tie, every second
\* approvable verdict is a dissent.
Cycles == 3
EventsPerCycle == 1
FaultRate == 2
RateUnit == 3
ChatEvery == 3
AgenticEvery == 3
DissentEvery == 2
LiveRequired == TRUE
Blackout == TRUE
Probes == {"connectors"}
Ids == Two
MaxWrong == 1

\* The contract: a change may unmap a connector, take away a workflow or the class
\* behind the orchestrator, or add a training stage, and waive some of it for a day.
ClaimedFirst ==
    {<<"AgentName", "critic">>, <<"STRONG_AGENT_NAMES", "orchestrator">>,
     <<"class", "AgentOrchestrator">>, <<"call", "AgentOrchestrator">>, <<"cascade", "golden">>,
     <<"route", "scan">>, <<"tool", "scan_tool">>, <<"SourceSystem", "sap">>,
     <<"catalogue", "sap">>, <<"mapper", "sap">>, <<"mapper_registered", "sap">>,
     <<"worker", "cascade_worker">>, <<"worker", "worker_loop_service">>,
     <<"EventType", "shipment">>, <<"dispatch", "shipment">>, <<"storage_backend", "postgres">>,
     <<"bus_backend", "redis">>, <<"SCENARIOS", "day">>, <<"feature", "image_scan">>,
     <<"stage", "train">>, <<"surface", "products">>, <<"test", "t">>}
ClaimedSource == {<<"mapper", "sap">>, <<"class", "AgentOrchestrator">>, <<"stage", "dataset">>,
           <<"cascade", "golden">>}
ClaimedWorkflowAgents == "golden" :> {"critic"}
ClaimedRouteFeature == "scan" :> "image_scan"
ClaimedToolFeature == "scan_tool" :> "image_scan"
ClaimedSurfaceRoutes == "products" :> {"scan"}
ClaimedStages == "train" :> [status |-> "partial", runtime |-> FALSE]
       @@ "dataset" :> [status |-> "verified", runtime |-> TRUE]
ClaimedProfile == [name |-> "local", status |-> "implemented", storage |-> "postgres", bus |-> "redis",
            worker |-> TRUE]
ClaimedDefaultTests == [k \in {"agent", "workflow", "openapi_route", "connector", "tool", "event_type",
                        "event_consumer", "storage_backend", "bus_backend", "worker",
                        "worldgen_scenario", "multimodal_feature", "training_stage",
                        "frontend_surface", "deployment_profile"} |-> {"t"}]
ClaimedRequiredIds == {<<"agent", "orchestrator">>, <<"connector", "sap">>}
ClaimedAnnotations == {[id |-> <<"connector", "sap">>, status |-> "partial", tests |-> Unset],
                [id |-> <<"training_stage", "train">>, status |-> "verified", tests |-> {}]}
ClaimedWaivable == {[id |-> <<"connector", "sap">>, rule |-> "downgrade"],
             [id |-> <<"training_stage", "train">>, rule |-> "missing_verification"],
             [id |-> <<"workflow", "golden">>, rule |-> "omission"]}

\* The benchmark: a pool of two endpoints of which the second is on the local host, a
\* concurrent stage and a synchronized one; without a cap, with one, and as a plan.
Agents == <<"triage", "critic">>
Order == "triage" :> 1 @@ "critic" :> 2
Tier == "triage" :> "routine" @@ "critic" :> "strong"
Graded == {"critic"}
Endpoints == "a" :> [configured |-> TRUE, key |-> TRUE, loopback |-> FALSE]
          @@ "b" :> [configured |-> TRUE, key |-> TRUE, loopback |-> TRUE]
Strategies ==
    "shared" :> [kind |-> "shared", routes |-> "default" :> <<"a">>]
    @@ "replicated" :> [kind |-> "replicated", routes |-> "default" :> <<"a", "b">>]
    @@ "hybrid" :> [kind |-> "hybrid", routes |-> "routine" :> <<"a">> @@ "strong" :> <<"b", "a">>]
Ladder == <<[concurrency |-> 2, synchronized |-> FALSE], [concurrency |-> 1, synchronized |-> TRUE]>>
Benchmark(scope, plan, warmup, cap, strategies, poor) ==
    [scope |-> scope, plan |-> plan, warmup |-> warmup, cap |-> cap, strategies |-> strategies,
     poor |-> poor]
Configs ==
    {Benchmark("control_plane_only", FALSE, FALSE, None, <<"shared", "replicated">>, 0),
     Benchmark("cloud_inference_host", FALSE, TRUE, 1, <<"replicated">>, 1),
     Benchmark("control_plane_only", TRUE, TRUE, None, <<"hybrid", "shared">>, 0)}
Repeats == 1
Ticks == 1
MaxStarted == 2

\* The training: a run may use the adapter of the other, resume from it, find one that is
\* there, or only try the evaluation; the rows are short, padded and too long.
Shakedowns == {"r1", "r2"}
BaseModels == "small" :> [model |-> "gemma-2", size |-> "2B", default |-> "r1"]
         @@ "large" :> [model |-> "gemma-12", size |-> "12B", default |-> "r1"]
Setting(profile, revision, gate, resume) ==
    [profile |-> profile, model |-> BaseModels[profile].model, revision |-> revision,
     gate_mode |-> gate, timestamp |-> TRUE, resume |-> resume, require_tool |-> FALSE,
     mixture |-> "reasoning" :> 60 @@ "report" :> 40, modality_required |-> FALSE,
     endpoint |-> TRUE]
Pinned == Setting("large", "r2", "metadata_only", Absent)
Default == Setting("large", "r1", "generated_inference", Absent)
Resuming == Setting("large", "r1", "generated_inference", <<"r1", "smoke">>)
Smaller == Setting("small", "r1", "metadata_only", Absent)
TrainingSettings == {Pinned, Default, Resuming, Smaller}
Command(setting, dry_run, skip_preflight, skip_training, skip_serving, adapter) ==
    [config |-> setting, dry_run |-> dry_run, skip_preflight |-> skip_preflight,
     skip_training |-> skip_training, skip_serving_check |-> skip_serving, adapter |-> adapter]
CommandLines ==
    {"r1" :> Command(Pinned, FALSE, FALSE, FALSE, TRUE, Absent)
        @@ "r2" :> Command(Default, FALSE, TRUE, TRUE, FALSE, <<"r1", "full">>),
     "r1" :> Command(Default, FALSE, TRUE, FALSE, TRUE, Absent)
        @@ "r2" :> Command(Resuming, FALSE, TRUE, FALSE, FALSE, Absent),
     "r1" :> Command(Default, TRUE, TRUE, TRUE, FALSE, Absent)
        @@ "r2" :> Command(Smaller, FALSE, TRUE, TRUE, FALSE, <<"old", "a">>)}
AdaptersThere ==
    <<"old", "a">> :> [peft |-> [base |-> "gemma-2", revision |-> Absent], manifest |-> Absent,
                       tokens |-> TRUE, truth |-> [base |-> "gemma-2", revision |-> "r1"]]
Generated(risk, copied) ==
    [risk |-> risk, actions |-> 3, terms |-> 3, embedded |-> FALSE, similarity |-> 50,
     copied |-> copied, novel |-> 30, empty |-> FALSE]
GeneratedAnswers == {Generated(TRUE, 0), Generated(TRUE, 95)}
EndpointReplies == {[readable |-> r, generated |-> TRUE, correct |-> r, named |-> TRUE, tool |-> FALSE] :
              r \in BOOLEAN}
EvidenceTypes == {"image", "audio", "video", "screenshot", "structured_json"}
EvidenceFiles == {EvidenceTypes, EvidenceTypes \ {"video"}}
TokenLengths == <<<<3, 2>>, <<1, 2>>, <<1, 5>>>>

\* The shakedown: two cycles, against a stack with at most two bad answers.
ShakedownConfigs == {[cycles |-> 2, timed |-> FALSE, live_required |-> FALSE, polls |-> 2],
                     [cycles |-> 2, timed |-> TRUE, live_required |-> TRUE, polls |-> 1]}

\* The monitor: successes of one family and tenant that differ in a step, a failing run
\* under the key of one of them, an operational one, and failed model runs.
Measured(kind, name, status, metrics, attributes) ==
    [kind |-> kind, name |-> name, status |-> status, metrics |-> metrics, attributes |-> attributes]
Span(status, ms) == Measured("trace_span", "scan", status, "ms" :> ms @@ "fields" :> 1, <<>>)
Call(model, status, ms) ==
    Measured("model_call", "critic", status, "ms" :> ms @@ "in" :> 10 @@ "out" :> 10,
             "provider" :> "here" @@ "model" :> model @@ "network" :> "yes" @@ "fallback" :> "no")
Tool == Measured("tool_call", "stock", "ok", "bytes" :> 10, <<>>)
Cited == Measured("evidence", "critic", "ok", "facts" :> 1 @@ "sources" :> 1 @@ "confidence" :> 900,
                     "review" :> "no")
Decided == [id |-> TRUE, step |-> Measured("decision", "reorder", "pending", <<>>,
                              "risk" :> "low" @@ "verdict" :> "pass")]
Result(domain, id, trace, calls, tools, proofs) ==
    [tenant |-> "t1", domain |-> domain, correlation_id |-> id, scenario |-> "golden",
     agentic |-> calls # <<>>, status |-> "ok", concluded |-> TRUE, decision |-> Decided,
     trace |-> trace, model_calls |-> calls, tool_calls |-> tools, evidence |-> proofs]
Sim == "world_simulation"
Receipt(id, status) ==
    [tenant |-> "t1", domain |-> Sim, correlation_id |-> id, family |-> <<"agentic", "golden">>,
     step |-> Call("m", status, 5)]
CascadeResults ==
    {Result(Sim, id, <<Span("ok", 5)>>, <<>>, <<>>, <<Cited>>) : id \in {"x", "y"}}
    \cup {Result(Sim, id, <<>>, <<Call("m", "ok", 5)>>, <<Tool>>, <<Cited>>) : id \in {"y", "z"}}
    \cup {Result(Sim, "y", <<Span("ok", 50)>>, <<>>, <<>>, <<Cited, Cited>>),
          Result(Sim, "x", <<Span("error", 5)>>, <<>>, <<>>, <<Cited>>),
          Result("operational_twin", "x", <<Span("ok", 5)>>, <<>>, <<>>, <<Cited>>)}
ModelRunReceipts == {Receipt("x", "ok"), Receipt("y", "error")}
FailureEvents == {[tenant |-> "t1", domain |-> Sim, correlation_id |-> "x",
                   family |-> <<"agentic", "golden">>, code |-> "late"]}
Rank == "critic" :> 1 @@ "decision" :> 2 @@ "error" :> 3 @@ "evidence" :> 4 @@ "here" :> 5
        @@ "late" :> 6 @@ "low" :> 7 @@ "m" :> 8 @@ "model_call" :> 9 @@ "no" :> 10 @@ "ok" :> 11
        @@ "pass" :> 12 @@ "pending" :> 13 @@ "reorder" :> 14 @@ "scan" :> 15 @@ "stock" :> 16
        @@ "tool_call" :> 17 @@ "trace_span" :> 18 @@ "yes" :> 19

VARIABLES
    subject,
    at, cycle, sample, faults, counts, chats, dark, captured, trail, pilot, features, failed, report,
    wrong,
    config, place, phase, clock, counter, workers, turns, executed, collector, figures,
    comparisons, trouble, truth,
    setup, step, polls, round, pending, failures, tally, decisions, verdict, bad, answers,
    mode, order, traces, runs, task, recorded

Campaign == INSTANCE FullSystemRun WITH event <- sample
Bench == INSTANCE InferenceBenchmark WITH result <- figures
Shakedown == INSTANCE DeploymentShakedown WITH
    Configs <- ShakedownConfigs, DecisionIds <- Two, MaxBad <- 2
Monitor == INSTANCE TraceAttribution WITH
    Cascades <- CascadeResults, ModelRuns <- ModelRunReceipts, Failures <- FailureEvents,
    MinSuccesses <- 2, Alpha <- 25, MaxItems <- 3, MAX_STEPS <- 4, MaxRecorded <- 4

ASSUME LearningAssumptions ==
    /\ AgentSystemAssumption /\ ContractAssumption
    /\ Campaign!ConfigAssumption /\ Bench!BenchmarkAssumption
    /\ TrainingAssumption /\ Shakedown!ShakedownAssumption
    /\ Monitor!AttributionAssumption

decisionVars == <<drill, card, queued, run, event, result>>
chatVars == <<conversation, summaries, items, holder, request, sent, heard, trimmed, cut>>
skillVars == <<skill, evidence, job, ops, down, unearned>>
factVars == <<outcomes, facts, journal, consolidation, consolidations, plans, overlapped>>
campaignVars == <<at, cycle, sample, faults, counts, chats, dark, captured, trail, pilot, features,
                  failed, report, wrong>>
benchVars == <<config, place, phase, clock, counter, workers, turns, executed, collector, figures,
               comparisons, trouble, truth>>
shakedownVars == <<setup, step, polls, round, pending, failures, tally, decisions, verdict, bad,
                   answers>>
monitorVars == <<mode, order, traces, runs, task, recorded>>
otherVars == <<campaignVars, contractVars, benchVars, trainingVars, shakedownVars, monitorVars>>
vars == <<subject, decisionVars, chatVars, skillVars, factVars, otherVars>>

NoCampaign ==
    /\ at = None /\ cycle = None /\ sample = None /\ faults = None /\ counts = None /\ chats = None
    /\ dark = None /\ captured = None /\ trail = None /\ pilot = None /\ features = None
    /\ failed = None /\ report = None /\ wrong = None
\* A branch that claims nothing, and was excused from claiming the profile it is deployed in.
NoContract ==
    /\ base = [source |-> {}, annotations |-> {}, waivers |-> {}, manifest |-> build_manifest({})]
    /\ branch = base /\ day = 0 /\ edits = 0 /\ best = <<>>
    /\ excused = {<<"deployment_profile", Profile.name>>}
NoBench ==
    /\ config = None /\ place = None /\ phase = None /\ clock = None /\ counter = None
    /\ workers = None /\ turns = None /\ executed = None /\ collector = None /\ figures = None
    /\ comparisons = None /\ trouble = None /\ truth = None
\* Shakedowns that nobody starts.
NoTraining ==
    TrainingInit /\ options = (CHOOSE o \in Commands : TRUE) /\ files = (CHOOSE f \in Files : TRUE)
NoShakedown ==
    /\ setup = None /\ step = None /\ polls = None /\ round = None /\ pending = None
    /\ failures = None /\ tally = None /\ decisions = None /\ verdict = None /\ bad = None
    /\ answers = None
NoTraces ==
    /\ mode = None /\ order = None /\ traces = None /\ runs = None /\ task = None
    /\ recorded = None

Init ==
    /\ Agency!Init /\ event = [type |-> "stock_update", domain |-> "other", body |-> None]
    /\ result = None /\ Chat!Init /\ Skills!Init /\ Memory!Init
    /\ \/ /\ subject \in {"chat", "skills", "facts"}
          /\ NoCampaign /\ NoContract /\ NoBench /\ NoTraining /\ NoShakedown /\ NoTraces
       \/ /\ subject = "campaign" /\ Campaign!Init
          /\ NoContract /\ NoBench /\ NoTraining /\ NoShakedown /\ NoTraces
       \/ /\ subject = "contract" /\ ContractInit
          /\ NoCampaign /\ NoBench /\ NoTraining /\ NoShakedown /\ NoTraces
       \/ /\ subject = "benchmark" /\ Bench!Init
          /\ NoCampaign /\ NoContract /\ NoTraining /\ NoShakedown /\ NoTraces
       \/ /\ subject = "training" /\ TrainingInit
          /\ NoCampaign /\ NoContract /\ NoBench /\ NoShakedown /\ NoTraces
       \/ /\ subject = "shakedown" /\ Shakedown!Init
          /\ NoCampaign /\ NoContract /\ NoBench /\ NoTraining /\ NoTraces
       \/ /\ subject = "traces" /\ Monitor!Init
          /\ NoCampaign /\ NoContract /\ NoBench /\ NoTraining /\ NoShakedown

\* A step of the campaign and what is like it, and one of the chat, the skills or the facts.
OtherStep ==
    \/ /\ subject = "campaign" /\ Campaign!Next
       /\ UNCHANGED <<contractVars, benchVars, trainingVars, shakedownVars, monitorVars>>
    \/ /\ subject = "contract" /\ ContractNext
       /\ UNCHANGED <<campaignVars, benchVars, trainingVars, shakedownVars, monitorVars>>
    \/ /\ subject = "benchmark" /\ Bench!Next
       /\ UNCHANGED <<campaignVars, contractVars, trainingVars, shakedownVars, monitorVars>>
    \/ /\ subject = "training" /\ TrainingNext
       /\ UNCHANGED <<campaignVars, contractVars, benchVars, shakedownVars, monitorVars>>
    \/ /\ subject = "shakedown" /\ Shakedown!Next
       /\ UNCHANGED <<campaignVars, contractVars, benchVars, trainingVars, monitorVars>>
    \/ /\ subject = "traces" /\ Monitor!Next
       /\ UNCHANGED <<campaignVars, contractVars, benchVars, trainingVars, shakedownVars>>

LearningStep ==
    \/ subject = "chat" /\ Chat!Next /\ UNCHANGED <<skillVars, factVars>>
    \/ subject = "skills" /\ Skills!Next /\ UNCHANGED <<chatVars, factVars>>
    \/ subject = "facts" /\ Memory!Next /\ UNCHANGED <<chatVars, skillVars>>

Next ==
    /\ UNCHANGED <<subject, decisionVars>>
    /\ \/ LearningStep /\ UNCHANGED otherVars
       \/ OtherStep /\ UNCHANGED <<chatVars, skillVars, factVars>>

\* Its behaviours are behaviours of System.
Spec == Init /\ [][Next]_vars

\* A report says what happened: (FullSystemRun) a campaign that passed saw nothing go
\* wrong, saw the recovery, and injected, to less than one fault, and dissented as often
\* as it was told to;
\* (InferenceBenchmark) the comparison of strategies is one of their windows;
\* (DeploymentShakedown) a stack that passed deserved it, and a good one passes;
\* (TraceAttribution) the references a trace is compared with are successes of its own
\* kind, and set a threshold that they meet.
ReportsAreHonest ==
    /\ subject = "campaign" =>
          /\ Campaign!TypeOK /\ Campaign!PassIsHonest /\ Campaign!BlackoutRecovers
          /\ Campaign!SharesAreKept
    /\ subject = "benchmark" => Bench!TypeOK /\ Bench!BenchmarkIsHonest
    /\ subject = "shakedown" => Shakedown!TypeOK /\ Shakedown!DeploymentVerdictHolds
    /\ subject = "traces" => Monitor!TypeOK /\ Monitor!TracesAreEarned
=============================================================================
