------------------------- MODULE InferenceBenchmark -------------------------
(***************************************************************************)
(* The benchmark of model-serving topologies, shelfwise_benchmark: each     *)
(* strategy routes the agents of one workflow to endpoints and is put       *)
(* through a ladder of load stages. A window of a stage keeps a number of   *)
(* workers busy with workflows until its deadline, or up to a cap, while a  *)
(* collector samples telemetry beside it; the rows of all windows become    *)
(* one comparison per strategy and stage.                                   *)
(*                                                                          *)
(* The workers and the collector are coroutines of one event loop. A window *)
(* lasts Ticks of the clock. An endpoint may answer well, slowly, without   *)
(* usage, or not at all.                                                    *)
(***************************************************************************)
EXTENDS Naturals, Sequences, FiniteSets, FiniteSetsExt, SequencesExt

CONSTANTS
    Agents,        \* the workflow's agents, in the order of the configuration
    Order,         \* agent |-> its order
    Tier,          \* agent |-> its tier
    Graded,        \* agents with expected_terms
    Endpoints,     \* endpoint |-> [configured, key, loopback]
    Strategies,    \* name |-> [kind, routes], routes a key |-> endpoints function
    Ladder,        \* in order: [name, concurrency, synchronized]
    Configs,       \* [scope, plan, warmup, cap, strategies, poor]: what the command line may
                   \* ask for, and a bound: calls and samples that are not answered well
    Repeats, Ticks,
    MaxStarted,    \* bound: workflows a window without a cap starts
    None

AgentSet == Range(Agents)

\* _required_route_keys: the route keys that a kind of strategy needs.
RequiredRouteKeys(kind) ==
    CASE kind \in {"shared", "replicated"} -> {"default"}
      [] kind = "per_agent" -> AgentSet
      [] kind = "hybrid" -> {Tier[a] : a \in AgentSet}

\* _validate_strategy
ValidStrategy(s) ==
    /\ RequiredRouteKeys(s.kind) \subseteq DOMAIN s.routes
    /\ \A k \in DOMAIN s.routes : s.routes[k] # <<>> /\ Range(s.routes[k]) \subseteq DOMAIN Endpoints
    /\ s.kind = "replicated" => Len(s.routes["default"]) >= 2

\* _validate_settings and the names that must be unique
BenchmarkAssumption ==
    /\ IsInjective(Agents) /\ Agents # <<>>
    /\ \A a \in AgentSet : Order[a] \in Nat \ {0}
    /\ \A n \in DOMAIN Strategies : ValidStrategy(Strategies[n])
    /\ \A g \in Range(Ladder) : g.concurrency \in Nat \ {0}
    /\ {Repeats, Ticks} \subseteq Nat \ {0}
    /\ \A c \in Configs : /\ c.cap = None \/ c.cap \in Nat \ {0}
                          /\ IsInjective(c.strategies) /\ c.strategies # <<>>
                          /\ Range(c.strategies) \subseteq DOMAIN Strategies

VARIABLES
    config,      \* the run's, of Configs
    place,       \* [strategy, stage, repeat]: where the run is
    phase,       \* "preflight", "warmup", "steady", "stopping", "summary", "done"
    clock,       \* ticks of this window
    counter,     \* workflows this window started
    workers,     \* worker |-> [state, id, rows, calls], of the workflow when it is "busy"
    turns,       \* route key |-> calls the strategy's router resolved
    executed,    \* the workflows this window completed, in order: [id, rows]
    collector,   \* [state, samples, stop]
    result,      \* [requests, workflows, windows, telemetry, skipped]
    comparisons, \* None until the run is over, then <<strategy, stage>> |-> the row
    trouble,
    truth        \* history: what was asked of the endpoints, [steady, strategy, stage, ...]

vars == <<config, place, phase, clock, counter, workers, turns, executed, collector, result,
          comparisons, trouble, truth>>

Worker(state, id) == [state |-> state, id |-> id, rows |-> {}, calls |-> {}]
strategy == Strategies[config.strategies[place.strategy]]
stage == Ladder[place.stage]
NoCollector == [state |-> "off", samples |-> <<>>, stop |-> FALSE]

-----------------------------------------------------------------------------
(* Routing. *)

\* StrategyRouter._route_key
RouteKey(agent) ==
    CASE strategy.kind \in {"shared", "replicated"} -> "default"
      [] strategy.kind = "per_agent" -> agent
      [] strategy.kind = "hybrid" -> Tier[agent]

\* StrategyRouter.endpoint_names
EndpointNames(s) == UNION {Range(s.routes[k]) : k \in DOMAIN s.routes}

\* strategy_unavailable_reason: the reasons there are; the run gives the first.
UnavailableReasons(s) ==
    {e \in EndpointNames(s) :
        \/ ~Endpoints[e].configured
        \/ ~Endpoints[e].key
        \/ config.scope = "control_plane_only" /\ Endpoints[e].loopback}

\* StrategyRouter.resolve for the agents that are called together, one after the other.
\* Mistake: every agent counts for itself.
ResolvePerAgent(agents, i) == strategy.routes[RouteKey(agents[i])][1]
Resolve(agents, i) ==
    LET key  == RouteKey(agents[i])
        pool == strategy.routes[key]
        seen == turns[key] + Cardinality({j \in 1 .. i - 1 : RouteKey(agents[j]) = key})
    IN pool[(seen % Len(pool)) + 1]

TurnsAfter(agents) ==
    [k \in DOMAIN turns |->
        turns[k] + Cardinality({j \in DOMAIN agents : RouteKey(agents[j]) = k})]

-----------------------------------------------------------------------------
(* What an endpoint answers, by VllmAdapter.complete and ControlPlaneAdapter. *)

Outcome(success, call, latency, tokens, quality) ==
    [success |-> success, model_call |-> call, latency |-> latency, tokens |-> tokens,
     quality |-> quality]

\* parse_vllm_response: usage that is missing makes no token count; only a graded
\* agent's text is scored, and a text without the terms scores 0.
Answered(agent, latency, tokens, score) ==
    Outcome(TRUE, TRUE, latency, tokens, IF agent \in Graded THEN score ELSE None)
WellAnswered(agent) == Answered(agent, 1, 1, 1)

\* _failed_outcome keeps the time it took; an adapter that raises does not.
PoorOutcomes(agent) ==
    {Answered(agent, 3, 1, 0), Answered(agent, 1, None, 1),
     Outcome(FALSE, TRUE, 3, None, None), Outcome(FALSE, TRUE, None, None, None)}

PlannedOutcome == Outcome(TRUE, FALSE, None, None, None)

-----------------------------------------------------------------------------
(* The numbers, in analysis.py. *)

WithNumbers(rows, field) == {r \in rows : r[field] # None}
Total(rows, field) == MapThenSumSet(LAMBDA r : r[field], rows)

\* _complete_sum: a sum only of rows that all supplied the number.
\* Mistake: the rows without one count as nothing.
SumOfSupplied(rows, field) == Total(WithNumbers(rows, field), field)
CompleteSum(rows, field) ==
    IF rows = {} \/ \E r \in rows : r[field] = None THEN None ELSE Total(rows, field)

\* percentile of the rows' numbers, in hundredths, interpolated linearly.
Percentile(rows, field, hundredths) ==
    LET ordered == SetToSortSeq(WithNumbers(rows, field), LAMBDA r, q : r[field] < q[field])
        position == (Len(ordered) - 1) * hundredths
        lower == position \div 100
        At(i) == ordered[i + 1][field] * 100
    IN IF ordered = <<>> THEN None
       ELSE IF position % 100 = 0 THEN At(lower)
       ELSE At(lower) + ((At(lower + 1) - At(lower)) * (position % 100)) \div 100

\* _idle_time_ms: the ticks that follow a sample without queued or running requests, up
\* to the next one, in the windows of one strategy and stage.
IdleTicks(samples) ==
    LET Known == SelectSeq(samples, LAMBDA s : s.queue # None)
        Following(i) ==
            IF Known[i].queue = 0 /\ Known[i].repeat = Known[i + 1].repeat
            THEN Known[i + 1].at - Known[i].at ELSE 0
    IN IF Len(Known) < 2 THEN None
       ELSE MapThenSumSet(Following, 1 .. Len(Known) - 1)

\* _quality: whether every graded agent of the workflow has a score.
QualityStatus(rows) ==
    LET graded == {r \in rows : r.agent \in Graded}
        measured == WithNumbers(graded, "quality")
    IN CASE Graded = {} -> "not_applicable"
         [] Graded # {} /\ measured = {} -> "unavailable"
         [] measured # {} /\ Cardinality(measured) = Cardinality(Graded) -> "measured"
         [] OTHER -> "partial"

\* summarize_workflow: completed when every agent's call was there and succeeded.
SummarizeWorkflow(run) ==
    [id |-> run.id, rows |-> run.rows,
     completed |-> /\ {r.agent : r \in {q \in run.rows : q.success}} = AgentSet
                   /\ \A r \in run.rows : r.success,
     error_count |-> Cardinality({r \in run.rows : ~r.success}),
     quality_status |-> QualityStatus(run.rows)]

\* _resource_summary, as far as what is available goes.
ResourceStatus(samples) ==
    LET Has(source) == \E i \in DOMAIN samples : samples[i][source] # None
    IN [gpu   |-> IF Has("gpu") THEN "measured" ELSE "unavailable",
        host  |-> IF ~Has("host") THEN "unavailable"
                  ELSE IF config.scope = "control_plane_only" THEN config.scope ELSE "measured",
        queue |-> IF Has("queue") THEN "measured" ELSE "unavailable"]

\* _empty_comparison
EmptyComparison ==
    [status |-> "unavailable", started |-> 0, completed |-> 0, calls |-> 0, tokens |-> None,
     p50 |-> None, p95 |-> None, p99 |-> None, idle |-> None, resources |-> None,
     baseline |-> FALSE]

\* _comparison_from_measurements
ComparisonFrom(requests, windows, samples) ==
    LET calls == {r \in requests : r.model_call}
    IN [status |-> IF calls = {} THEN "control_plane_only"
                   ELSE IF \E r \in requests : ~r.success THEN "partial" ELSE "measured",
        started   |-> Total(windows, "started"),
        completed |-> Total(windows, "completed"),
        calls     |-> Cardinality(calls),
        tokens    |-> CompleteSum(calls, "tokens"),
        p50 |-> Percentile(calls, "latency", 50),
        p95 |-> Percentile(calls, "latency", 95),
        p99 |-> Percentile(calls, "latency", 99),
        idle      |-> IdleTicks(samples),
        resources |-> ResourceStatus(samples),
        baseline  |-> FALSE]

\* _attach_shared_deltas: a row is held against the shared strategy's of its stage.
AttachSharedDeltas(rows) ==
    [k \in DOMAIN rows |->
        [rows[k] EXCEPT !.baseline =
            \E i \in DOMAIN config.strategies :
                /\ Strategies[config.strategies[i]].kind = "shared"
                /\ rows[<<i, k[2]>>].status # "unavailable"]]

Selected(rows, k) == {r \in rows : r.strategy = k[1] /\ r.stage = k[2]}

\* build_strategy_comparisons
BuildComparisons ==
    AttachSharedDeltas(
        [k \in (DOMAIN config.strategies) \X (DOMAIN Ladder) |->
            LET windows == Selected(result.windows, k)
            IN IF windows = {} THEN EmptyComparison
               ELSE ComparisonFrom(Selected(result.requests, k), windows,
                        SelectSeq(result.telemetry,
                                  LAMBDA s : s.strategy = k[1] /\ s.stage = k[2]))])

-----------------------------------------------------------------------------
(* The run. *)

Init ==
    /\ config \in Configs
    /\ place = [strategy |-> 1, stage |-> 1, repeat |-> 1] /\ phase = "preflight"
    /\ clock = 0 /\ counter = 0 /\ workers = <<>> /\ turns = <<>> /\ executed = <<>>
    /\ collector = NoCollector /\ comparisons = None /\ trouble = 0 /\ truth = {}
    /\ result = [requests |-> {}, workflows |-> <<>>, windows |-> {}, telemetry |-> <<>>,
                 skipped |-> {}]

\* A window begins: its workers are created, and in the steady one the collector.
BeginWindow(where, kind) ==
    /\ phase' = kind /\ clock' = 0 /\ counter' = 0 /\ executed' = <<>>
    /\ workers' = [w \in 1 .. Ladder[where.stage].concurrency |-> Worker("free", <<>>)]
    /\ collector' = [NoCollector EXCEPT !.state = IF kind = "steady" THEN "sampling" ELSE "off"]

BeginRepeat(where) ==
    BeginWindow(where, IF config.warmup /\ ~config.plan THEN "warmup" ELSE "steady")

NextStrategy ==
    IF place.strategy < Len(config.strategies)
    THEN /\ place' = [strategy |-> place.strategy + 1, stage |-> 1, repeat |-> 1]
         /\ phase' = "preflight" /\ UNCHANGED comparisons
    ELSE phase' = "done" /\ comparisons' = BuildComparisons /\ UNCHANGED place

\* _run_strategy: one that cannot run is skipped and says why.
Skip ==
    /\ phase = "preflight" /\ ~config.plan /\ UnavailableReasons(strategy) # {}
    /\ result' = [result EXCEPT !.skipped = @ \cup {place.strategy}]
    /\ NextStrategy
    /\ UNCHANGED <<config, clock, counter, workers, turns, executed, collector, trouble, truth>>

RunStrategy ==
    /\ phase = "preflight" /\ (config.plan \/ UnavailableReasons(strategy) = {})
    /\ turns' = [k \in DOMAIN strategy.routes |-> 0]
    /\ BeginRepeat(place)
    /\ UNCHANGED <<config, place, result, comparisons, trouble, truth>>

Window == phase \in {"warmup", "steady"}
LoadUnchanged == UNCHANGED <<config, place, phase, collector, result, comparisons>>

\* _execute_workflow: the agents that are called together once those in done have
\* answered, all of them when the stage is synchronized.
NextGroup(done) ==
    SelectSeq(Agents, LAMBDA a :
        /\ a \notin done
        /\ stage.synchronized \/ \A b \in AgentSet \ done : Order[a] <= Order[b])

Call(agents, w, run) ==
    /\ turns' = TurnsAfter(agents)
    /\ workers' = [workers EXCEPT ![w] =
           [run EXCEPT !.calls = {<<agents[i], Resolve(agents, i)>> : i \in DOMAIN agents}]]

\* What ends a worker: the cap where there is one, and only without it the deadline.
MayStart ==
    IF config.cap # None THEN counter < config.cap
    ELSE IF config.plan THEN counter < stage.concurrency
    ELSE clock < Ticks

\* worker: the next index is taken under the lock.
StartWorkflow(w) ==
    /\ Window /\ workers[w].state = "free" /\ MayStart /\ counter < MaxStarted
    /\ counter' = counter + 1
    /\ Call(NextGroup({}), w,
            Worker("busy", <<place.strategy, place.stage, place.repeat, counter>>))
    /\ LoadUnchanged /\ UNCHANGED <<clock, executed, trouble, truth>>

EndWorker(w) ==
    /\ Window /\ workers[w].state = "free" /\ ~(MayStart /\ counter < MaxStarted)
    /\ workers' = [workers EXCEPT ![w] = Worker("ended", <<>>)]
    /\ LoadUnchanged /\ UNCHANGED <<clock, counter, turns, executed, trouble, truth>>

Busy(w) == workers[w].state = "busy"

\* _execute_agent, and the row that _request_metric makes of it.
Complete(w, call, outcome) ==
    LET run == workers[w]
        row == [strategy |-> place.strategy, stage |-> place.stage, id |-> run.id,
                agent |-> call[1], endpoint |-> call[2], success |-> outcome.success,
                model_call |-> outcome.model_call, latency |-> outcome.latency,
                tokens |-> outcome.tokens, quality |-> outcome.quality]
        after == [run EXCEPT !.rows = @ \cup {row}, !.calls = @ \ {call}]
        done == {r.agent : r \in after.rows}
    IN /\ truth' = truth \cup {[steady |-> phase = "steady", row |-> row]}
       /\ IF after.calls # {} \/ done = AgentSet
          THEN workers' = [workers EXCEPT ![w] = after] /\ UNCHANGED turns
          ELSE Call(NextGroup(done), w, after)
       /\ LoadUnchanged /\ UNCHANGED <<clock, counter, executed>>

Answer(w) ==
    /\ Window /\ Busy(w) /\ UNCHANGED trouble
    /\ \E call \in workers[w].calls :
          Complete(w, call, IF config.plan THEN PlannedOutcome ELSE WellAnswered(call[1]))
AnswerPoorly(w) ==
    /\ Window /\ Busy(w) /\ ~config.plan /\ trouble < config.poor /\ trouble' = trouble + 1
    /\ \E call \in workers[w].calls :
          \E outcome \in PoorOutcomes(call[1]) : Complete(w, call, outcome)

\* The workflow is over; a warmup's is not kept.
FinishWorkflow(w) ==
    /\ Window /\ Busy(w) /\ workers[w].calls = {}
    /\ executed' = IF phase = "steady"
                   THEN Append(executed, [id |-> workers[w].id, rows |-> workers[w].rows])
                   ELSE executed
    /\ workers' = [workers EXCEPT ![w] = Worker("free", <<>>)]
    /\ LoadUnchanged /\ UNCHANGED <<clock, counter, turns, trouble, truth>>

Tick ==
    /\ Window /\ ~config.plan /\ clock < Ticks /\ clock' = clock + 1
    /\ LoadUnchanged /\ UNCHANGED <<counter, workers, turns, executed, trouble, truth>>

-----------------------------------------------------------------------------
(* The collector. *)

InFlight == UNION {workers[w].calls : w \in {v \in DOMAIN workers : Busy(v)}}

\* AmdSmiSampler.sample: no GPU is sampled, and none claimed, where the control plane runs.
GpuSample(available) ==
    IF available /\ config.scope = "cloud_inference_host" THEN 1 ELSE None
\* VllmMetricsClient.sample: 0 when no request is waiting or running at the endpoints.
QueueSample(available) ==
    CASE ~available \/ config.plan -> None
      [] available /\ ~config.plan -> IF InFlight = {} THEN 0 ELSE 1

\* _sample_once: the sources that have nothing say so. last is history.
Sample(available) ==
    [strategy |-> place.strategy, stage |-> place.stage, repeat |-> place.repeat, at |-> clock,
     host |-> 1, gpu |-> GpuSample(available), queue |-> QueueSample(available),
     last |-> \A w \in DOMAIN workers : workers[w].state = "ended"]

\* TelemetryCollector._run: a sample that began is kept, and the stop is looked at only
\* after one, so that a stop while waiting still makes a last sample.
StateAfterSample(stop) == IF stop THEN "ended" ELSE "waiting"
TakeSample(available) ==
    /\ collector.state = "sampling"
    /\ ~available => trouble < config.poor
    /\ trouble' = IF available THEN trouble ELSE trouble + 1
    /\ collector' = [collector EXCEPT !.samples = Append(@, Sample(available)),
                                      !.state = StateAfterSample(collector.stop)]
    /\ UNCHANGED <<config, place, phase, clock, counter, workers, turns, executed, result,
                   comparisons, truth>>

\* wait_for: the interval is over, or the stop has come.
\* Mistake: a stop while waiting ends the collector at once.
WakeOrEnd == IF collector.stop THEN "ended" ELSE "sampling"
StateAfterWait == "sampling"
Wake ==
    /\ collector.state = "waiting"
    /\ collector.stop \/ collector.samples[Len(collector.samples)].at < clock
    /\ collector' = [collector EXCEPT !.state = StateAfterWait]
    /\ UNCHANGED <<config, place, phase, clock, counter, workers, turns, executed, result,
                   comparisons, trouble, truth>>

-----------------------------------------------------------------------------
(* The end of a window. *)

\* gather of the workers, and the sleep up to the deadline.
WindowOver == (\A w \in DOMAIN workers : workers[w].state = "ended") /\ (config.plan \/ clock = Ticks)

EndWarmup ==
    /\ phase = "warmup" /\ WindowOver /\ BeginWindow(place, "steady")
    /\ UNCHANGED <<config, place, turns, result, comparisons, trouble, truth>>

\* TelemetryCollector.stop
StopCollector ==
    /\ phase = "steady" /\ WindowOver /\ phase' = "stopping"
    /\ collector' = [collector EXCEPT !.stop = TRUE]
    /\ UNCHANGED <<config, place, clock, counter, workers, turns, executed, result, comparisons,
                   trouble, truth>>

\* The completed ones among this window's workflows, which are the last of the result's.
\* Mistake: a slice of the last 0 rows is a slice of all of them.
CompletedOfSlice(workflows) ==
    LET from == IF executed = <<>> THEN 1 ELSE Len(workflows) - Len(executed) + 1
    IN Cardinality({i \in from .. Len(workflows) : workflows[i].completed})
CompletedOfWindow(workflows) ==
    IF executed = <<>> THEN 0
    ELSE Cardinality({i \in Len(workflows) - Len(executed) + 1 .. Len(workflows) :
                        workflows[i].completed})

\* _append_repeat_results
AppendRepeatResults ==
    LET workflows == result.workflows \o [i \in DOMAIN executed |-> SummarizeWorkflow(executed[i])]
    IN result' = [result EXCEPT
          !.telemetry = @ \o collector.samples,
          !.requests = @ \cup UNION {executed[i].rows : i \in DOMAIN executed},
          !.workflows = workflows,
          !.windows = @ \cup {[strategy |-> place.strategy, stage |-> place.stage,
                               repeat |-> place.repeat, started |-> Len(executed),
                               completed |-> CompletedOfWindow(workflows)]}]

\* The repeat that follows in the ladder.
Following ==
    IF place.repeat < Repeats THEN [place EXCEPT !.repeat = @ + 1]
    ELSE IF place.stage < Len(Ladder) THEN [place EXCEPT !.repeat = 1, !.stage = @ + 1]
    ELSE place

EndRepeat ==
    /\ phase = "stopping" /\ collector.state = "ended" /\ Following # place
    /\ AppendRepeatResults /\ place' = Following /\ BeginRepeat(Following)
    /\ UNCHANGED <<config, turns, comparisons, trouble, truth>>

EndStrategy ==
    /\ phase = "stopping" /\ collector.state = "ended" /\ Following = place
    /\ AppendRepeatResults
    /\ phase' = "summary" /\ collector' = NoCollector /\ executed' = <<>> /\ workers' = <<>>
    /\ turns' = <<>> /\ clock' = 0 /\ counter' = 0
    /\ UNCHANGED <<config, place, comparisons, trouble, truth>>

\* run: the next strategy, or the comparisons of all.
Summarize ==
    /\ phase = "summary" /\ NextStrategy
    /\ UNCHANGED <<config, clock, counter, workers, turns, executed, collector, result, trouble,
                   truth>>

\* cli.main
ExitCode == IF result.skipped # {} /\ result.windows = {} THEN 2 ELSE 0

Next ==
    \/ Skip \/ RunStrategy
    \/ \E w \in DOMAIN workers :
          StartWorkflow(w) \/ EndWorker(w) \/ Answer(w) \/ AnswerPoorly(w) \/ FinishWorkflow(w)
    \/ Tick \/ Wake \/ \E available \in BOOLEAN : TakeSample(available)
    \/ EndWarmup \/ StopCollector \/ EndRepeat \/ EndStrategy \/ Summarize

Spec == Init /\ [][Next]_vars

-----------------------------------------------------------------------------
(* Properties. *)

TypeOK ==
    /\ config \in Configs /\ phase \in {"preflight", "warmup", "steady", "stopping", "summary", "done"}
    /\ clock \in 0 .. Ticks /\ counter \in 0 .. MaxStarted /\ trouble \in 0 .. config.poor
    /\ collector.state \in {"off", "sampling", "waiting", "ended"}

Called(k) == {t.row : t \in {u \in truth : u.steady /\ u.row.strategy = k[1] /\ u.row.stage = k[2]}}

\* What the comparison of a strategy and stage says is what happened in its steady
\* windows: every call that was made is counted and none of a warmup; the workflows
\* counted as completed are those whose calls all succeeded; a sum is given only when
\* every call supplied its number; and no number stands for a strategy that was skipped
\* or, in a plan, not called (build_strategy_comparisons; reporting.py:261 "Unavailable
\* fields remain blank"). The command fails when there is nothing else to report.
ComparisonsAreHonest ==
    comparisons # None =>
      /\ ExitCode = 0 => \E k \in DOMAIN comparisons : comparisons[k].status # "unavailable"
      /\ \A k \in DOMAIN comparisons :
        LET c == comparisons[k]
            ids == {r.id : r \in Called(k)}
            calls == {r \in Called(k) : r.model_call}
        IN /\ (c.status = "unavailable") = (k[1] \in result.skipped)
           /\ c.started = Cardinality(ids)
           /\ c.completed = Cardinality({i \in ids : \A r \in Called(k) : r.id = i => r.success})
           /\ c.calls = Cardinality(calls)
           /\ c.status = "measured" => calls # {} /\ \A r \in calls : r.success
           /\ (c.tokens # None) = (calls # {} /\ \A r \in calls : r.tokens # None)
           /\ c.tokens # None => c.tokens = c.calls
           /\ c.p50 # None => c.p50 <= c.p95 /\ c.p95 <= c.p99
           /\ c.idle # None => c.idle <= Repeats * Ticks
           /\ c.resources # None /\ config.scope = "control_plane_only" =>
                c.resources.gpu = "unavailable" /\ c.resources.host # "measured"

\* An agent is called only when every agent of a lower order has answered in its
\* workflow, unless the stage calls all at once (_execute_workflow).
GroupsAreOrdered ==
    \A w \in DOMAIN workers : Busy(w) =>
        \A call \in workers[w].calls : \A a \in AgentSet :
            ~stage.synchronized /\ Order[a] < Order[call[1]] =>
                \E r \in workers[w].rows : r.agent = a

\* The calls of a strategy are spread over a pool's endpoints to within one, through all
\* its stages, warmups and concurrent workflows (StrategyRouter.resolve).
LoadIsSpread ==
    Window =>
        LET asked(key, e) ==
                Cardinality({t \in truth : /\ t.row.strategy = place.strategy
                                           /\ t.row.endpoint = e /\ RouteKey(t.row.agent) = key})
                + Cardinality({<<w, call>> \in (DOMAIN workers) \X InFlight :
                        /\ call \in workers[w].calls
                        /\ call[2] = e /\ RouteKey(call[1]) = key})
        IN \A key \in DOMAIN strategy.routes : \A e, f \in Range(strategy.routes[key]) :
              asked(key, e) <= asked(key, f) + 1

\* The telemetry of a recorded window reaches past its last workflow
\* (TelemetryCollector.stop).
TelemetrySpansWindow ==
    \A x \in result.windows :
        LET own == SelectSeq(result.telemetry, LAMBDA s :
                      s.strategy = x.strategy /\ s.stage = x.stage /\ s.repeat = x.repeat)
        IN own # <<>> /\ own[Len(own)].last

BenchmarkIsHonest ==
    ComparisonsAreHonest /\ GroupsAreOrdered /\ LoadIsSpread /\ TelemetrySpansWindow
=============================================================================
