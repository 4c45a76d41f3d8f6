-------------------------- MODULE TraceAttribution --------------------------
(***************************************************************************)
(* Failure attribution (shelfwise_backend/adaptive_attribution.py, trace.py,*)
(* model_runs.py, ingest_pipeline.py 119-153). Each recorded cascade is     *)
(* compared with the successes of its tenant, domain and family that the    *)
(* bounded trace registry still holds, and becomes one of them when it      *)
(* verifies and does not stand out; failed runs leave failed traces.        *)
(*                                                                          *)
(* Reading the references and putting the trace are two acquisitions of the *)
(* registry's lock. A cascade's receipts are kept as the steps compared     *)
(* (kind, name, status, attributes, metrics) and what the verification asks *)
(* of the rest of them. Scores are in thousandths, rounded down.            *)
(***************************************************************************)
EXTENDS Naturals, Sequences, FiniteSets, TLC

CONSTANTS
    Threads,          \* requests in progress
    Cascades,         \* the cascade results that may be recorded
    ModelRuns,        \* the model run receipts that may be recorded
    Failures,         \* the events whose agentic execution may fail, and their code
    Rank,             \* [labels -> Nat]: their alphabetical order
    MinSuccesses,     \* SHELFWISE_ATTRIBUTION_MIN_SUCCESSES
    Alpha,            \* SHELFWISE_ATTRIBUTION_ALPHA, in percent
    MaxItems,         \* TraceRegistry(max_items)
    MAX_STEPS,
    MaxRecorded,      \* bound on the recordings
    None

THRESHOLD_FLOOR == 350

AttributionAssumption ==
    MinSuccesses \in 2 .. 200 /\ Alpha \in 1 .. 25 /\ {MaxItems, MAX_STEPS} \subseteq Nat \ {0}

VARIABLES
    mode,       \* the settings of this process: "off", "invalid" or "on"
    order,      \* TraceRegistry._order
    traces,     \* TraceRegistry._traces
    runs,       \* [key -> Seq(ModelRuns)]: the model-run registry
    task,       \* [Threads -> record]: the recording in progress
    recorded    \* number of recordings begun

vars == <<mode, order, traces, runs, task, recorded>>

\* The registry's key of a cascade, a model run or an event.
KeyOf(r) == <<r.tenant, r.domain, r.correlation_id>>
Keys == {KeyOf(r) : r \in Cascades \cup ModelRuns \cup Failures}
Idle == [at |-> "idle"]

-----------------------------------------------------------------------------
(* What is compared, and what counts as a success. *)

\* _step: a step of kind and name, with its metrics and attributes.
Step(kind, name, status, metrics, attributes) ==
    [kind |-> kind, name |-> name, status |-> status, metrics |-> metrics,
     attributes |-> attributes]

\* spans, model calls, tool calls, evidence, then the decision; tool calls and
\* evidence have no status of their own.
extract_representation(c) ==
    LET decision == IF c.decision = None THEN <<>> ELSE <<c.decision.step>>
        steps == c.trace \o c.model_calls \o c.tool_calls \o c.evidence \o decision
    IN  SubSeq(steps, 1, IF Len(steps) < MAX_STEPS THEN Len(steps) ELSE MAX_STEPS)

AllOk(steps) == \A i \in DOMAIN steps : steps[i].status = "ok"

verify_success(c) ==
    /\ c.status = "ok"
    /\ c.decision # None /\ c.decision.id /\ c.decision.step.status \in {"pending", "approved", "rejected"}
    /\ c.decision.step.name # "unknown"
    /\ c.evidence # <<>> /\ c.concluded
    /\ AllOk(c.trace) /\ AllOk(c.model_calls)
    /\ c.agentic => c.model_calls # <<>> /\ c.tool_calls # <<>>

trajectory_family(c) ==
    <<IF c.agentic \/ c.model_calls # <<>> THEN "agentic" ELSE "cascade", c.scenario>>

\* The steps of a failed execution: its model runs and what failed.
FailedSteps(model_runs, code) ==
    LET kept == SubSeq(model_runs, 1, IF Len(model_runs) < MAX_STEPS THEN Len(model_runs)
                                      ELSE MAX_STEPS - 1)
    IN  [i \in DOMAIN kept |-> kept[i].step] \o <<Step("verification", code, "error", <<>>, <<>>)>>

-----------------------------------------------------------------------------
(* The profile of the references and the score against it. *)

Distance(m, n) == IF m < n THEN n - m ELSE m - n
Larger(m, n) == IF m < n THEN n ELSE m

\* Twice the median of a non-empty sequence of numbers.
TwiceMedian(s) ==
    LET t == SortSeq(s, <)
        n == Len(t)
    IN  t[(n + 1) \div 2] + t[(n \div 2) + 1]

\* _mode: the most frequent value, the first of the alphabet among equals.
Mode(s) ==
    LET Count(v) == Cardinality({i \in DOMAIN s : s[i] = v})
        values == {s[i] : i \in DOMAIN s}
        best == {v \in values : \A w \in values : Count(v) >= Count(w)}
    IN  CHOOSE v \in best : \A w \in best : Rank[v] <= Rank[w]

Names(steps, part) == UNION {DOMAIN part[i] : i \in DOMAIN steps}

\* The values of one metric or attribute, in the steps that have it.
ValuesOf(parts, name) ==
    LET with == SelectSeq(parts, LAMBDA p : name \in DOMAIN p)
    IN  [i \in DOMAIN with |-> with[i][name]]

\* Twice the centre, and twenty times the scale: the median absolute deviation, a tenth
\* of the centre, or one.
MetricProfile(values) ==
    LET center == TwiceMedian(values)
        spread == TwiceMedian([i \in DOMAIN values |-> Distance(2 * values[i], center)])
    IN  [center |-> center, scale |-> Larger(Larger(5 * spread, center), 20)]

ProfileStep(steps) ==
    LET metrics == [i \in DOMAIN steps |-> steps[i].metrics]
        attributes == [i \in DOMAIN steps |-> steps[i].attributes]
    IN  [kind |-> Mode([i \in DOMAIN steps |-> steps[i].kind]),
         name |-> Mode([i \in DOMAIN steps |-> steps[i].name]),
         status |-> Mode([i \in DOMAIN steps |-> steps[i].status]),
         metrics |-> [m \in Names(steps, metrics) |-> MetricProfile(ValuesOf(metrics, m))],
         attributes |-> [a \in Names(steps, attributes) |-> Mode(ValuesOf(attributes, a))]]

Longest(references) ==
    CHOOSE n \in {Len(references[i]) : i \in DOMAIN references} :
        \A i \in DOMAIN references : Len(references[i]) <= n

BuildProfile(references) ==
    [p \in 1 .. Longest(references) |->
        LET long == SelectSeq(references, LAMBDA r : Len(r) >= p)
        IN  ProfileStep([i \in DOMAIN long |-> long[i][p]])]

\* _score_step: the mean of the mismatches, one per field, attribute and metric that the
\* profile has.
ScoreStep(step, profile) ==
    LET fields == Cardinality({f \in {"kind", "name", "status"} : step[f] # profile[f]})
        attributes == Cardinality({a \in DOMAIN profile.attributes :
                          \/ a \notin DOMAIN step.attributes
                          \/ step.attributes[a] # profile.attributes[a]})
        Deviation(m) ==
            IF m \notin DOMAIN step.metrics THEN 1000
            ELSE LET d == (2000 * Distance(2 * step.metrics[m], profile.metrics[m].center))
                              \div profile.metrics[m].scale
                 IN  IF d < 1000 THEN d ELSE 1000
        Total[names \in SUBSET DOMAIN profile.metrics] ==
            IF names = {} THEN 0
            ELSE LET m == CHOOSE n \in names : TRUE IN Deviation(m) + Total[names \ {m}]
        parts == 3 + Cardinality(DOMAIN profile.attributes)
                   + Cardinality(DOMAIN profile.metrics)
    IN  (1000 * (fields + attributes) + Total[DOMAIN profile.metrics]) \div parts

\* The largest score of a position; a missing or an additional step scores all of it.
ScoreRepresentation(steps, profile) ==
    LET scores == {ScoreStep(steps[p], profile[p]) : p \in DOMAIN steps \cap DOMAIN profile}
                  \cup (IF Len(steps) = Len(profile) THEN {} ELSE {1000})
    IN  CHOOSE n \in scores : \A o \in scores : o <= n

\* Mistake: the index is rounded down.
QuantileBelow(values) ==
    values[Larger(1, ((100 - Alpha) * Len(values)) \div 100)]

\* _quantile of 1 - alpha: the least of the sorted values that many are not above.
Quantile(values) == values[Larger(1, ((100 - Alpha) * Len(values) + 99) \div 100)]

Scores(references) ==
    LET profile == BuildProfile(references)
    IN  SortSeq([i \in DOMAIN references |-> ScoreRepresentation(references[i], profile)], <)

Threshold(references) == Larger(THRESHOLD_FLOOR, Quantile(Scores(references)))

Suspicious(steps, references) ==
    /\ Len(references) >= MinSuccesses
    /\ ScoreRepresentation(steps, BuildProfile(references)) > Threshold(references)

-----------------------------------------------------------------------------
(* The traces. A trace keeps its key and its origin, from which its steps follow. *)

Steps(origin) ==
    IF origin.type = "cascade" THEN extract_representation(origin.of)
    ELSE FailedSteps(origin.runs, origin.code)
Verified(origin) == origin.type = "cascade" /\ verify_success(origin.of)

StateOf(verified, suspicious, enough) ==
    CASE suspicious -> "suspicious"
      [] ~suspicious /\ verified -> IF enough THEN "normal" ELSE "warming_up"
      [] OTHER -> IF enough THEN "failed" ELSE "failed_unscored"

\* _training_receipt
ReviewCandidate(key, verified, state) ==
    key[2] = "world_simulation" /\ verified /\ state = "normal"

\* Mistake: every verified run becomes a reference.
TraceOfVerified(key, family, origin, references) ==
    LET steps == [i \in DOMAIN references |-> Steps(references[i].origin)]
        suspicious == Suspicious(Steps(origin), steps)
        state == StateOf(Verified(origin), suspicious, Len(references) >= MinSuccesses)
    IN  [key |-> key, family |-> family, origin |-> origin, state |-> state,
         success |-> Verified(origin),
         candidate |-> ReviewCandidate(key, Verified(origin), state)]

\* build_attributed_trace, build_failed_execution_trace and _score_attribution
AttributedTrace(key, family, origin, references) ==
    LET steps == [i \in DOMAIN references |-> Steps(references[i].origin)]
        suspicious == Suspicious(Steps(origin), steps)
        state == StateOf(Verified(origin), suspicious, Len(references) >= MinSuccesses)
    IN  [key |-> key, family |-> family, origin |-> origin, state |-> state,
         success |-> Verified(origin) /\ ~suspicious,
         candidate |-> ReviewCandidate(key, Verified(origin), state)]

\* trace_from_cascade: the trace of a cascade that was not compared.
PlainTrace(key, origin) ==
    [key |-> key, family |-> None, origin |-> origin, state |-> "none", success |-> FALSE,
     candidate |-> FALSE]

\* Mistake: the references are shared between the domains.
ReferencesOfTenant(key, family) ==
    LET mine == SelectSeq(order, LAMBDA k :
                   /\ k[1] = key[1]
                   /\ traces[k].family = family /\ traces[k].success)
    IN  [i \in DOMAIN mine |-> [key |-> mine[i], family |-> family,
                                origin |-> traces[mine[i]].origin]]

successful_representations(key, family) ==
    LET mine == SelectSeq(order, LAMBDA k :
                   /\ k[1] = key[1] /\ k[2] = key[2]
                   /\ traces[k].family = family /\ traces[k].success)
    IN  [i \in DOMAIN mine |-> [key |-> mine[i], family |-> family,
                                origin |-> traces[mine[i]].origin]]

\* Mistake: the order is trimmed, the traces are not.
PutLeavingTraces(trace) ==
    LET known == trace.key \in DOMAIN traces
        full == ~known /\ Len(order) = MaxItems
    IN  /\ traces' = (trace.key :> trace) @@ traces
        /\ order' = IF known THEN order
                    ELSE Append(IF full THEN Tail(order) ELSE order, trace.key)

\* TraceRegistry.put, under its lock: a new key is the youngest, a known one keeps its age.
Put(trace) ==
    LET known == trace.key \in DOMAIN traces
        grown == IF known THEN order ELSE Append(order, trace.key)
        kept == IF Len(grown) > MaxItems THEN Tail(grown) ELSE grown
        stored == (trace.key :> trace) @@ traces
    IN  /\ order' = kept
        /\ traces' = [k \in DOMAIN stored \cap {kept[i] : i \in DOMAIN kept} |-> stored[k]]

-----------------------------------------------------------------------------
Begin(t) == task[t] = Idle /\ recorded < MaxRecorded /\ recorded' = recorded + 1
Comparing(key, family, origin) ==
    [at |-> "read", key |-> key, family |-> family, origin |-> origin]
Ran(model_runs, code) == [type |-> "failure", runs |-> model_runs, code |-> code]

\* record_cascade with the comparison switched on; when the settings are invalid, or it
\* is off, the trace is put as it is.
RecordCascade(t) ==
    /\ Begin(t)
    /\ \E c \in Cascades :
          LET origin == [type |-> "cascade", of |-> c] IN
          IF mode = "on"
          THEN /\ task' = [task EXCEPT ![t] =
                             Comparing(KeyOf(c), trajectory_family(c), origin)]
               /\ UNCHANGED <<order, traces>>
          ELSE Put(PlainTrace(KeyOf(c), origin)) /\ UNCHANGED task
    /\ UNCHANGED <<mode, runs>>

\* record_model_run: a run that failed leaves a trace of its own.
RecordModelRun(t) ==
    /\ Begin(t)
    /\ \E run \in ModelRuns :
          /\ runs' = [runs EXCEPT ![KeyOf(run)] = Append(@, run)]
          /\ task' = IF mode = "off" \/ run.step.status = "ok" THEN task
                     ELSE [task EXCEPT ![t] = Comparing(KeyOf(run), run.family,
                                                        Ran(<<run>>, "model_run_error"))]
    /\ UNCHANGED <<mode, order, traces>>

\* record_agentic_execution_failure: the family is that of the last model run, or what
\* the event says when there is none.
RecordFailure(t) ==
    /\ mode # "off" /\ Begin(t)
    /\ \E event \in Failures :
          LET key == KeyOf(event)
              family == IF runs[key] = <<>> THEN event.family ELSE runs[key][Len(runs[key])].family
          IN  task' = [task EXCEPT ![t] = Comparing(key, family, Ran(runs[key], event.code))]
    /\ UNCHANGED <<mode, order, traces, runs>>

ReadReferences(t) ==
    /\ task[t].at = "read"
    /\ LET used == successful_representations(task[t].key, task[t].family)
       IN  task' = [task EXCEPT ![t] =
                      [at |-> "put", used |-> used,
                       trace |-> AttributedTrace(task[t].key, task[t].family, task[t].origin, used)]]
    /\ UNCHANGED <<mode, order, traces, runs, recorded>>

\* The settings turn out to be invalid: a failure is only logged.
InvalidSettings(t) ==
    /\ task[t].at = "put" /\ mode = "invalid"
    /\ task' = [task EXCEPT ![t] = Idle]
    /\ UNCHANGED <<mode, order, traces, runs, recorded>>

PutTrace(t) ==
    /\ task[t].at = "put" /\ mode = "on"
    /\ Put(task[t].trace)
    /\ task' = [task EXCEPT ![t] = Idle]
    /\ UNCHANGED <<mode, runs, recorded>>

Init ==
    /\ mode \in {"off", "invalid", "on"}
    /\ order = <<>> /\ traces = <<>> /\ recorded = 0
    /\ runs = [k \in Keys |-> <<>>]
    /\ task = [t \in Threads |-> Idle]

Next == \E t \in Threads : \/ RecordCascade(t) \/ RecordModelRun(t) \/ RecordFailure(t)
                           \/ ReadReferences(t) \/ InvalidSettings(t) \/ PutTrace(t)

Spec == Init /\ [][Next]_vars

-----------------------------------------------------------------------------
TypeOK ==
    /\ recorded \in 0 .. MaxRecorded /\ Len(order) <= MaxItems
    /\ DOMAIN traces \subseteq Keys /\ DOMAIN task = Threads

Families == {<<k, traces[k].family>> : k \in DOMAIN traces}

\* All of them have the steps of the first, whatever they measured.
Alike(references) ==
    \A i \in DOMAIN references :
        /\ Len(Steps(references[i].origin)) = Len(Steps(references[1].origin))
        /\ \A p \in DOMAIN Steps(references[1].origin) :
              \A f \in {"kind", "name", "status", "attributes"} :
                  Steps(references[i].origin)[p][f] = Steps(references[1].origin)[p][f]

\* What the monitor calibrates itself with is earned (TraceRegistry,
\* _score_attribution): the registry holds, up to its limit, one trace per key; the
\* references a trace is compared with are of its own tenant, domain and family and
\* nothing that failed is among them, by whichever interleaving of recordings; a run
\* with another number of steps than references that are all alike becomes neither a
\* reference nor a candidate for training, which a trace of the operational twin never
\* is; and at most the configured share of the references lies above the threshold
\* that they set.
TracesAreEarned ==
    /\ DOMAIN traces = {order[i] : i \in DOMAIN order}
    /\ Cardinality(DOMAIN traces) = Len(order)
    /\ \A t \in Threads : task[t].at = "put" =>
          LET trace == task[t].trace
              used == task[t].used
          IN  /\ \A i \in DOMAIN used :
                    /\ used[i].key[1] = trace.key[1] /\ used[i].key[2] = trace.key[2]
                    /\ used[i].family = trace.family
                    /\ AllOk(used[i].origin.of.trace \o used[i].origin.of.model_calls)
              /\ (trace.success \/ trace.candidate) =>
                    \/ Len(used) < MinSuccesses /\ ~trace.candidate
                    \/ ~Alike(used)
                    \/ Len(Steps(trace.origin)) = Len(Steps(used[1].origin))
              /\ trace.candidate => trace.key[2] # "operational_twin" /\ trace.success
    /\ \A pair \in Families :
          LET references == successful_representations(pair[1], pair[2])
              steps == [i \in DOMAIN references |-> Steps(references[i].origin)]
              profile == BuildProfile(steps)
              threshold == Threshold(steps)
          IN  Len(references) >= MinSuccesses =>
                100 * Cardinality({i \in DOMAIN steps :
                          ScoreRepresentation(steps[i], profile) > threshold})
                    <= Alpha * Len(steps)
=============================================================================
