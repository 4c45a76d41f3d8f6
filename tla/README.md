# ShelfWise: a TLA+ model of its pipelines

ShelfWise is a retail back office: it takes events from stores and source
systems, runs cascades of agents over them, proposes decisions to managers,
files the work that follows from an approval, keeps a digital twin of each
store, and carries the tools that test, benchmark and train what it runs on. The
Python code is short on locks and long on *protocols*: several HTTP handlers, a
worker loop, poll loops and scheduled services share Postgres tables and a Redis
stream, every store call is a transaction of its own, and what makes the system
correct is the order of the calls, the keys that make them idempotent and what a
retry finds. This directory models those protocols and the rules they carry,
checks them with TLC on small instances, and proves the invariants of most of
them with TLAPS, for every size of them.

Paths below are relative to `src/src/` of the repository.

## 1. Inventory

### Components modelled

| Component (source) | State | Operations | Module |
|---|---|---|---|
| Event intake spine (`shelfwise_backend/ingest_pipeline.py`, `event_store.py`) | stored payload and `published` flag per event id | record, compare, self-heal, observe, project, publish, mark, cascade | `EventIngest` |
| Connector intake (`connector_poll_service.py`, `connectors/poll.py`, `inbound_store.py`, `app.py` 1508-1565) | inbound records, poll cursor, each handler's page or payload | `pull`, webhook delivery, `_process_inbound_record` | `ConnectorIntake` (composes `EventIngest`) |
| Mapping of records (`shelfwise_connectors/connectors/systems/`, `normalize.py`) | none: payloads to records to events | one mapper per source system | `RecordMapping` |
| Intake routes, CSV files, catalogue (`app.py`, `shelfwise_connectors/gateway.py`, `csv_intake.py`, `shelfwise_catalog/store.py`) | inbound records, products, variants, codes, previews | intake of a payload, preview, commit | `SourceIntake` |
| Connector configuration and poll order (`credentials.py`, `odoo.py`, `webhook_endpoints.py`) | stored credentials, watermark, endpoints | store, delete, provision, revoke, poll run | `PollSchedule` |
| Cold-chain drill (`shelfwise_resilience/`, `cold_chain_feed.py`) | last states per asset, windows, alerts, buffer | start, stop, each reading | `ColdChainFeed` |
| Event bus, worker, loop, journal (`event_bus.py`, `worker/`) | stream, pending entries, dead letters, runs, steps, decisions | consume, `process_one` call by call, nack, sweep, trim, crash | `CascadeWorker` |
| Deterministic cascades (`cascade.py`, `cascade_dispatcher.py`) | none: event and facts to decision | one builder per kind of event | `CascadeRules` |
| Agentic cascades, tool loop, drills (`agentic_cascade.py`, `shelfwise_inference/orchestration.py`, `routes_scenarios.py`) | occurrence slots, cards, each click's agents | click, model call, tool call, verdict, gate, record, wait | `AgentCascade` |
| Final answers (`shelfwise_inference/tool_calling.py`) | none: text and schema to value or rejection | parse, check the schema, validate | `AnswerSchema` |
| Decision store, approval and completion routes, learning store, write-back sink | decisions, learning events, thresholds with row locks, tasks, positions of a relocation | propose, approve, reject, learn, file, annotate, complete, verify | `DecisionLifecycle`, against the abstract `ApprovalLoop` |
| Governed plan runner (`worker/plans.py`) | journal per plan and step, filed tasks | validate, replay or execute each step, finish | `PlanRunner` |
| Fidelity revalidation (`governed_execution.py`) | journaled scores, drift tasks | the scheduled pass and its two plans per store | `FidelityRevalidation` |
| Digital twin and edge batches (`shelfwise_twin/`, `twin_projection.py`, `routes_twin.py`) | observation ledger, entities, links, properties, batch claims | inline, worker, edge, onboarding, bootstrap | `TwinProjection` |
| Inventory positions (`shelfwise_inventory/store.py`) | quantities per bin, receipts, row locks | project an event, manual write, relocation | `InventoryPositions` |
| Open orders and reorder candidates (`open_orders.py`, `candidate_store.py`) | order as merged, candidate and its history | observe an event, read the attention queue, suppress | `OpenOrders`, `ReorderQueue` |
| Work accounts (`routes_accounts.py`, `account_tokens.py`, `shelfwise_storage/accounts.py`) | accounts, session versions, links, audit | bootstrap, login, invite, activate, reset, change, deactivate | `WorkAccounts` |
| Chat (`app.py`, `chat.py`, `chat_store.py`, `conversation_memory.py`, `retrieval_planning.py`) | transcript, summary, memory items, answered ids | one message from lock to answer | `ChatMemory` |
| Skills and evidence (`shelfwise_mlops/registry.py`, `skill_registry.py`, `routes_mlops.py`) | manifests per owner, evaluations | register, seed, promote, retire, discover, record | `SkillRegistry` |
| Memory consolidation (`worker/memory.py`, `shelfwise_mlops/facts.py`, `memory_consolidation.py`, `skills.py`) | outcomes, facts, journal, playbooks | learn, consolidate, activate | `OutcomeMemory` |
| Traces and attribution (`adaptive_attribution.py`, `trace.py`, `model_runs.py`) | bounded registry of traces, model runs | record a cascade, a model run, a failure | `TraceAttribution` |
| Full-system campaign (`shelfwise_eval/full_system.py`) | cycle, faults, decisions, receipts | the driver's whole course and its report | `FullSystemRun` |
| Capability contract (`shelfwise_capabilities/`) | source tree, manifest, waivers, base branch | edit, write, merge, days pass | `CapabilityContract` |
| Benchmark (`shelfwise_benchmark/`) | stages, windows, workers, telemetry, rows | preflight, workflow steps, sampling, comparison | `InferenceBenchmark` |
| Training (`shelfwise/training/`) | datasets, adapters, registry, report | build, preflight, train twice, evaluate, probe, report | `TrainingPipeline` |
| Deployment shakedown (`scripts/deployment_shakedown.py`) | counters, failures, verdict | each request of the run | `DeploymentShakedown` |

### How they interact

Source systems are polled or deliver webhooks and files (`PollSchedule`,
`RecordMapping`, `SourceIntake`, `ConnectorIntake`); each record that is new
becomes an event and goes through `record_pipeline_event` (`EventIngest`), which
stores it, moves the ledgers (`InventoryPositions`, `OpenOrders`) and the twin
(`TwinProjection`), and publishes it. Without a worker the request runs the
cascade itself; with one, the message waits on the stream for a worker process
(`CascadeWorker`). A cascade is computed (`CascadeRules`) or made by agents
(`AgentCascade`, whose answers `AnswerSchema` validates), leaves a trace
(`TraceAttribution`) and a decision in the decision store. Managers approve or
reject it (`DecisionLifecycle`); an approval teaches the learning store and files
a task in the write-back sink; completing the task reports back to the decision
and moves stock. Outcomes become facts and playbooks (`OutcomeMemory`) and
skills (`SkillRegistry`); staff work with accounts (`WorkAccounts`), the
attention queue (`ReorderQueue`) and the chat (`ChatMemory`). Operators and
schedules run plans over a journal (`PlanRunner`); the fidelity service
(`FidelityRevalidation`) is one such schedule. The remaining modules are the
programs around the system: campaign, contract, benchmark, training, shakedown.
Everything is keyed by tenant and data domain; the models have one of each
unless the property is about them.

### What is hard here

* **Handlers interleave at every store call.** FastAPI runs synchronous handlers
  in threads and several backends may share the tables: `is_published`, `get`,
  the read half of `annotate`, of an order's merge or of a property's projection
  may be stale when they are used.
* **A failure between two calls.** Nothing spans the event store, the ledgers
  and the bus, nor the decision, the learning event and the task, nor a summary
  and the items extracted with it. Recovery is a retry that must finish what is
  missing and not repeat what is done.
* **At-least-once delivery.** Messages are copied by self-heals, redelivered
  after failures, reclaimed from dead processes, trimmed by MAXLEN.
* **Replay by key.** The journal, the inbound store, chat message ids, receipts
  and the write-back keys decide by a key that something has been done. A key
  stored too early loses work; a key that is too coarse replays what should be
  computed anew.
* **Input that is incomplete.** Payload lines without ids, unreadable numbers,
  JSON that is nearly right: which of it is refused, quarantined or applied.
* **Verdicts about runs.** Campaign, benchmark, training and shakedown each end
  in one sentence about thousands of steps that may fail in any of them.
* **Liveness.** Poison messages, crashed consumers, row locks, poll cursors.

`PROJECT.json` lists the hazards line by line with the properties that address
them.

### Modelled in part

| Component | What is left out |
|---|---|
| Event bus, durable journal, learning store | listings, statistics and scores (reads); the in-memory bus, whose messages die with the process |
| Edge devices | registering and revoking a device and checking a signature come before the batch |
| Fleet candidates | `link_decision` and the terminal statuses have no caller |
| Connector configuration | the connection test, which only reads; encryption is a set of fields that can or cannot be read |
| Full-system campaign | the grounding audit of chat texts, latencies, artifact files; each simple probe is one receipt |
| Benchmark | the parsers of `amd-smi` and Prometheus text, and the written files |
| Twin scenarios, calibration, onboarding | onboarding writes are in `TwinProjection`; scenario branches and calibration are numeric and single-request |

## 2. Modules and their correspondence to the code

In every module an action is one call that commits (a statement, a transaction,
a Redis command) together with the local control flow up to the next one. The
`pc`/`step` variable of a handler is its position between two calls; `Abort`,
`Fault`, `Crash`, `...Raises` are the same call raising, or the process dying
before it. `PROJECT.json` maps each definition to its lines. Each property has a
*mistake* in its module, an operator named and commented as such (`...Skipped`,
`...Overwrites`): a plausible bug that replaces the action it stands before and
makes the property fail. Mistakes are not part of any specification.

### EventIngest

`store` and `published` are the event table, `bus` the stream, `observed`,
`receipts`, `applied` and `twin` the ledgers, `answers` the responses so far.
`Record` is `INSERT ... ON CONFLICT DO NOTHING`; a known id is compared with the
stored payload (409 when different) and then asked for its published flag: a
published event is a duplicate, an unpublished one is *healed* by going through
all later steps again. Inventory is projected behind a replay receipt in one
transaction. A twin projection that raises is logged and the request goes on.
`Queued` holds the handlers of processes with a worker, which answer `accepted`
after `mark_published`; the others run the cascade after it and answer with its
result (`cascaded`). Events are identities and contents opaque; the decision a
cascade computes is abstracted to whether there is one.

### ConnectorIntake

Composes `EventIngest` by `Ingest == INSTANCE EventIngest` over the same
variables: a handler in step `pipeline` takes the spine's own steps. A record
is an object and the value it had when it was read: the object gives the event
id, the value the payload hash. `Pages` is the source's listing, a cursor is the
number of pages read. `EndPage` stores the next cursor only after the page's
records are processed and deletes it after the last page. `Change` lets the
source move. `Eventless` values are the records that end at the inbound store:
those that fail validation and the kinds `record_to_event` maps to nothing.
`taken` (records the source will not send again) and `failed` (records whose
processing raised) are history variables.

### CascadeWorker

Redis is external and modelled from the calls of `RedisStreamsEventBus`: `bus`
numbers the messages, `trimmed` is what MAXLEN has dropped, `pel` the pending
entries with owner and delivery count, `dead` the dead-letter stream.
`consume_one` reads the consumer's own pending entries first
(`ConsumePending`), which is why two threads of one process can work on one
message. `process_one` is `StartRun`, `CascadeGet`, `Handler`, `CascadePut`,
`PersistGet`, `Upsert`, `PersistPut`, `FinishDone`, `Ack`, and on an exception
`FinishFailed`, `Nack` or the two halves of dead-lettering. `Sweep` is
`reclaim_stale` after the idle time. `Outcomes` gives the results a cascade may
have, because facts change between two runs of it.

### DecisionLifecycle and ApprovalLoop

`row` is the decision table with its whole payload (status, content and the
annotations that routes write), `learning`, `thresholds`, `tasks` and `moved` the
other stores, `lock` the `FOR UPDATE` lock of a threshold. A request is a call
record and walks through the store calls of its route. `upsert`, `_transition`
and `annotate` read in one transaction and write in another, so the payload in
hand (`rec`) may be stale; the update of a transition is guarded by the pending
status, that of `annotate` is not.

`ApprovalLoop` is the contract a manager relies on, in one page: a decision may
be revised until it is approved or rejected and then stands; it is learned once,
as what it became; only an approved decision has a task, one, for the content
approved; a task is completed once. `ApprovalContract` states that
`DecisionLifecycle` implements it under the mapping
`row |-> decision, learning |-> learned, tasks |-> task`.

### PlanRunner and FidelityRevalidation

`PlanRunner` runs the steps of a plan over the journal: a journaled step is
replayed, any other is executed and journaled (with the second look inside
`journaled`), a failing one ends the run. Reads return a numbered observation,
writes the task of their idempotency key. `FidelityRevalidation` is the service
loop over two one-step plans per store; scores are told apart by their side of
the threshold.

### TwinProjection

`recorded` is the append-only ledger, `property` what the twin shows, `entity`
and `linked` the graph, `manifest` the bootstrap's record. A thread walks through
the observations of its event, batch or bootstrap: ensure the entity, link it,
record, read the property, compare (`MayReplace`: newer, then of higher
precedence, then the larger id), write. The pool's requests, the recovery
worker, the event loop (edge batches, one at a time) and the bootstrap do this
side by side. A bootstrap takes the manifest's entities (`Seeds`) in their order
and then replays, in the order of their time, the stored events it has read: any of
them, as the route lists the tenant's newest 500 and skips rows that do not parse
(`rest` is what it has still to replay, `Replay` takes the next). `disturbed` marks the properties on which two
threads have been between read and write at once, for which the code promises
nothing.

`GovernedPlans` puts `PlanRunner` and `FidelityRevalidation` side by side, as the
two users of the journal beside the cascades, and states of both what a finished
plan and a drift task stand for (`PlansAreBacked`).

### InventoryPositions, OpenOrders, ReorderQueue, WorkAccounts

`InventoryPositions` has Postgres' row locks as they are: a `SELECT ... FOR
UPDATE` waits for the rows it sees and locks none that are missing. `OpenOrders`
reads, merges and writes an order in two transactions; `ReorderQueue` composes it
with one candidate that every read of the attention queue observes again.
`WorkAccounts` has every account route as its sequence of transactions; passwords
are generations, links and sessions carry the version they were issued for.

### CascadeRules, AgentCascade, AnswerSchema

`CascadeRules` is pure: which builder an event goes to and what each decides from
payload fields that are missing, falsy, unreadable or proper, and from arbitrary
numbers in place of the forecasts. A live sale is the exception the code makes to its
rule that a live event brings its own fields: what it lacks of `SaleFields` comes from
what the twin knows of the product (`SaleFacts`), so that one without a price has the
catalogue's. `AgentCascade` has the occurrence slots, and
per click the two agents' bounded loop with every way a model reply, a tool or
the clock can end it, the server-side evidence checks per cascade, the binding of
the critic's verdict and the stored card. `AnswerSchema` gives the validator as
code (keyword by keyword, exceptions that a combinator catches, and one that it
does not) and, independently, the set of values a schema means; the property
compares the two.

### RecordMapping, SourceIntake, PollSchedule, ColdChainFeed

A payload is an order with lines whose fields may be missing, unreadable or not
finite; each mapper of `RecordMapping` gives a sequence of records or the
exception that ends the payload. `SourceIntake` applies them one by one over the
inbound store and the spine (abstracted to the event ids in use), and has column
inference, preview and commit of a file. `PollSchedule` rebuilds the connectors
in every run from what the owner has stored (`run` maps the positions still to be
visited to whose fields were used), visits them in the fixed order, and
reads Odoo page by page behind its watermark. `ColdChainFeed` replays a site's
scenarios reading by reading through trend, diagnosis and the bounded buffer.
`SourceSystem` extends `ConnectorIntake` and puts schedule, drill and the mapping
(`SourceIntake`) beside it, as instances over variables of their own; it is what
`MCSources` checks and `SourceSystem_proofs` is about. A request's records go through
the stores one by one, as the recursive function of `Process` says.

### ChatMemory, SkillRegistry, OutcomeMemory, TraceAttribution

`ChatMemory` is the route under the conversation's advisory lock, transaction by
transaction, with a process that may die at each. The memory reaches the model through
`assemble_context` and `fence_context`: lists and strings are cut by one of five sizes
or dropped, whatever the rest of the state makes necessary, and every string once more
to what one fenced field holds. `SkillRegistry` and
`OutcomeMemory` have the read-check-write sequences of promotion, retirement,
seeding and consolidation, on the registry in Postgres (the one in memory lists the
tenant's and the platform's row of a skill side by side); `Register` is the registry's
`upsert` for a tenant, which no route of the repository calls yet; the outcomes only grow, so their number stands for
their fingerprint. `TraceAttribution` has the comparison itself (profile, score,
quantile, threshold) on the steps of small cascades, and the registry that
evicts; scores are thousandths, rounded down.

### FullSystemRun, CapabilityContract, InferenceBenchmark, TrainingPipeline, DeploymentShakedown

Programs that judge. The system under test, the endpoints, the training
libraries and the stack are external and may do anything; history variables
(`wrong` and the like) remember what really happened, and the properties compare
the verdict with them. The fault rate of `FullSystemRun` is `FaultRate` in `RateUnit`
parts of one; the code adds it up as a float, so that a sum of exactly one may come out a
little less, and at such a tie the model allows both, a fault and none (`MaySpare`,
`MayInject`). What is carried on is then exact: the error of the float itself, some
10^-16 an event, is left out. `CapabilityContract` has discovery per kind of capability
over an abstract source tree, every validation rule, and the comparison with the
base branch while days pass and waivers expire. The base branch begins with a
manifest that the contract accepts, as one that was merged does. In
`TrainingPipeline` an adapter is saved in three steps, its weights, its tokenizer and its
manifest, between which a run may be killed or another one use what is there: an
evaluation needs the tokenizer, resuming does not. The gate compares the unrounded means of the scores, as the code does, by
multiplying out; only the pass rate it records is rounded.

### AgentSystem

What the deterministic rules and the agents decide, answer and remember, in one
place: it instantiates `CascadeRules`, `AgentCascade`, `ChatMemory`, `SkillRegistry`
and `OutcomeMemory`, each over variables of its own, and restates their properties.
Both `MCCascades` and `MCLearning` extend it, so that the property a run checks is
the very definition `AgentSystem_proofs` proves.

### MC modules

`MCCascadeWorker` and `MCDecisionLifecycle` extend the module they instantiate;
`MCCascadeWorker` has a second instance beside it, `Race`, with other constants and
the same variables. `ingest` and `fidelity_stale` need no module of their own.
`MCTwin`, `MCOperations`, `MCCascades`, `MCLearning` and `MCSources` hold several
components that share no state: a behaviour picks its `subject` at the beginning
and is a behaviour of that component, so the run explores them side by side and
not their product. `MCTwin` extends `TwinProjection` and `GovernedPlans`,
`MCOperations` extends `WorkAccounts`, `ReorderQueue` and `InventoryPositions`,
`MCCascades` and `MCLearning` extend `AgentSystem`, `MCLearning` also `CapabilityContract`
and `TrainingPipeline`, and `MCSources` extends `SourceSystem`:
there the property a run checks is the very definition a theorem is about, and the
component stays as it begins in the behaviours that have another subject; the contract
is there one that claims nothing (`NoContract`), which keeps those states small, and no
training run is started (`NoTraining`). The
properties of the others say, per subject, what the component's own property says.

## 3. Runs

| Run | Distinct states | Checks |
|---|---|---|
| `ingest` | 294 000 | the spine with three handlers |
| `connector_loss` | - | violation: `NoDataLoss` |
| `sources` | 313 000 | connector intake over the spine; mappers and files; poll schedule; cold-chain drill |
| `worker` | 294 000 | two threads of one process with trimming; two processes with a crash and poison |
| `worker_trimmed_pending` | - | violation: `FailedNeverDisappears` |
| `cascades` | 832 000 | all drills with their agents; the deterministic rules; answer validation |
| `decision` | 260 000 | four requests on two decisions and one threshold, refinement of `ApprovalLoop` |
| `decision_lost_annotation` | - | violation: `CorrectionPersists` |
| `twin` | 169 000 | twin projection; racing plan runners; the scheduled fidelity pass |
| `fidelity_stale` | - | violation: `DriftGetsTask` |
| `operations` | 594 000 | stock positions; open orders and reorder queue; work accounts |
| `learning` | 707 000 | chat; skills; facts; traces; campaign; contract; benchmark; training; shakedown |

### What the passing runs show

* **ingest.** Whatever races, dies and is sent again: the bus carries only the
  content the store holds (`OneContentPerEvent`); the published flag is never
  ahead of the bus and the ledgers (`PublishedIsComplete`); an accepted or
  duplicate answer means stored as sent and published, a 409 another content
  (`AnswersSound`); inventory moves once per event (`InventoryMovedOnce`); a
  recorded event reaches the bus as long as its client retries
  (`RecordedGetsPublished`). Once an event is published every later request for it
  is answered without a cascade, so a published event is decided, about to be,
  left to a worker, or its own request failed inside the cascade
  (`CascadesAreOwed`): no race or retry loses a cascade, only that failure does,
  see section 6.
* **sources.** No page is skipped, no record is taken through the spine by two
  handlers, and the only way to lose a record is a failure in its own processing
  (`RecordsAreApplied`); what the intake routes apply is what the source's line
  or the file's row says, and the rest is kept as refused (`SourcesAreCarried`);
  a poll uses the fields its tenant has stored now, skips nothing but ties at a
  page's end and calls a run good only when it was complete (`PollsAreCurrent`);
  the drill's alerts are the changes of its diagnosis and no danger goes unsaid
  (`FeedIsHonest`); a request without a new record changes nothing and a product
  code never changes its variant (`ImportsConverge`); and time and again the inbound store knows the
  present value of every listed object, and a source that stays up is read
  (`SourcesKeepUp`).
* **worker.** A message leaves the pending list only when its event is settled or
  dead-lettered (`NothingDisappears`), a run is `done` only when it is settled and
  decisions are journaled before they are stored (`RunsAreBacked`), and every
  message ends (`EveryLiveMessageEnds`, in the instance of two processes).
* **cascades.** One open card per drill, a trusted action only when its evidence,
  its critic and its executive earned it, and a verdict that binds
  (`CardsAreEarned`); the parts of a deterministic decision agree with each other
  and with the facts, and one about the live store takes nothing from the demonstration
  story (`VerdictIsConsistent`); a final answer is accepted exactly
  when its text denotes one value and the schema means that value
  (`AnswersAreValidated`).
* **decision.** The tables agree (`ConsequencesMatch`), answers and annotations
  stay true (`AnswersAndNotesTrue`), the requests implement the approval loop
  (`ApprovalContract`), thresholds are the largest recorded value whoever races
  (`ThresholdIsLargest`), and locks are given back (`EveryRequestEnds`).
* **twin.** An undisturbed property shows its strongest recorded observation and
  what is settled is recorded (`TwinShowsLedger`), a bootstrap that answers
  has restored the manifest and the events it read (`BootstrapComplete`), a plan
  answered as done has its steps journaled and its writes filed and a drift task
  stands for a score that was low (`PlansAreBacked`), and every event and every
  low score that is seen is dealt with in the end (`EveryEventSettles`,
  `SeenDriftGetsTask`).
* **operations.** Receipts explain the stock (`StockIsAccounted`), orders and
  suppressions rest on what was reported (`QueueIsBacked`), no session, link or
  owner outlives the change that ended it (`AccountsAreGoverned`).
* **learning.** One answer per message id (`OneAnswerPerMessage`); what its
  prompt quotes is the transcript as it is and the summary of what left the window,
  whole unless the manifest says it was cut or one string has no room for it, and the
  corrections that left are items (`MemoryIsCurrent`); skills
  are promoted on their own evidence (`SkillsAreGoverned`), which is never changed
  (`EvidenceIsKept`); facts and playbooks have their support (`FactsAreEarned`); a
  claim leaves the contract only under a waiver (`ContractHolds`); reports of
  campaign, benchmark and shakedown say only what happened, and traces are compared
  only with successes of their own family, at a threshold that at most the
  configured share of them exceeds (`ReportsAreHonest`); so do the reports of
  training (`TrainingIsHonest`).

### Where the code and its documentation disagree

* **connector_loss.** The inbound record is stored before its event is ingested
  (`app.py` 1537). When the spine raises, replaying the page answers `duplicate`
  and the cursor moves on; `poll.py` 165 says replay "prevents data loss".
* **worker_trimmed_pending.** MAXLEN trims a failed message that waits for its
  retry; the sweep then removes it from the pending list with no dead letter.
  `worker.py` 52 says a failed cascade "never silently disappears".
* **decision_lost_annotation.** Of two annotations of one decision, the later
  write saves the payload it read before the earlier one; a correction sent with
  an answered approval can be gone, against `app.py` 490.
* **fidelity_stale.** Plan ids name tenant and store only, so every pass replays
  the first score and a store that drops later gets no task, against
  `governed_execution.py` 10 and 112.

### Bounds, and why they are enough

Every bound is a constant named `Max...` and guards only the environment:
failures, crashes, changes, requests or messages. Two or three handlers suffice
for the races here, which are between one that read and one that wrote, with a
third to be overtaken. One failure reaches each point between two calls, and
its retry, which then meets no further failure. One event or decision where the
stores are keyed by it; two where thresholds, pages, bins or the stream relate
them. Two contents tell "the same" from "another". Delivery counts saturate at
`MaxRetries`. The listing of `sources` has two pages with an object on both, so
that a listing shifting during a pull and the pull's own deduplication occur;
Odoo's pages are short enough for a tie at their end. The rules of `cascades`
meet numbers on both sides of every comparison, prices around the tolerance of
15 percent and coverages around 60. Its texts are every kind of value up to three
levels with a repeated key and a boolean beside the number one; its schemas every
keyword, all pairs of them under the combinators, and three kinds of reference
cycle. In `learning` a transcript keeps three messages and one of them is recent, so that
the second exchange trims it, the third request replaces the summary of the second,
and that summary is longer than the prompt shows. The second version of a skill asks
for more evidence; two consolidations, which may overlap or die, meet four outcomes of
two groups. The campaign has its blackout in the second of three cycles; its second
event is a fault and its third a tie of the fault rate. The registry of traces holds
three while two successes make a calibration and four recordings are made.

`MCLearning`, `MCCascades` and `MCOperations` declare their interchangeable
names symmetric and check safety only. `CHECK_DEADLOCK FALSE` is set where
requests, messages or executions are bounded, so that the system may come to
rest; `ingest`, `sources` and `fidelity_stale` check deadlock.

### Fairness

* `EventIngest`: weak fairness of each handler (a thread that runs goes on) and
  strong fairness of a client's retry of an event it has no answer for. The
  second is an assumption about clients: the self-heal is in the submission
  path, nothing in the backend looks for unpublished events.
* `ConnectorIntake`, `PollSchedule`: weak fairness of each handler's steps and of
  the poll loop (`ConnectorPollService._run` loops for ever, after an exception
  too). None for webhooks, nor for a source coming up again.
* `CascadeWorker`: weak fairness of `process_one` in each thread (the loop calls
  it for ever and outlives its exceptions) and of the sweep per message (every
  surviving process runs it on an interval). Restarting a process is not fair.
* `DecisionLifecycle`: weak fairness of a request that is being served.
* `TwinProjection`: weak fairness of the recovery worker's delivery and steps.
* `FidelityRevalidation`: weak fairness of the service loop, which logs the
  exception of a pass and sleeps until the next one.
* The other modules have safety properties only.

## 4. What is proved

Eight modules hold theorems, each beside the components it is about. All hold for
every value of the constants that satisfies the component's named assumption, which
TLC evaluates for the instances of the runs: the types of the constants, that an
absent value is none of the values (nor a record or a set of those the module stores in
its place), that a first version of a skill exists (`1 \in Versions`) and that the
support a fact needs is the configured three or less, that stages, profile and policy
state a status the contract knows, and, of decisions, that an approval never
measures less than the threshold it starts from, which is zero or, of a markdown,
the prediction that `_uplift_units` raises (`Baseline`, `Measured`), and, of the
training, that an adapter that was there before a run is what its own metadata say, or
of the default revision where they name none (`MadeAsSaid`): no check of the code could
tell otherwise.
The bounds `Max...` are among the constants, so nothing depends on their size.

| Module | Theorems | Assumption |
|---|---|---|
| `EventIngest_proofs` | `TypeCorrect`, `IngestInvariant`, `AnswersAreSound`, `PublishedComplete`, `OneContent`, `InventoryOnce`, `CascadesStayOwed`; action property `StoreAppendOnly`; the campaign: `CampaignInvariance`, `CampaignsAreHonest` | `IngestAssumption`; `Campaign!ConfigAssumption` |
| `SourceSystem_proofs` | intake: `IntakeInvariant`, `AppliedAlways`; schedule: `ScheduleInvariance`, `PollsStayCurrent`; drill: `FeedInvariance`, `FeedStaysHonest`; mapping: action property `ImportsAlwaysConverge`, `CodesStayBacked`, `NothingIsEverInvented` | `IntakeAssumption`, `Ingest!IngestAssumption`; `SourceAssumption` |
| `CascadeWorker_proofs` | `WorkerInvariant`, `TypeCorrect`, `NeverDisappears`, `RunsBacked` | `WorkerAssumption` |
| `DecisionLifecycle_proofs` | `LifecycleInvariant`, `TypeCorrect`, `ConsequencesAlwaysMatch`, `AnswersAndNotes`, `ThresholdAlwaysLargest`; refinement `ContractImplemented`; the shakedown: `ShakedownInvariance`, `DeploymentVerdicts` | `LifecycleAssumption`; `Shakedown!ShakedownAssumption` |
| `GovernedPlans_proofs` | `PlanInvariant`, `DriftJustified`, `PlansBacked` | `PlanAssumption`, `Fidelity!FidelityAssumption` |
| `Operations_proofs` | accounts: `AccountInvariant`, `AccountsGoverned`; orders and queue: `QueueInvariance`, `QueueAlwaysBacked`; stock: `StockInvariance`, `ReceiptsExplainStock` | `AccountAssumption`; `QueueAssumption`; `InventoryAssumption` |
| `TwinProjection_proofs` | `TwinInvariant`, `TypeCorrect`, `ShowsLedger`, `BootstrapRestores` | `TwinAssumption` |
| `AgentSystem_proofs` | drills: `DrillInvariance`, `AgentsEarnTheirCards`; rules: `CascadesDecideConsistently`; chat: `ChatInvariance`, `ChatIsAnsweredOnce`, `ChatMemoryIsCurrent`; skills: `SkillInvariance`, `SkillsStayGoverned`, action property `EvidenceIsOnRecord`; facts: `MemoryInvariance`, `LearningIsEarned`; all at once: `SystemIsSound`; the contract: `ContractInvariance`, `ClaimsAreKept`; the training: `TrainingInvariance`, `TrainingStaysHonest` | `AgentSystemAssumption`, the conjunction of `AgentAssumption`, `ChatAssumption`, `GovernanceAssumption`, `MemoryAssumption`; `ContractAssumption`; `TrainingAssumption` |

Each follows the same argument. The properties speak of the stores, and are not
inductive by themselves: whether a write keeps them depends on what its handler
read, several transactions ago. So each invariant says, per program counter, what
a handler *may still rely on* whatever the others did since. That part survives the
steps of the others because of one lemma on what no step takes back (`Monotone`,
`Grows`, `StoresGrow`, `Evolves`), and the steps of the handler itself are then
taken one by one.

**EventIngest.** `HandlersBacked`: past `record` the store holds the handler's
content, past `observe` and `project` the ledgers have its event, past `publish`
the bus has its message. With it, publishing keeps `OneContentPerEvent`, marking
keeps `PublishedIsComplete`, answering keeps `AnswersSound`. `InventoryMovedOnce`
needs the receipt and the quantity to move in one step, as they do in
`project_event`'s transaction. `CascadesStayOwed` (`CascadesAreOwed`) follows the debt of a
published event: the handler that sets the flag takes it over, hands it to the worker or
keeps it until its cascade is stored or raises, and nobody else can cancel it.
The last section is about the campaign (`FullSystemRun`), which drives the route from
outside. `CampaignInv` says, as long as nothing was recorded as a failure, that the faults
sent so far and the remainder carried on are the rate times the events (`SharesKept`),
so that the faults keep to their share to less than one fault, that a
receipt which passed says what still is so (`ReceiptsTrue`), that a blackout not recovered
from is of the cycle before (`DarkKept`), and that whatever the system did wrong left
something on record which the audit at the end must find (`WrongsOnRecord`): a count that
cannot balance, a probe without a receipt that passed, a mismatch on the trail. The last is
where the proof needs that no probe writes a receipt of the run's own (`OwnReceipts`): a
probe that failed could otherwise be answered for by the receipt of another feature.

**SourceSystem.** Of the intake, `IntakeInv`: every record the inbound store knows is `Settled`,
that is, through the spine, in the hands of a handler, or one whose own call
raised; each poller has the pages before its own `Covered`, its batch is its page,
and all records before its position are in the inbound store. A page is covered
when each of its objects was recorded *with some value*: a listing changes while it
is read, and the code promises no more. That two handlers never take one record
through the spine follows from the inbound store, which admits a record to one of
them. Of the spine only the order matters (`Carried`): what reaches its cascade was
recorded and marked. Of the poll schedule, `ScheduleInv` has three parts that share
nothing: the watermark is the date of some page's last row, and a row at or below it
was delivered as it is or has such a date, since a page takes the oldest rows
(`WatermarkInv`); a run's connectors, and the fields its pulls used, are those of
credentials the owner has not edited since, and what a run has left together with
what it pulled is all that is configured (`RunInv`); and an endpoint's deliveries are
its tenant's (`EndpointInv`). Of the drill, `FeedInv` says how the buffer relates to
the alert in force: the newest alert of an asset is that one, or was published before
the asset was last normal (`Follows`), so a new alert always differs from the newest
one. It also says when a window may end in the present minute (`Fresh`): only after
that minute's mains and generator are read, so that no temperature is diagnosed with
older ones. That the buffer drops its oldest messages takes nothing from this, which
is the lemma `SuffixKeeps`.
Of the mapping, a request is a chain of states, one per record, and `Process` its last
(`ProcessIsChain`, `ChainExists`). What all states of a chain have in common is proved
without induction: of the positions where it failed one would be least (`LeastNumber`),
and the record before it is the counterexample. `Extends` compares such a state with
what the request found: as long as the inbound store is that of the beginning so are
event store and catalogue, and codes stay; a product's rows are written behind a record
that was new. `SoundRecord` says of what a mapper or a row's builder makes that, if it
becomes an event, the event is one `NothingIsInvented` allows, and it is proved for each
of them (`MappedIsSound`, `BuiltIsSound`); for a checkout it is that an amount is divided
only where the quantity divides it (`ExactDivision`). A file is of one of the four kinds,
a checkout's amount is a number or unreadable (`MappingAssumption`).

**CascadeWorker.** `Backed` with `JournalIsTrue`: the result a thread holds is one
that its event may have, a result on its way to the decision store is journaled, and a
thread at `finish` or `ack` has its event `Accounted`. The restriction in
`Accounted` came from the proof. Two runs of one event may disagree on whether a
decision is needed, when operational facts arrive between them
(`cascade_dispatcher.py` 41-57, `MissingOperationalFacts`); then one thread may ack
while the decision the other journaled is stored by no one. Such an event is not
`Decisive`, and of it the theorem promises only that a run was finished. The model
checks use decisive events only (`InstancesAreDecisive`), so there nothing less is
checked than that the decision is stored.

**DecisionLifecycle.** A request reads a payload, works, and writes it back whole.
`LifecycleInv` says which of these copies can still be written, and that they are
then `Current`: the row is settled, with the verdict and content of the copy, and
what its notes say of event, task and receipt is so. (A copy that was overtaken can
lack a newer note but is never wrong; that it lacks one is the lost annotation of
`decision_lost_annotation`.) `Computed` says that an approval
holding its metric's lock computed its event from the threshold that is still stored,
which with `ThresholdCovers` and `ThresholdIsLearned` gives `ThresholdIsLargest`.
`ContractImplemented` takes the actions one by one and shows each to be a step of
`ApprovalLoop` or a stutter under the mapping of section 2. The refinement needs the
invariant: that a task is filed for the approved content is part of `Current`.
The last section is about the shakedown, which opens decisions on a deployed stack and
resolves them. `ShakedownInv` says what all recorded answers are as long as no failure is
on record (`Untroubled`), that what is counted, with the decision and the replay that are
still to come, is what was asked (`Counted`), and that a stack without a bad answer leaves
no failure behind (`Spotless`). The verdict compares the number of ids with the number of
their values, which are equal just when the ids differ (`DistinctValues`).

**GovernedPlans.** `PlanInv`: every step behind a runner is journaled, has its
output in hand, and, if it is a write, is filed (`Progress`); and a journaled write
was filed (`JournalIsFiled`), which is the order in `PlanRunner.run`. A runner that
finds a step journaled by another one relies on this alone. `FidelityInv` says the same of the revalidation, and that a pass about to
file saw a low score; `PlansBacked` combines the two.

**Operations.** Of the accounts, `SessionsAge`: a session, or a row read for a session to come, is
not newer than its account, and agrees with it when it is as new. So any change that
raises the version ends it. `LinksFresh`: a stored link is stored in one place and
was not used. `FirstOwner`: at most one account was ever bootstrapped. `OwnersStay`: as long as no
two deactivations of owners have crossed, the one under way leaves an owner behind;
when two cross, the code promises nothing, which the history variable `crossing`
marks. Of orders and queue, `QueueInv`: what `observe_event` has merged and not yet
written was said by an observed event or its own and is no older than its own
(`Writable`), and the units and date a request counts on were ordered by an observed
event (`Promised`), although the order may have moved on before the candidate is
suppressed. `QueueAlwaysBacked` needs both: a suppression outlives the order it was
based on. Of the stock, `StockInv`: an open projection belongs to an event without a
receipt, and the rows it saw are still there (`OpenRows`), although their quantities may
have changed before it gets the locks. Both commits then have one argument
(`CommitKeeps`): the quantities at the location change by the difference that the
receipt states. For a count this is where a row that appeared behind its back has to be
excepted; for a sale it is that bin after bin takes, together, as many units as there
are (`SumLeft`). The sums are the fold of the community module `Functions`. Its function
is shown to exist and to be unique, and every fact about sums follows from a least
set that would violate it (`LeastSubset`), which takes the place of an induction.

**TwinProjection.** `TwinInv`: what a thread was begun for is on record or still
ahead of it (`Covers`), what its earlier calls made is there (`Behind`), and a thread
about to write a property nobody disturbed is the only one there and has read
what is still shown (`Undisturbed`). From this, `StrongestShown` is kept by each
write, an ack or answer means everything is on record (`Done`), and a bootstrap that
ends has restored manifest and events.

**AgentSystem.** `DrillInv`: the occurrence slots before one that a click holds or a
queued event stands for are settled (`Reached`), and a click's result so far carries a
trusted action exactly when tools, critic and executive earned it in that click
(`Underway`). The rules have no state: `CascadesDecideConsistently` goes through the
builders, for arbitrary numbers in place of the forecasts. `ChatInv`: one request at a
time is past the advisory lock (`OthersWait`), what it has read of transcript and
summary is still so (`Serving`), and so is what assembling the prompt leaves of it
(`AssembledShows`); ids on the transcript are distinct and paired, and a
correction's item is missing only where a process died between the summary and its
extraction. `SkillInv`: what a promotion or a retirement has read and may still write
(`Deciding`), and that it was judged by evidence of that version (`Judged`), which no
step replaces. `MemoryInv`: outcomes only grow, so a consolidation's plan claims no
more support than there is now (`Reading`); as long as no two consolidations overlap,
the one under way has written what its fingerprint asks for (`Alone`). `SystemIsSound`
joins the five: they share no table, so the conjunction of their specifications has all
these properties. `ContractInv`, of `CapabilityContract`: what is edited stays typed
(`Worked`: a source of known elements, one annotation per id, rows with a status), and
the ids of the base's rows are distinct, so that "the row of this id", which the
comparison takes, is one row. A merge then keeps the ranks because each of its three
checks was empty for an id no unexpired waiver names (`SoundManifest`, `NoDrift`,
`NoRegression`); no count of the merges is needed, as the history `best` carries over.
`TrainingInv`, of `TrainingPipeline`: an adapter of a run is absent, saved, saved with its
tokenizer or complete, and of the run's own configuration (`AdaptersMade`); whatever of
it is there, it goes with the same configurations (`PartsAreAlike`), so that a run may be
killed between the writes, or train over an adapter another run has chosen, and what was `Chosen` stays
compatible (`Lasting`). `Recorded` ties the registry's row to its run and a passed gate to
the answers (`Earned`), `Probed` the readiness to the endpoint's own reply, and `Reported`
the report to the run. `BatchTeaches` is about the data: whatever their lengths, every row
of a batch masks the prompt and the padding and keeps the end of the answer, since of a
sequence that is too long the end is kept (`KeptIsTheEnd`, `ExampleIsTaught`,
`PaddedTeaches`). The attempt showed that the model's gate had compared rounded means,
with which a report could be ready beyond the configured limit of echoes; the code does
not round, and the model no longer does.

### What is only model-checked

* Liveness: fairness and `ENABLED` are outside the prover's reach
  (`RecordedGetsPublished`, `EveryLiveMessageEnds`, `EveryRequestEnds`,
  `EveryEventSettles`, `SeenDriftGetsTask`, `SourcesKeepUp`).
* What is recursive over its data: `AnswerSchema`'s validator and meaning
  (`AnswersAreValidated`), which are RECURSIVE operators.
* `SourcesAreCarried` as a whole. Two of its parts are proved (`CodesStayBacked`,
  `NothingIsEverInvented`). The others compare the event store with lines and rows by
  their content, so they hold only where posted payloads and files do not collide: the
  instance's do not, arbitrary ones may; and which column serves which field is a fold
  over the columns.
* `ReportsAreHonest` as a whole: two of its parts are proved, the campaign's and the
  shakedown's. Those of benchmark and traces are about sums, medians and percentiles
  of sorted rows.
* The four properties the code violates, each refuted by its run.

## 5. Plan

Done: the pipeline from a source system to a completed task, the stores beside
it, how decisions come about, what is learned from them, the programs around the
system, and the proofs of section 4. What is left for a theorem:

`InferenceBenchmark` and `TraceAttribution`, whose order of steps could be proved
without what their sums and percentiles amount to.

## 6. Further observations

Behaviour seen while modelling, for which no run is kept. The models behave this
way, and the properties are stated so that they hold of it.

Intake and sources:

* **A changed count is refused.** A polled position's event id names system,
  type and object only (`normalize.py` 30), so the second count of an object is
  a new inbound record under a used event id: the spine answers 409, which ends
  the pull; the replay skips the record. It is the part of `failed` that needs no
  failing store, and `NoDataLoss` fails with `MaxChanges = 1` and `MaxAborts = 0`
  too. The same 409 ends an intake payload or a CSV commit in its middle: two
  identical sales rows without an order id, or a second count of one product and
  location, although their preview was clean.
* **A cascade that fails in the request.** Without a worker the cascade runs
  after `mark_published` (`ingest_pipeline.py` 96): when it raises, the retry is
  a duplicate and nothing runs it again.
* Shopify and Lightspeed refuse a whole payload for an unreadable time, and raise
  on a line that is no object, where Yoco and Dynamics set the record aside.
  Lines without ids share an object id, so the second one of an order is a
  duplicate. An unreadable quantity of SAP or Syspro, or one that is not finite
  from Dynamics, raises out of the route. A Square count without a catalogue id is
  a count of "unknown".
* A previewed file may exceed the rows a commit takes; a product without a name is
  previewed as valid and refused by the catalogue. A product row whose catalogue
  write fails is a duplicate on the next commit and stays out of the catalogue.
  Stock rows with a barcode and no sku share an object id per location. A
  negative quantity of a file is text after `neutralise_formula`.
* Credentials stored in part take the place of complete ones of the environment
  and disable the connector silently; an unreadable stored credential ends every
  poll run. The connectors behind one that is down are not visited. Of the Odoo
  rows with one write date at the end of a page, the rest is skipped.
* Door readings reach the feed but not its door state, so `DOOR_AJAR` does not
  occur. A minute's energy is read after its temperature, so that at restoration
  an old 0 W may be diagnosed as a compressor failure, and a window that is still
  warming as a unit that does not cool. An alert that goes on can leave the
  buffer of 500 events.

Worker, decisions and plans:

* **Racing cascades with different results.** `journaled` returns the caller's
  own output even when another one won the journal (`journal.py` 349). If the
  event needs a decision in one of two racing runs only, the run without one can
  acknowledge the message while the other fails before it stores its decision.
  `worker` therefore has runs that differ in the decision, not in whether there
  is one.
* **A correction for a verdict that lost.** `reject_decision` annotates the
  correction before it looks at the status the store returned (`app.py` 2267):
  rejecting an approved decision with a reason marks it as rejected by its
  manager, while it stays approved and its task stands.
* **A relocation completed twice** sets the destination to the relocated units
  again, over what has happened to it since (`app.py` 2017); the source becomes 0
  whatever it held.

Twin, stock, queue, accounts:

* The recovery worker's replay of an observation is a duplicate in the ledger, so
  it does not repair a property whose projection was cut off after the ledger
  write. Entities are inserted or left alone: a store onboarded after its first
  events keeps what those gave it. The edge route does not await between claim
  and answer, so its "in progress" answer cannot occur within one process.
* A bootstrap restores the newest 500 events of the tenant that parse
  (`routes_twin.py` 260, 393); its answer counts what it read and does not say what it
  left out.
* An open-order event older than the order writes back the copy it read. An
  overdue order makes every read of the queue add two history entries. A
  suppression may be made with an expiry already past; a candidate that is
  monitored does not become new when it turns urgent.
* Resending an invitation while it is being activated turns the account back to
  invited. Two owners who deactivate each other leave none (`routes_accounts.py`
  432). An audit entry is written in a later transaction than what it is about.

Cascades and answers:

* A decision of an agentic cascade is pending where the deterministic one is
  rejected when its critic fails. The agentic sales cascade records a price within
  15 percent, the deterministic one asks for equality; a comment near
  `cascade.py` 983 says 10 percent. The cold-chain cascades use different rules.
* Of several required tools the loop enforces the first. The evidence checks look
  at a tool's first execution, whatever its arguments. Numbers are found in a
  result's text as substrings. A read timeout of the client is neither recorded nor
  typed. `CascadeDeadlineExceeded` is caught as its superclass by three of the
  cascades, so a run stopped at the deadline is answered as unavailable
  (`agentic_cascade.py` 375).
* A live sale without sku, location, quantity or unit price is completed from the
  twin's facts (`cascade.py` 815-819): without a price it is recorded as one at the
  catalogue's price, without a manager, although `_require_operational_context`
  (`cascade_dispatcher.py` 126-142) says that the "platform always fails closed".
* An operational scan with a falsy field or an unreadable severity gets the story's
  value, although `_require_operational_context` says it "always fails closed".
* `_json_equal` says "without treating booleans as numbers", but nested in a list
  `true` equals 1; `AnswersAreValidated` excludes such schemas. 1.0 is no integer,
  and `uniqueItems` tells it from 1. A reference cycle on one value ends in a
  recursion error; a reference that does not resolve makes a `not` accept.

Chat and learning:

* "A long conversation keeps its objective, corrections, and earlier turns available
  to every later answer" (`app.py` 1268-1272), but the prompt holds less: every string
  of it is cut to 500 characters by `fence_context` (`security/gateway.py` 18-26), so
  of a summary of up to 2400 the objective and the two or three oldest lines are left,
  and no manifest says so. Where the state is longer than 12 000 characters
  `assemble_context` keeps the first items of each list, which are the oldest of the
  recent turns, down to one or none. The corrections' own items are written and never
  read (`list_active` has no caller but tests), and "verbatim" is their first 320
  characters in the summary.
  A crash between the summary and its extraction leaves the corrections
  unextracted until a longer prefix is compacted. After a trim a second objective
  appears. A replay ignores `live_required` and the text of the question.
* A conversation about the live store whose question selects only learning or
  traces is answered offline from the simulated world (`chat.py` 727).
* Every process start writes the built-in manifests as promoted, so that a retired
  platform skill comes back, although `retire_skill` says "permanently"; one
  tenant's retirement changes the platform's row. Overlapping consolidations may
  leave the older fact. Facts count successes only. A record of an evaluation
  without its time, sent twice, is refused as different.
* With few references the trace threshold is the largest of their scores, so one
  reference of another length, admitted while warming up, sets it to 1 and nothing
  is suspicious any more. A failed run replaces the trace of a success with the
  same correlation id. A trace that is put again keeps its age.

Programs around the system:

* Campaign: with two world cycles the recovery from the blackout is never
  observed and the report can pass; failed periodic agentic receipts do not fail
  it; a feature with one passing and one failing receipt passes.
* Contract: a name that is only routed to is verified as soon as the orchestrator
  class exists; an expired waiver on the base blocks every change until it is
  removed; two changes may each pass against one base and break it together.
* Benchmark: a capped window waits for its deadline, which dilutes the rates;
  warm-up and steady workflows share ids; ratios against a stale strategy are
  computed before its rows are removed; a collector that raises ends the run.
* Training: readiness for deployment ignores the evaluation's gate, where
  `docs/model-training.md` 102 asks for it, and the probe compares the served
  name only; the documents put preflight before the dataset, the code after it;
  three of the case types never reach the evaluation rows of the default sizes;
  evaluations begun in one second share an id and the second run fails.
* Shakedown: a failing frontend or route receipt does not fail the verdict, a
  transport error while polling for startup does; a timed run may pass with fewer
  cycles than asked for.

## 7. Not modelled

* **Decision science, forecasting, optimisation, world generation**
  (`shelfwise_decision_science`, `shelfwise_worldgen`, `shelfwise_synthdata`, the
  numeric parts of `shelfwise_twin`): floating point
  over large data, without shared state; the models take their results as
  arbitrary.
* **Multimodal intake**: adapters around external speech and vision models.
* **Storage access and row-level security**: enforced by Postgres; the models
  have the statements' semantics, not the policies.
* **Retention**: three deletes of aged simulation rows in one transaction.
* **Interval scheduler**: nothing in the backend starts it.
* **Product policies**: reference data, written one row at a time.
* **Frontend, operational scripts, evaluation harness**: user interface and
  sequential tools without state of their own.
