------------------------- MODULE CapabilityContract -------------------------
(***************************************************************************)
(* The contract between what the repository claims it can do and what its    *)
(* source shows (shelfwise_capabilities, compare_capability_manifests.py).   *)
(* Capabilities are discovered from the source, annotated by a policy and    *)
(* committed as a manifest; a change is merged when the manifest is sound,   *)
(* is what discovery finds, and regresses nothing of the base branch's,      *)
(* except under a waiver that names the capability and has not expired.      *)
(*                                                                          *)
(* Source is a set of elements <<what, name>>: what discovery's scans of the *)
(* syntax tree and of the text find. A capability's id is <<kind, name>>, an  *)
(* event consumer's also names what it is dispatched through.                *)
(* Where an element stands is left out: a moved line only asks for --write.  *)
(***************************************************************************)
EXTENDS Naturals, FiniteSets

CONSTANTS
    Source,             \* the elements a change may add or remove
    First,              \* those it has in the beginning
    WorkflowAgents,     \* workflow |-> the agents it requires
    RouteFeature, ToolFeature,   \* route, tool |-> the feature it uses, where there is one
    SurfaceRoutes,      \* surface |-> the routes it uses
    Stages,             \* training stage |-> [status, runtime]
    Profile,            \* [name, storage, bus, worker]: the deployment profile
    RequiredIds, DefaultTests,   \* the policy's: ids, and kind |-> tests
    Annotations,        \* [id, status, tests] that the policy may be given
    Waivable,           \* [id, rule] that a waiver may name
    MaxWaiverDays, MaxDay, MaxEdits,   \* bounds but for the first, which is the policy's
    Unset               \* no value

Statuses == {"declaration_only", "partial", "implemented", "verified", "demo_verified"}
STATUS_RANK == [s \in Statuses |->
    CASE s = "declaration_only" -> 0 [] s = "partial" -> 1 [] s = "implemented" -> 2
      [] s = "verified" -> 3 [] s = "demo_verified" -> 4]
VerificationRequired == {"verified", "demo_verified"}

ContractAssumption ==
    /\ \A e \in First \cup Source : e[1] = "stage" => Stages[e[2]].status \in Statuses
    /\ Profile.status \in Statuses
    /\ \A a \in Annotations : a.status \in Statuses \cup {Unset}
    /\ MaxDay \in Nat /\ MaxEdits \in Nat /\ MaxWaiverDays \in Nat

VARIABLES
    branch,     \* [source, annotations, waivers, manifest] of the change at work
    base,       \* the same, of the base branch
    day,
    edits,
    best,       \* history: id |-> the highest rank the base's manifest gave it
    excused     \* history: ids that a merge's unexpired waivers named

contractVars == <<branch, base, day, edits, best, excused>>

-----------------------------------------------------------------------------
(* Discovery, one operator per kind of capability. *)

\* The names under which the scans find something.
Found(source, what) == {e[2] : e \in {f \in source : f[1] = what}}
Has(source, what, name) == <<what, name>> \in source

Capability(kind, name, status, edges, typed) ==
    [id |-> <<kind, name>>, status |-> status, edges |-> edges, typed |-> typed, tests |-> {}]
Edge(kind, target) == [kind |-> kind, target |-> target]
Verified(kind, name, edges) == Capability(kind, name, "verified", edges, Unset)

\* Routing metadata alone is no agent, unless there is an orchestrator to route to.
discover_agents(source) ==
    LET declared == Found(source, "AgentName")
        hasClass == Has(source, "class", "AgentOrchestrator")
        MetadataOnly(n) == n \notin declared /\ ~hasClass
    IN {Capability("agent", n,
            IF MetadataOnly(n) THEN "declaration_only"
            ELSE IF n = "orchestrator" /\ ~Has(source, "call", "AgentOrchestrator")
            THEN "partial" ELSE "verified",
            {}, [metadata_only |-> MetadataOnly(n)])
          : n \in declared \cup Found(source, "STRONG_AGENT_NAMES")}

discover_workflows(source) ==
    {Verified("workflow", n, {Edge("requires", <<"agent", a>>) : a \in WorkflowAgents[n]})
        : n \in Found(source, "cascade")}

FeatureEdge(features, name) ==
    IF name \in DOMAIN features
    THEN {Edge("uses", <<"multimodal_feature", features[name]>>)} ELSE {}

discover_openapi_routes(source) ==
    {Verified("openapi_route", n, FeatureEdge(RouteFeature, n)) : n \in Found(source, "route")}

discover_tools(source) ==
    {Verified("tool", n, FeatureEdge(ToolFeature, n)) : n \in Found(source, "tool")}

\* A connector is declared, and may be catalogued, claimed to be mapped, and mapped.
discover_connectors(source) ==
    {LET catalogued == Has(source, "catalogue", n)
         mapped == Has(source, "mapper", n)
     IN Capability("connector", n,
            IF catalogued /\ mapped THEN "verified"
            ELSE IF catalogued \/ mapped THEN "partial" ELSE "declaration_only",
            {}, [catalogued |-> catalogued, mapped |-> mapped,
                 claim |-> catalogued /\ Has(source, "mapper_registered", n)])
        : n \in Found(source, "SourceSystem")}

CascadeWorker == <<"worker", "cascade_worker">>
discover_workers(source) ==
    {Verified("worker", n,
        IF n = "worker_loop_service" THEN {Edge("requires", CascadeWorker)} ELSE {})
        : n \in Found(source, "worker")}

\* An event type that the dispatcher does not mention is consumed by the ingestion.
discover_events(source) ==
    LET Dispatched(n) == Has(source, "dispatch", n)
        Consumer(n) == <<"event_consumer",
                         IF Dispatched(n) THEN "cascade_dispatcher" ELSE "ingestion_pipeline", n>>
    IN UNION {{Capability("event_type", n, "verified", {}, [consumer |-> Consumer(n)]),
               [Capability("event_consumer", n, "verified",
                    {Edge("consumes", <<"event_type", n>>)}
                        \cup IF Dispatched(n) THEN {Edge("requires", CascadeWorker)} ELSE {},
                    [event_type |-> n]) EXCEPT !.id = Consumer(n)]}
              : n \in Found(source, "EventType")}

discover_backends(source, kind) == {Verified(kind, n, {}) : n \in Found(source, kind)}
discover_worldgen_scenarios(source) ==
    {Verified("worldgen_scenario", n, {}) : n \in Found(source, "SCENARIOS")}
discover_multimodal_features(source) ==
    {Verified("multimodal_feature", n, {}) : n \in Found(source, "feature")}

discover_training_stages(source) ==
    {Capability("training_stage", n, Stages[n].status, {}, [runtime |-> Stages[n].runtime])
        : n \in Found(source, "stage")}

discover_frontend_surfaces(source) ==
    {Verified("frontend_surface", n, {Edge("uses", <<"openapi_route", r>>) : r \in SurfaceRoutes[n]})
        : n \in Found(source, "surface")}

discover_deployment_profiles ==
    {Capability("deployment_profile", Profile.name, Profile.status,
        {Edge("requires", <<"storage_backend", Profile.storage>>),
         Edge("requires", <<"bus_backend", Profile.bus>>)}
        \cup IF Profile.worker THEN {Edge("requires", <<"worker", "worker_loop_service">>)} ELSE {},
        Unset)}

\* An annotation's status and tests win; a status that wants tests gets its kind's.
apply_policy(c, annotations) ==
    LET own == {a \in annotations : a.id = c.id}
        status == IF \E a \in own : a.status # Unset
                  THEN (CHOOSE a \in own : TRUE).status ELSE c.status
        tests == IF \E a \in own : a.tests # Unset THEN (CHOOSE a \in own : TRUE).tests
                 ELSE IF status \in VerificationRequired THEN DefaultTests[c.id[1]] ELSE {}
    IN [c EXCEPT !.status = status, !.tests = tests]

discover_manifest(source, annotations) ==
    {apply_policy(c, annotations) :
        c \in discover_agents(source) \cup discover_workflows(source)
            \cup discover_openapi_routes(source) \cup discover_connectors(source)
            \cup discover_tools(source) \cup discover_workers(source)
            \cup discover_events(source)
            \cup discover_backends(source, "storage_backend")
            \cup discover_backends(source, "bus_backend")
            \cup discover_worldgen_scenarios(source) \cup discover_multimodal_features(source)
            \cup discover_training_stages(source) \cup discover_frontend_surfaces(source)
            \cup discover_deployment_profiles}

\* A manifest carries the fingerprint of its capabilities.
build_manifest(capabilities) == [capabilities |-> capabilities, fingerprint |-> capabilities]

-----------------------------------------------------------------------------
(* Validation: sets of violations, [code, id]. *)

Violation(code, id) == [code |-> code, id |-> id]
IdsOf(capabilities) == {c.id : c \in capabilities}
ById(capabilities, id) == CHOOSE c \in capabilities : c.id = id

is_waived(waivers, id, rule) ==
    \E w \in waivers : /\ w.id = id /\ w.rule = rule
                       /\ day <= w.expires /\ w.expires <= day + MaxWaiverDays

validate_waivers(waivers) ==
    {Violation("expired_waiver", w.id) : w \in {v \in waivers : v.expires < day}}
    \cup {Violation("waiver_window_too_long", w.id) :
            w \in {v \in waivers : v.expires > day + MaxWaiverDays}}

validate_typed_claims(c, capabilities) ==
    LET t == c.typed
        kind == c.id[1]
        Claim(code, holds) == IF holds THEN {Violation(code, c.id)} ELSE {}
    IN CASE kind = "connector" ->
              Claim("connector_status_conflict",
                    c.status = "declaration_only" /\ (t.catalogued \/ t.mapped))
              \cup Claim("unmapped_connector_overstated",
                    ~t.catalogued /\ ~t.mapped /\ c.status # "declaration_only")
              \cup Claim("connector_mapper_claim_conflict", t.claim /\ ~t.mapped)
         [] kind = "agent" ->
              Claim("orchestrator_misstated", c.id[2] = "orchestrator"
                    /\ (t.metadata_only # (c.status = "declaration_only")))
         [] kind = "event_type" ->
              Claim("unresolved_event_consumer",
                    t.consumer \notin IdsOf(capabilities))
         [] kind = "event_consumer" ->
              Claim("event_consumer_relationship_missing",
                    Edge("consumes", <<"event_type", t.event_type>>) \notin c.edges)
         [] kind = "training_stage" ->
              Claim("training_runtime_status_conflict",
                    t.runtime /\ STATUS_RANK[c.status] < STATUS_RANK["verified"])
         [] OTHER -> {}

nodeid_resolves(source, test) == Has(source, "test", test)

\* What one row of the manifest must satisfy; tests that do not exist are not waived.
RowViolations(c, capabilities, waivers, source) ==
    {Violation("self_relationship", c.id) : e \in {f \in c.edges : f.target = c.id}}
    \cup {Violation("unresolved_relationship", c.id) :
            e \in {f \in c.edges : f.target # c.id /\ f.target \notin IdsOf(capabilities)}}
    \cup (IF c.status \in VerificationRequired
          THEN (IF c.tests = {} /\ ~is_waived(waivers, c.id, "missing_verification")
                THEN {Violation("missing_verification_nodeids", c.id)} ELSE {})
               \cup {Violation("unresolved_verification_nodeid", c.id) :
                        t \in {u \in c.tests : ~nodeid_resolves(source, u)}}
          ELSE {})
    \cup validate_typed_claims(c, capabilities)

collect_contract_violations(change) ==
    LET manifest == change.manifest
        rows == manifest.capabilities
    IN {Violation("duplicate_capability_id", c.id) :
            c \in {d \in rows : \E e \in rows : e # d /\ e.id = d.id}}
       \cup {Violation("fingerprint_mismatch", <<>>) :
                f \in {manifest.fingerprint} \ {rows}}
       \cup {Violation("missing_capability_kind", <<k>>) :
                k \in DOMAIN DefaultTests \ {c.id[1] : c \in rows}}
       \cup {Violation("missing_required_capability", i) :
                i \in {j \in RequiredIds \ IdsOf(rows) : ~is_waived(change.waivers, j, "omission")}}
       \cup {Violation("orphan_policy_annotation", a.id) :
                a \in {b \in change.annotations : b.id \notin IdsOf(rows)}}
       \cup UNION {RowViolations(c, rows, change.waivers, change.source) : c \in rows}
       \cup validate_waivers(change.waivers)

\* Mistake: rows that discovery no longer finds are let through.
compare_discovered_only(committed, discovered, waivers) ==
    {Violation("discovery_drift", i) :
        i \in {j \in IdsOf(discovered) :
                {c \in committed : c.id = j} # {c \in discovered : c.id = j}
                /\ ~is_waived(waivers, j, "discovery_mismatch")}}

compare_discovered_manifest(committed, discovered, waivers) ==
    {Violation("discovery_drift", i) :
        i \in {j \in IdsOf(committed) \cup IdsOf(discovered) :
                {c \in committed : c.id = j} # {c \in discovered : c.id = j}
                /\ ~is_waived(waivers, j, "discovery_mismatch")}}

\* Mistake: a lower status is no regression while the row is there.
compare_baseline_by_id(baseline, current, waivers) ==
    {Violation("capability_omission", i) :
        i \in {j \in IdsOf(baseline) \ IdsOf(current) : ~is_waived(waivers, j, "omission")}}

\* What the base's manifest says that the change's no longer says.
compare_baseline_manifests(baseline, current, waivers) ==
    LET Kept == IdsOf(baseline) \cap IdsOf(current)
        Was(i) == ById(baseline, i)
        Is(i) == ById(current, i)
        Lost(code, rule, ids) ==
            {Violation(code, i) : i \in {j \in ids : ~is_waived(waivers, j, rule)}}
    IN Lost("capability_omission", "omission", IdsOf(baseline) \ IdsOf(current))
       \cup Lost("capability_downgrade", "downgrade",
                {i \in Kept : STATUS_RANK[Is(i).status] < STATUS_RANK[Was(i).status]})
       \cup Lost("relationship_removal", "relationship_removal",
                {i \in Kept : ~(Was(i).edges \subseteq Is(i).edges)})
       \cup Lost("verification_removal", "missing_verification",
                {i \in Kept : ~(Was(i).tests \subseteq Is(i).tests)})

-----------------------------------------------------------------------------
(* A change at work. *)

\* The base branch begins with a manifest that was merged.
ContractInit ==
    /\ base = [source |-> First, annotations |-> {}, waivers |-> {},
               manifest |-> build_manifest(discover_manifest(First, {}))]
    /\ branch = base /\ day = 0 /\ edits = 0 /\ excused = {}
    /\ collect_contract_violations(base) = {}
    /\ best = [i \in IdsOf(base.manifest.capabilities) |->
                  STATUS_RANK[ById(base.manifest.capabilities, i).status]]

Edit == edits < MaxEdits /\ edits' = edits + 1 /\ UNCHANGED <<base, day, best, excused>>

EditSource(e) ==
    /\ Edit
    /\ branch' = [branch EXCEPT !.source = IF e \in @ THEN @ \ {e} ELSE @ \cup {e}]
Annotate(a) ==
    /\ Edit /\ a \notin branch.annotations
    /\ branch' = [branch EXCEPT !.annotations = {b \in @ : b.id # a.id} \cup {a}]
Waive(w, expires) ==
    /\ Edit
    /\ branch' = [branch EXCEPT !.waivers = @ \cup {[id |-> w.id, rule |-> w.rule,
                                                      expires |-> expires]}]
DropWaiver(w) ==
    /\ Edit /\ branch' = [branch EXCEPT !.waivers = @ \ {w}]

\* A row's claim is raised by hand, with or without a new fingerprint.
HandEdit(c, status, refresh) ==
    /\ Edit /\ c \in branch.manifest.capabilities /\ c.status # status
    /\ LET rows == (branch.manifest.capabilities \ {c}) \cup {[c EXCEPT !.status = status]}
       IN branch' = [branch EXCEPT !.manifest =
            IF refresh THEN build_manifest(rows) ELSE [@ EXCEPT !.capabilities = rows]]

\* compare_capability_manifests.py --write
Write ==
    /\ branch' = [branch EXCEPT !.manifest =
                    build_manifest(discover_manifest(branch.source, branch.annotations))]
    /\ branch' # branch
    /\ UNCHANGED <<base, day, edits, best, excused>>

load_baseline == base.manifest.capabilities

\* compare_capability_manifests.py --base-ref finds nothing, and the change is merged.
Merge ==
    LET rows == branch.manifest.capabilities
    IN /\ branch # base
       /\ collect_contract_violations(branch) = {}
       /\ compare_discovered_manifest(rows,
              discover_manifest(branch.source, branch.annotations), branch.waivers) = {}
       /\ compare_baseline_manifests(load_baseline, rows, branch.waivers) = {}
       /\ base' = branch
       /\ best' = [i \in DOMAIN best \cup IdsOf(rows) |->
                     LET was == IF i \in DOMAIN best THEN best[i] ELSE 0
                         is  == IF i \in IdsOf(rows) THEN STATUS_RANK[ById(rows, i).status] ELSE 0
                     IN IF is > was THEN is ELSE was]
       /\ excused' = excused \cup {w.id : w \in {v \in branch.waivers : day <= v.expires}}
       /\ UNCHANGED <<branch, day, edits>>

\* The change is given up.
Abandon == branch # base /\ branch' = base /\ UNCHANGED <<base, day, edits, best, excused>>
Tomorrow == day < MaxDay /\ day' = day + 1 /\ UNCHANGED <<branch, base, edits, best, excused>>

ContractNext ==
    \/ \E e \in Source : EditSource(e)
    \/ \E a \in Annotations : Annotate(a)
    \/ \E w \in Waivable, expires \in 0..MaxDay : Waive(w, expires)
    \/ \E w \in branch.waivers : DropWaiver(w)
    \/ \E i \in {a.id : a \in Annotations}, refresh \in BOOLEAN :
            \E c \in branch.manifest.capabilities :
                c.id = i /\ HandEdit(c, "demo_verified", refresh)
    \/ Write \/ Merge \/ Abandon \/ Tomorrow

ContractSpec == ContractInit /\ [][ContractNext]_contractVars

-----------------------------------------------------------------------------
(* Properties. *)

\* A capability the base branch once claimed keeps its row and its rank, whatever
\* sequence of changes was merged, unless one of them was merged under a waiver that
\* named it and had not expired (compare_baseline_manifests: "Detect capability
\* regressions"; test_capability_contract.py: "expired ... waivers never suppress a
\* regression").
RegressionsAreWaived ==
    \A i \in DOMAIN best \ excused :
        \E c \in base.manifest.capabilities : c.id = i /\ STATUS_RANK[c.status] >= best[i]

\* What the base branch claims is what its own source shows: every claim that is not
\* excused is discovered from it, rests on tests that exist there, and leads only to
\* capabilities that exist (assert_contract).
ClaimsAreDiscovered ==
    LET rows == base.manifest.capabilities
        ids == IdsOf(rows)
        shown == discover_manifest(base.source, base.annotations)
    IN /\ \A c \in rows \cup shown : c.id \notin excused => c \in rows /\ c \in shown
       /\ \A c \in rows :
            /\ \A e \in c.edges : e.target \in ids
            /\ c.status \in VerificationRequired =>
                  /\ \A t \in c.tests : nodeid_resolves(base.source, t)
                  /\ c.id \notin excused => c.tests # {}

\* What is merged is what was discovered, and no merge takes a claim back without a waiver.
ContractHolds == RegressionsAreWaived /\ ClaimsAreDiscovered
=============================================================================
