---------------------------- MODULE PollSchedule ----------------------------
(***************************************************************************)
(* How a tenant's sources are connected. Polled systems: the credentials the *)
(* owner stores (credentials.py, routes_connector_credentials.py), and the   *)
(* poll loop, which builds its connectors from them anew in every run and    *)
(* visits them in a fixed order (connector_poll_service.py). Odoo is read by *)
(* a write_date watermark (odoo.py), page after page; a pull of another      *)
(* system is one step here, its pages are ConnectorIntake's subject.         *)
(* Webhooks: the endpoints the owner provisions and revokes                  *)
(* (webhook_endpoints.py). The source systems are external.                  *)
(***************************************************************************)
EXTENDS Naturals, Sequences, FiniteSets

CONSTANTS
    Order,          \* the polled systems, in the order run_once visits them
    Env,            \* systems for which the process environment is complete
    Rows,           \* the products of the Odoo source
    PageLimit,      \* rows of one page
    Endpoints, Tenants,
    None,
    MaxTime, MaxChanges, MaxOutages   \* bounds: clock, edits of the owner, outages

Systems == {Order[i] : i \in 1..Len(Order)}
\* A stored set of fields, complete or not, or one that the current key cannot read.
Fields == {"complete", "partial", "unreadable"}

VARIABLES
    creds,      \* system |-> stored fields, or None
    up,         \* the sources that answer
    date,       \* row |-> its write_date
    now,        \* the source's clock
    cursor,     \* the Odoo watermark, 0 for no row
    marks,      \* history: the watermarks there have been
    delivered,  \* rows ingested, with the write_date they had
    run,        \* None, or the connectors still to be pulled in this run: for each
                \*   position in Order, whose fields it was built from
    status,     \* last_status
    polled,     \* history: the systems pulled since the run began
    used,       \* history: whose fields the pulls of this run used: "own", "env"
    edited,     \* history: systems whose fields the owner changed since it began
    endpoint,   \* endpoint |-> None or [tenant, by]: by has revoked it, or None
    accepted,   \* history: deliveries taken in, [endpoint, tenant]
    changes, outages

vars == <<creds, up, date, now, cursor, marks, delivered, run, status, polled, used, edited,
          endpoint, accepted, changes, outages>>
sourceVars == <<up, date, now, outages>>
pollVars == <<cursor, marks, delivered, run, status, polled, used>>
hookVars == <<endpoint, accepted>>

Endpoint == [tenant : Tenants, by : Tenants \cup {None}]
\* Whose fields each of some connectors was built from.
Connectors(positions) == [positions -> {"own", "env"}]

ScheduleAssumption ==
    /\ Order \in Seq(Systems) /\ Env \subseteq Systems
    /\ PageLimit \in Nat \ {0} /\ {MaxTime, MaxChanges, MaxOutages} \subseteq Nat
    /\ None \notin Fields \cup {"own", "env"} \cup Endpoint
    /\ \A positions \in SUBSET (1..Len(Order)) : None \notin Connectors(positions)

Init ==
    /\ creds = [s \in Systems |-> None]
    /\ up = Systems /\ date = [r \in Rows |-> 1] /\ now = 1
    /\ cursor = 0 /\ marks = {} /\ delivered = {}
    /\ run = None /\ status = "idle" /\ polled = {} /\ used = [s \in Systems |-> None]
    /\ edited = {} /\ endpoint = [e \in Endpoints |-> None] /\ accepted = {}
    /\ changes = 0 /\ outages = 0

-----------------------------------------------------------------------------
(* The sources. *)

\* Rows are written at the source's clock, several at one time.
Write(r) ==
    /\ date[r] < now /\ date' = [date EXCEPT ![r] = now]
    /\ UNCHANGED <<up, now, outages, creds, pollVars, edited, hookVars, changes>>
Tick ==
    /\ now < MaxTime /\ now' = now + 1
    /\ UNCHANGED <<up, date, outages, creds, pollVars, edited, hookVars, changes>>
Fail(s) ==
    /\ s \in up /\ outages < MaxOutages
    /\ up' = up \ {s} /\ outages' = outages + 1
    /\ UNCHANGED <<date, now, creds, pollVars, edited, hookVars, changes>>
Recover(s) ==
    /\ s \notin up /\ up' = up \cup {s}
    /\ UNCHANGED <<date, now, outages, creds, pollVars, edited, hookVars, changes>>

-----------------------------------------------------------------------------
(* The owner. A partial set of fields is stored as readily as a complete one. *)

Edit == changes < MaxChanges /\ changes' = changes + 1

upsert_connector_credentials(s, fields) ==
    /\ Edit /\ creds' = [creds EXCEPT ![s] = fields]
    /\ edited' = edited \cup {s}
    /\ UNCHANGED <<sourceVars, pollVars, hookVars>>

delete_connector_credentials(s) ==
    /\ Edit /\ creds' = [creds EXCEPT ![s] = None]
    /\ edited' = edited \cup {s}
    /\ UNCHANGED <<sourceVars, pollVars, hookVars>>

provision_webhook_endpoint(e, t) ==
    /\ Edit /\ endpoint[e] = None
    /\ endpoint' = [endpoint EXCEPT ![e] = [tenant |-> t, by |-> None]]
    /\ UNCHANGED <<creds, edited, accepted, sourceVars, pollVars>>

\* Mistake: the tenant is not compared.
revoke_by_any_tenant(e, t) ==
    /\ Edit
    /\ endpoint[e] # None /\ endpoint[e].by = None
    /\ endpoint' = [endpoint EXCEPT ![e].by = t]
    /\ UNCHANGED <<creds, edited, accepted, sourceVars, pollVars>>

\* Only the tenant's own active endpoint; its identity stays.
revoke_webhook_endpoint(e, t) ==
    /\ Edit
    /\ endpoint[e] # None /\ endpoint[e].by = None /\ endpoint[e].tenant = t
    /\ endpoint' = [endpoint EXCEPT ![e].by = t]
    /\ UNCHANGED <<creds, edited, accepted, sourceVars, pollVars>>

\* A delivery is signed for one endpoint: its tenant is the endpoint's.
receive_tenant_webhook(e) ==
    /\ endpoint[e] # None /\ endpoint[e].by = None
    /\ accepted' = accepted \cup {[endpoint |-> e, tenant |-> endpoint[e].tenant]}
    /\ UNCHANGED <<creds, edited, endpoint, sourceVars, pollVars, changes>>

-----------------------------------------------------------------------------
(* The poll loop. *)

\* Mistake: an incomplete set of stored fields gives way to the environment.
env_when_partial(s) ==
    IF creds[s] = "complete" THEN [from |-> "own", fields |-> creds[s]]
    ELSE [from |-> "env", fields |-> IF s \in Env THEN "complete" ELSE "partial"]

\* A tenant's stored fields win over the environment, whether or not they suffice.
resolve_connector_credentials(s) ==
    IF creds[s] # None THEN [from |-> "own", fields |-> creds[s]]
    ELSE [from |-> "env", fields |-> IF s \in Env THEN "complete" ELSE "partial"]

\* One connector per system whose fields are complete, with the fields of this moment.
build_configured_connectors ==
    [i \in {j \in 1..Len(Order) : resolve_connector_credentials(Order[j]).fields = "complete"} |->
        resolve_connector_credentials(Order[i]).from]

\* Mistake: an exception ends the loop, not just the run.
StartRunUnlessCrashed ==
    /\ run = None
    /\ run' = IF status = "crashed" THEN None ELSE build_configured_connectors
    /\ polled' = {} /\ used' = [s \in Systems |-> None] /\ edited' = {}
    /\ UNCHANGED <<status, cursor, marks, delivered, creds, sourceVars, hookVars, changes>>

\* A run builds its connectors first; fields the key cannot read end it there.
StartRun ==
    /\ run = None
    /\ IF \E s \in Systems : resolve_connector_credentials(s).fields = "unreadable"
       THEN status' = "crashed" /\ UNCHANGED <<run, polled, used, edited>>
       ELSE /\ run' = build_configured_connectors
            /\ polled' = {} /\ used' = [s \in Systems |-> None] /\ edited' = {}
            /\ UNCHANGED status
    /\ UNCHANGED <<cursor, marks, delivered, creds, sourceVars, hookVars, changes>>

\* The rows of the next page: those above the watermark, the oldest first.
Above == {r \in Rows : date[r] > cursor}
\* Mistake: the page is not ordered by write_date.
unordered_pages ==
    {p \in SUBSET Above :
        Cardinality(p) = IF Cardinality(Above) < PageLimit THEN Cardinality(Above)
                         ELSE PageLimit}
NextPages ==
    {p \in SUBSET Above :
        /\ Cardinality(p) = IF Cardinality(Above) < PageLimit THEN Cardinality(Above)
                            ELSE PageLimit
        /\ \A r \in p, q \in Above \ p : date[r] <= date[q]}
max_write_date(p) == CHOOSE d \in {date[r] : r \in p} : \A r \in p : date[r] <= d

\* The next connector is the first that is left.
Due(i) == run # None /\ i \in DOMAIN run /\ \A j \in DOMAIN run : i <= j
Done(i) == run' = [j \in DOMAIN run \ {i} |-> run[j]]

Pulled(i) ==
    /\ polled' = polled \cup {Order[i]}
    /\ used' = [used EXCEPT ![Order[i]] = run[i]]

\* fetch_page of Odoo, its rows through the intake and, after that, the watermark.
\* Without a row the connector is done.
PullOdoo(i) ==
    /\ Due(i) /\ Order[i] = "odoo" /\ "odoo" \in up
    /\ \E p \in NextPages :
        /\ delivered' = delivered \cup {[row |-> r, date |-> date[r]] : r \in p}
        /\ IF p = {}
           THEN Done(i) /\ UNCHANGED <<cursor, marks>>
           ELSE /\ cursor' = max_write_date(p) /\ marks' = marks \cup {cursor'}
                /\ UNCHANGED run
    /\ Pulled(i)
    /\ UNCHANGED <<status, edited, creds, sourceVars, hookVars, changes>>

PullOther(i) ==
    /\ Due(i) /\ Order[i] # "odoo" /\ Order[i] \in up
    /\ Done(i) /\ Pulled(i)
    /\ UNCHANGED <<cursor, marks, delivered, status, edited, creds, sourceVars, hookVars, changes>>

\* The first exception ends the run, and the connectors after it wait for another.
CrashRun(i) ==
    /\ Due(i) /\ Order[i] \notin up
    /\ run' = None /\ status' = "crashed"
    /\ UNCHANGED <<cursor, marks, delivered, polled, used, edited, creds, sourceVars, hookVars, changes>>

EndRun ==
    /\ run # None /\ DOMAIN run = {} /\ run' = None /\ status' = "ok"
    /\ UNCHANGED <<cursor, marks, delivered, polled, used, edited, creds, sourceVars, hookVars, changes>>

Poll ==
    \/ StartRun \/ EndRun
    \/ \E i \in 1..Len(Order) : PullOdoo(i) \/ PullOther(i) \/ CrashRun(i)

Next ==
    \/ \E r \in Rows : Write(r)
    \/ Tick
    \/ \E s \in Systems : Fail(s) \/ Recover(s) \/ delete_connector_credentials(s)
    \/ \E s \in Systems, f \in Fields : upsert_connector_credentials(s, f)
    \/ \E e \in Endpoints : receive_tenant_webhook(e)
    \/ \E e \in Endpoints, t \in Tenants :
          provision_webhook_endpoint(e, t) \/ revoke_webhook_endpoint(e, t)
    \/ Poll

Spec == Init /\ [][Next]_vars

-----------------------------------------------------------------------------
(* Properties. *)

\* A row at or below the watermark that was not ingested as it is now shares its date
\* with the last row of some page: nothing but such ties is skipped (odoo.py,
\* _search_read_payload: "write_date" ">" cursor, oldest first).
OnlyTiesAreSkipped ==
    \A r \in Rows : date[r] <= cursor =>
        [row |-> r, date |-> date[r]] \in delivered \/ date[r] \in marks

\* Outside what the owner has changed since the run began, its pulls used the fields the
\* tenant has stored, and the environment's only where nothing is stored
\* (resolve_connector_credentials: "always wins over the shared env-var default").
FieldsAreCurrent ==
    \A s \in Systems \ edited :
        /\ used[s] = "own" => creds[s] = "complete"
        /\ used[s] = "env" => creds[s] = None /\ s \in Env

Configured(s) == creds[s] = "complete" \/ (creds[s] = None /\ s \in Env)

\* A run that ended well has pulled every system that is configured (run_once: "Pull
\* every configured connector once").
OkIsComplete ==
    status = "ok" /\ run = None => \A s \in Systems \ edited : Configured(s) => s \in polled

\* A delivery is taken in for the tenant that provisioned the endpoint, and only that
\* tenant disables it (revoke_webhook_endpoint: "another tenant's id can never be
\* revoked").
EndpointsKeepTheirTenant ==
    /\ \A d \in accepted : endpoint[d.endpoint] # None /\ endpoint[d.endpoint].tenant = d.tenant
    /\ \A e \in Endpoints : endpoint[e] # None => endpoint[e].by \in {None, endpoint[e].tenant}

\* The sources of a tenant, as the poll loop and the webhook route see them.
PollsAreCurrent ==
    OnlyTiesAreSkipped /\ FieldsAreCurrent /\ OkIsComplete /\ EndpointsKeepTheirTenant

\* The i-th system is configured, it and the systems before it answer, and every stored
\* set of fields is readable.
Reachable(i) ==
    /\ \A j \in 1..i : Configured(Order[j]) => Order[j] \in up
    /\ \A s \in Systems : creds[s] # "unreadable"
    /\ Configured(Order[i])

\* A system is pulled again and again once it stays reachable (_run: a failing run is
\* followed by another one, which begins at the first system).
UpIsPolled == \A i \in 1..Len(Order) : <>[]Reachable(i) => []<>(Order[i] \in polled)
=============================================================================
