---------------------------- MODULE EventIngest ----------------------------
(***************************************************************************)
(* The durable-store-first intake spine: record_pipeline_event, run by      *)
(* concurrent HTTP requests, over the event store, the open-order ledger,   *)
(* the inventory ledger, the twin projection and the event bus.             *)
(*                                                                          *)
(* An event stands for its identity (tenant, data domain, id), the key of   *)
(* the event store; a content stands for everything else in its payload.    *)
(* Every store call is a step of its own: between two of them another       *)
(* request runs, the call raises, or the process dies (Abort).              *)
(***************************************************************************)
EXTENDS Naturals, Sequences, FiniteSets

CONSTANTS Events,          \* event identities (tenant, data_domain, id)
          Contents,        \* payload contents a client may send under an id
          Requests,        \* concurrent request handlers
          Actionable,      \* the events whose cascade yields a decision
          Queued,          \* handlers of processes with WORKER_ENABLED: their
                           \* cascades run behind the bus
          None,            \* no row in the event store; no request in a handler
          MaxAborts        \* bound: failed or crashed requests

ASSUME IngestAssumption ==
    /\ Actionable \subseteq Events
    /\ Queued \subseteq Requests
    /\ None \notin Contents \cup [event: Events, content: Contents]
    /\ MaxAborts \in Nat

VARIABLES
    store,        \* shelfwise_events.payload, per event
    published,    \* the events whose published flag is set
    bus,          \* messages published to the stream, oldest first
    observed,     \* events the open-order ledger has observed
    receipts,     \* events with an inventory projection receipt
    applied,      \* how often the event has moved the inventory ledger
    twin,         \* events the operational twin has accepted
    decisions,    \* events whose decision the synchronous cascade stored
    pc, req,      \* per request: next call, and the event it carries
    answers,      \* history: the responses given to clients
    aborts        \* how many requests have failed or crashed

storeVars  == <<store, published>>
effectVars == <<observed, receipts, applied, twin, decisions>>
vars == <<store, published, bus, observed, receipts, applied, twin, decisions,
          pc, req, answers, aborts>>

Message == [event: Events, content: Contents]
Steps   == {"idle", "record", "compare", "is_published", "observe",
            "project", "twin", "publish", "mark", "cascade"}
Status  == {"accepted",   \* accepted, the cascade is left to a worker
            "cascaded",   \* accepted, with the result of the cascade
            "duplicate", "conflict", "error",
            "cascade_error"}   \* an error once the cascade was all that was left

E(r) == req[r].event
C(r) == req[r].content
At(r, step) == pc[r] = step
Goto(r, step) == pc' = [pc EXCEPT ![r] = step]

\* Mistake: the handler keeps its request after answering it.
AnswerKeepsRequest(r, status) ==
    /\ answers' = answers \cup {[event |-> E(r), content |-> C(r), status |-> status]}
    /\ Goto(r, "idle")
    /\ UNCHANGED req

\* The response of request r; the handler is free for the next request.
Answer(r, status) ==
    /\ answers' = answers \cup {[event |-> E(r), content |-> C(r), status |-> status]}
    /\ Goto(r, "idle")
    /\ req' = [req EXCEPT ![r] = None]

OnBus(e, c) == \E i \in 1..Len(bus) : bus[i] = [event |-> e, content |-> c]

Init ==
    /\ store = [e \in Events |-> None]
    /\ published = {}
    /\ bus = <<>>
    /\ observed = {} /\ receipts = {} /\ twin = {} /\ decisions = {}
    /\ applied = [e \in Events |-> 0]
    /\ pc = [r \in Requests |-> "idle"]
    /\ req = [r \in Requests |-> None]
    /\ answers = {}
    /\ aborts = 0

-----------------------------------------------------------------------------
\* A client posts event e with content c: a first attempt, a retry after an
\* error, or a second producer using the same id.
Submit(r, e, c) ==
    /\ At(r, "idle")
    /\ req' = [req EXCEPT ![r] = [event |-> e, content |-> c]]
    /\ Goto(r, "record")
    /\ UNCHANGED <<storeVars, bus, effectVars, answers, aborts>>

\* Mistake: the row is inserted as already published.
RecordMarksPublished(r) ==
    /\ At(r, "record")
    /\ store' = [store EXCEPT ![E(r)] = IF @ = None THEN C(r) ELSE @]
    /\ published' = published \cup {E(r)}
    /\ Goto(r, IF store[E(r)] = None THEN "observe" ELSE "compare")
    /\ UNCHANGED <<bus, effectVars, req, answers, aborts>>

\* event_store.record: insert, on conflict do nothing.
Record(r) ==
    /\ At(r, "record")
    /\ IF store[E(r)] = None
       THEN store' = [store EXCEPT ![E(r)] = C(r)] /\ Goto(r, "observe")
       ELSE UNCHANGED store /\ Goto(r, "compare")
    /\ UNCHANGED <<published, bus, effectVars, req, answers, aborts>>

\* Mistake: a known id is taken for the same event without comparing contents.
CompareSkipped(r) ==
    /\ At(r, "compare")
    /\ Goto(r, "is_published")
    /\ UNCHANGED <<storeVars, bus, effectVars, req, answers, aborts>>

\* event_store.get and _same_event_payload: another content is a 409.
Compare(r) ==
    /\ At(r, "compare")
    /\ IF store[E(r)] = C(r)
       THEN Goto(r, "is_published") /\ UNCHANGED <<answers, req>>
       ELSE Answer(r, "conflict")
    /\ UNCHANGED <<storeVars, bus, effectVars, aborts>>

\* Mistake: a recorded event is a duplicate, published or not.
DuplicateWhenRecorded(r) ==
    /\ At(r, "is_published")
    /\ Answer(r, "duplicate")
    /\ UNCHANGED <<storeVars, bus, effectVars, aborts>>

\* event_store.is_published: only a published event is a true duplicate; a
\* recorded but unpublished one self-heals through the remaining steps.
CheckPublished(r) ==
    /\ At(r, "is_published")
    /\ IF E(r) \in published
       THEN Answer(r, "duplicate")
       ELSE Goto(r, "observe") /\ UNCHANGED <<answers, req>>
    /\ UNCHANGED <<storeVars, bus, effectVars, aborts>>

\* open_order_store.observe_event.
ObserveOrder(r) ==
    /\ At(r, "observe")
    /\ observed' = observed \cup {E(r)}
    /\ Goto(r, "project")
    /\ UNCHANGED <<storeVars, bus, receipts, applied, twin, decisions, req, answers, aborts>>

\* Mistake: the ledger moves without looking the receipt up.
ProjectWithoutReceipt(r) ==
    /\ At(r, "project")
    /\ receipts' = receipts \cup {E(r)}
    /\ applied' = [applied EXCEPT ![E(r)] = @ + 1]
    /\ Goto(r, "twin")
    /\ UNCHANGED <<storeVars, bus, observed, twin, decisions, req, answers, aborts>>

\* inventory_position_store.project_event: the receipt is looked up and
\* written, and the ledger moved, in one transaction.
ProjectInventory(r) ==
    /\ At(r, "project")
    /\ receipts' = receipts \cup {E(r)}
    /\ applied' = [applied EXCEPT ![E(r)] = IF E(r) \in receipts THEN @ ELSE @ + 1]
    /\ Goto(r, "twin")
    /\ UNCHANGED <<storeVars, bus, observed, twin, decisions, req, answers, aborts>>

\* project_twin_event: a projection that fails is quarantined, never raised.
ProjectTwin(r) ==
    /\ At(r, "twin")
    /\ twin' \in {twin, twin \cup {E(r)}}
    /\ Goto(r, "publish")
    /\ UNCHANGED <<storeVars, bus, observed, receipts, applied, decisions, req, answers, aborts>>

\* event_bus.publish.
Publish(r) ==
    /\ At(r, "publish")
    /\ bus' = Append(bus, req[r])
    /\ Goto(r, "mark")
    /\ UNCHANGED <<storeVars, effectVars, req, answers, aborts>>

\* Mistake: accepted before the synchronous cascade has run.
AcceptBeforeCascade(r) ==
    /\ At(r, "mark")
    /\ published' = published \cup {E(r)}
    /\ Answer(r, IF r \in Queued THEN "accepted" ELSE "cascaded")
    /\ UNCHANGED <<store, bus, effectVars, aborts>>

\* event_store.mark_published; behind a worker the request is then answered.
MarkPublished(r) ==
    /\ At(r, "mark")
    /\ published' = published \cup {E(r)}
    /\ IF r \in Queued
       THEN Answer(r, "accepted")
       ELSE Goto(r, "cascade") /\ UNCHANGED <<answers, req>>
    /\ UNCHANGED <<store, bus, effectVars, aborts>>

\* cascade_for_event and record_cascade, in the request when no worker runs.
CascadeForEvent(r) ==
    /\ At(r, "cascade")
    /\ decisions' = decisions \cup ({E(r)} \cap Actionable)
    /\ Answer(r, "cascaded")
    /\ UNCHANGED <<storeVars, bus, observed, receipts, applied, twin, aborts>>

\* The next call raises before its effect, or the process dies: what the
\* earlier calls committed stays, the client sees an error (the same one from
\* every call; "cascade_error" tells the call apart for the history).
Abort(r) ==
    /\ ~At(r, "idle")
    /\ aborts < MaxAborts
    /\ aborts' = aborts + 1
    /\ Answer(r, IF At(r, "cascade") THEN "cascade_error" ELSE "error")
    /\ UNCHANGED <<storeVars, bus, effectVars>>

\* The calls of record_pipeline_event, in their order.
RecordPipelineEvent(r) ==
    \/ Record(r) \/ Compare(r) \/ CheckPublished(r)
    \/ ObserveOrder(r) \/ ProjectInventory(r) \/ ProjectTwin(r)
    \/ Publish(r) \/ MarkPublished(r) \/ CascadeForEvent(r)

Next ==
    \E r \in Requests :
        \/ \E e \in Events, c \in Contents : Submit(r, e, c)
        \/ RecordPipelineEvent(r)
        \/ Abort(r)

Spec == Init /\ [][Next]_vars

\* A client whose event is stored but not published sends it again: the retry
\* that the self-heal of record_pipeline_event waits for.
Retry(e) ==
    /\ e \notin published /\ store[e] \in Contents
    /\ \E r \in Requests : Submit(r, e, store[e])

\* A handler that started runs on, and such a client does not give up.
FairSpec ==
    /\ Spec
    /\ \A r \in Requests : WF_vars(RecordPipelineEvent(r))
    /\ \A e \in Events : SF_vars(Retry(e))

-----------------------------------------------------------------------------
\* The tables, the bus and the locals of every handler hold what
\* record_pipeline_event and its stores can put there.
TypeOK ==
    /\ store \in [Events -> Contents \cup {None}]
    /\ published \subseteq Events
    /\ bus \in Seq(Message)
    /\ observed \subseteq Events /\ receipts \subseteq Events
    /\ twin \subseteq Events /\ decisions \subseteq Actionable
    /\ applied \in [Events -> Nat]
    /\ pc \in [Requests -> Steps]
    /\ req \in [Requests -> Message \cup {None}]
    /\ \A r \in Requests : At(r, "idle") <=> req[r] = None
    /\ answers \subseteq [event: Events, content: Contents, status: Status]
    /\ aborts \in 0..MaxAborts

\* Durable-store-first: whatever is on the bus is the content the store holds
\* for that id, so racing producers of one id never both reach the cascades.
OneContentPerEvent ==
    \A i \in 1..Len(bus) : bus[i].content = store[bus[i].event]

\* The published flag is never ahead of the effects it vouches for: a flagged
\* event is on the bus and was projected. Later submissions skip all of that.
PublishedIsComplete ==
    \A e \in published : OnBus(e, store[e]) /\ e \in observed /\ e \in receipts

\* A client told "accepted", "cascaded" or "duplicate" can forget the event: it is stored
\* as sent, on the bus and projected. One told 409 sent another content.
AnswersSound ==
    \A a \in answers :
        /\ a.status \in {"accepted", "cascaded", "duplicate"} =>
              store[a.event] = a.content /\ a.event \in published
        /\ a.status = "conflict" => store[a.event] \in Contents \ {a.content}

\* Retries, self-heals and racing requests move the inventory ledger once.
InventoryMovedOnce ==
    \A e \in Events : applied[e] = IF e \in receipts THEN 1 ELSE 0

\* How far each handler's local progress is backed by shared state: what the
\* calls before its program counter have committed is still there.
Recorded  == {"is_published", "observe", "project", "twin", "publish", "mark", "cascade"}
Observed  == {"project", "twin", "publish", "mark", "cascade"}
Projected == {"twin", "publish", "mark", "cascade"}
Enqueued  == {"mark", "cascade"}
Backed(r) ==
    /\ At(r, "compare") => store[E(r)] # None
    /\ pc[r] \in Recorded  => store[E(r)] = C(r)
    /\ pc[r] \in Observed  => E(r) \in observed
    /\ pc[r] \in Projected => E(r) \in receipts
    /\ pc[r] \in Enqueued  => OnBus(E(r), C(r))
    /\ At(r, "cascade") => E(r) \in published
HandlersBacked == \A r \in Requests : Backed(r)

\* Once an event is published every further request for it is answered without a
\* cascade, so somebody must owe it one: its decision is stored, a handler is about
\* to make it, it was left to a worker, or the one request that was to make it failed
\* in the cascade itself (record_pipeline_event marks before it runs the cascade).
CascadesAreOwed ==
    \A e \in published \cap Actionable :
        \/ e \in decisions
        \/ \E r \in Requests : At(r, "cascade") /\ E(r) = e
        \/ \E a \in answers : a.event = e /\ a.status \in {"accepted", "cascade_error"}

\* The inductive invariant behind the safety properties.
IngestInv ==
    /\ TypeOK
    /\ HandlersBacked
    /\ OneContentPerEvent
    /\ PublishedIsComplete
    /\ AnswersSound
    /\ InventoryMovedOnce
    /\ CascadesAreOwed

\* The content first recorded under an id is never replaced or removed, and a
\* published flag is never taken back.
StoreIsAppendOnly ==
    [][ /\ \A e \in Events : store[e] # None => store'[e] = store[e]
        /\ published \subseteq published' ]_vars

\* Self-heal: a recorded event always reaches the bus in the end.
RecordedGetsPublished ==
    \A e \in Events : store[e] # None ~> e \in published
=============================================================================
