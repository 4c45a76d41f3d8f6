-------------------------- MODULE ConnectorIntake --------------------------
(***************************************************************************)
(* What stands before the intake spine: records of source systems, polled   *)
(* page by page (ConnectorPollService, PollingConnector.pull) or delivered  *)
(* by webhook, go through _process_inbound_record: the inbound store first, *)
(* which knows every record it has seen, then record_pipeline_event, whose  *)
(* steps are those of EventIngest.                                          *)
(*                                                                          *)
(* A record is an object of the source and the value it had when it was     *)
(* read; the object determines the event id (_event_id) and the value the   *)
(* payload hash, so a record is a message of EventIngest. A page token is   *)
(* the number of pages read. The source systems are external.               *)
(***************************************************************************)
EXTENDS Naturals, Sequences, FiniteSets

CONSTANTS Events, Contents, Requests, Actionable, Queued, None, MaxAborts,
          Pollers,      \* the handlers that poll, one per backend process
          Pages,        \* the objects of each page of the source's listing
          Payloads,     \* what a webhook may deliver: sequences of records
          Eventless,    \* values whose record leads to no event: invalid ones,
                        \* and kinds that record_to_event does not map
          Initial,      \* the value each listed object starts with
          MaxChanges    \* bound: changes in the source

Records == [event: Events, content: Contents]

ASSUME IntakeAssumption ==
    /\ Pollers \subseteq Requests /\ Eventless \subseteq Contents
    /\ Pages \in Seq(Seq(Events)) /\ Pages # <<>>
    /\ Payloads \subseteq Seq(Records)
    /\ Initial \in [Events -> Contents] /\ MaxChanges \in Nat

VARIABLES
    store, published, bus, observed, receipts, applied, twin, decisions,
    pc, req, answers, aborts,    \* the intake spine
    source,     \* the source system: the value of each object
    inbound,    \* shelfwise_inbound_records: the records seen
    cursor,     \* shelfwise_connector_cursors: pages read, 0 for no row
    step,       \* per handler: what it does next
    page, seen, \* per poller: its position in the listing, what it has yielded
    batch, pos, \* per handler: the page or payload in hand, the record it is at
    taken,      \* history: records whose source will not send them again
    failed,     \* history: records whose processing raised
    changes

Ingest == INSTANCE EventIngest

spineVars  == <<store, published, bus, observed, receipts, applied, twin, decisions,
                pc, req, answers, aborts>>
localVars  == <<step, page, seen, batch, pos>>
historyVars == <<taken, failed>>
vars == <<spineVars, source, inbound, cursor, localVars, historyVars, changes>>

At(r, s) == step[r] = s
Goto(r, s) == step' = [step EXCEPT ![r] = s]
Current(r) == batch[r][pos[r]]
InBatch(r) == {batch[r][i] : i \in 1..Len(batch[r])}

Init ==
    /\ Ingest!Init
    /\ source = Initial /\ inbound = {} /\ cursor = 0 /\ changes = 0
    /\ step = [r \in Requests |-> "idle"]
    /\ page = [r \in Requests |-> 0] /\ seen = [r \in Requests |-> {}]
    /\ batch = [r \in Requests |-> <<>>] /\ pos = [r \in Requests |-> 0]
    /\ taken = {} /\ failed = {}

\* The handler is done with its page or payload, and with the pull.
Leave(r) ==
    /\ Goto(r, "idle")
    /\ page' = [page EXCEPT ![r] = 0] /\ seen' = [seen EXCEPT ![r] = {}]
    /\ batch' = [batch EXCEPT ![r] = <<>>] /\ pos' = [pos EXCEPT ![r] = 0]

Load(r, records) ==
    /\ batch' = [batch EXCEPT ![r] = records]
    /\ pos' = [pos EXCEPT ![r] = 1]
    /\ Goto(r, "next")

\* _process_inbound_record returns: on to the next record.
Advance(r) ==
    /\ pos' = [pos EXCEPT ![r] = @ + 1]
    /\ Goto(r, "next")
    /\ UNCHANGED <<page, seen, batch>>

-----------------------------------------------------------------------------
(* ConnectorPollService._run and PollingConnector.pull. *)

BeginPull(p) ==
    /\ p \in Pollers /\ At(p, "idle")
    /\ page' = [page EXCEPT ![p] = cursor]
    /\ Goto(p, "fetch")
    /\ UNCHANGED <<spineVars, source, inbound, cursor, seen, batch, pos, historyVars, changes>>

\* Mistake: the next page's token is stored before this page is processed.
FetchPageStores(p) ==
    /\ At(p, "fetch")
    /\ LET objects == Pages[page[p] + 1]
       IN  Load(p, [i \in 1..Len(objects) |->
                       [event |-> objects[i], content |-> source[objects[i]]]])
    /\ cursor' = IF page[p] + 1 < Len(Pages) THEN page[p] + 1 ELSE cursor
    /\ UNCHANGED <<spineVars, source, inbound, page, seen, historyVars, changes>>

\* fetch_page: the objects of the next page with their present values.
FetchPage(p) ==
    /\ At(p, "fetch")
    /\ LET objects == Pages[page[p] + 1]
       IN  Load(p, [i \in 1..Len(objects) |->
                       [event |-> objects[i], content |-> source[objects[i]]]])
    /\ UNCHANGED <<spineVars, source, inbound, cursor, page, seen, historyVars, changes>>

\* The next record of the page that this pull has not yielded before.
NextRecord(r) ==
    /\ At(r, "next") /\ pos[r] <= Len(batch[r])
    /\ \/ /\ Current(r) \in seen[r]
          /\ Advance(r)
       \/ /\ Current(r) \notin seen[r]
          /\ seen' = [seen EXCEPT ![r] = IF r \in Pollers THEN @ \cup {Current(r)} ELSE @]
          /\ Goto(r, "inbound")
          /\ UNCHANGED <<page, batch, pos>>
    /\ UNCHANGED <<spineVars, source, inbound, cursor, historyVars, changes>>

\* Mistake: a completed scan keeps its last page token.
EndPageKeepsToken(p) ==
    /\ p \in Pollers /\ At(p, "next") /\ pos[p] > Len(batch[p])
    /\ taken' = taken \cup InBatch(p)
    /\ \/ /\ page[p] + 1 < Len(Pages)
          /\ cursor' = page[p] + 1
          /\ page' = [page EXCEPT ![p] = @ + 1]
          /\ Goto(p, "fetch")
          /\ UNCHANGED <<seen, batch, pos>>
       \/ /\ page[p] + 1 = Len(Pages)
          /\ UNCHANGED cursor
          /\ Leave(p)
    /\ UNCHANGED <<spineVars, source, inbound, failed, changes>>

\* The page is processed: its successor's token is stored, or the scan is
\* complete and the token deleted, so that the next pull starts over.
EndPage(p) ==
    /\ p \in Pollers /\ At(p, "next") /\ pos[p] > Len(batch[p])
    /\ taken' = taken \cup InBatch(p)
    /\ \/ /\ page[p] + 1 < Len(Pages)
          /\ cursor' = page[p] + 1
          /\ page' = [page EXCEPT ![p] = @ + 1]
          /\ Goto(p, "fetch")
          /\ UNCHANGED <<seen, batch, pos>>
       \/ /\ page[p] + 1 = Len(Pages)
          /\ cursor' = 0
          /\ Leave(p)
    /\ UNCHANGED <<spineVars, source, inbound, failed, changes>>

-----------------------------------------------------------------------------
(* A webhook delivery (receive_tenant_webhook, intake_connector_payload). *)

\* An authenticated delivery, mapped to its records: a new one, or one that
\* the source repeats because it saw no answer or an error.
Deliver(r, payload) ==
    /\ r \notin Pollers /\ At(r, "idle")
    /\ Load(r, payload)
    /\ UNCHANGED <<spineVars, source, inbound, cursor, page, seen, historyVars, changes>>

\* The 200 answer, after which the source forgets the delivery.
EndDelivery(r) ==
    /\ r \notin Pollers /\ At(r, "next") /\ pos[r] > Len(batch[r])
    /\ taken' = taken \cup InBatch(r)
    /\ Leave(r)
    /\ UNCHANGED <<spineVars, source, inbound, cursor, failed, changes>>

-----------------------------------------------------------------------------
(* _process_inbound_record. *)

\* The processing of the current record raises: a webhook is answered with the
\* error, a pull ends there, its cursor still at the page it was reading.
Raise(r) == failed' = failed \cup {Current(r)} /\ Leave(r)

\* Mistake: a record is looked up and stored after it went through the spine.
RecordInboundLate(r) ==
    /\ At(r, "inbound")
    /\ Goto(r, "pipeline")
    /\ inbound' = inbound
    /\ Ingest!Submit(r, Current(r).event, Current(r).content)
    /\ UNCHANGED <<source, cursor, page, seen, batch, pos, historyVars, changes>>

\* inbound_record_store.record: a known record is a duplicate and goes no
\* further; a new one is stored, and its event, if it has one, submitted.
RecordInbound(r) ==
    /\ At(r, "inbound")
    /\ inbound' = inbound \cup {Current(r)}
    /\ IF Current(r) \in inbound \/ Current(r).content \in Eventless
       THEN Advance(r) /\ UNCHANGED spineVars
       ELSE /\ Ingest!Submit(r, Current(r).event, Current(r).content)
            /\ Goto(r, "pipeline")
            /\ UNCHANGED <<page, seen, batch, pos>>
    /\ UNCHANGED <<source, cursor, historyVars, changes>>

\* Mistake: a 409 of the spine is taken for an answer.
PipelineSwallows(r) ==
    /\ At(r, "pipeline")
    /\ Ingest!RecordPipelineEvent(r)
    /\ \/ pc'[r] # "idle" /\ UNCHANGED <<localVars, failed>>
       \/ pc'[r] = "idle" /\ Advance(r) /\ UNCHANGED failed
    /\ UNCHANGED <<source, inbound, cursor, taken, changes>>

\* record_pipeline_event, call by call; it returns, or raises its 409.
Pipeline(r) ==
    /\ At(r, "pipeline")
    /\ Ingest!RecordPipelineEvent(r)
    /\ \/ pc'[r] # "idle" /\ UNCHANGED <<localVars, failed>>
       \/ pc'[r] = "idle" /\ pc[r] # "compare" /\ Advance(r) /\ UNCHANGED failed
       \/ pc'[r] = "idle" /\ pc[r] = "compare" /\ Raise(r)
    /\ UNCHANGED <<source, inbound, cursor, taken, changes>>

\* A call of the spine raises, or the process dies in it.
PipelineRaises(r) ==
    /\ At(r, "pipeline")
    /\ Ingest!Abort(r)
    /\ Raise(r)
    /\ UNCHANGED <<source, inbound, cursor, taken, changes>>

\* The source or one of the intake's own stores fails, or the process dies.
IntakeRaises(r) ==
    /\ step[r] \in {"fetch", "next", "inbound"}
    /\ aborts < MaxAborts
    /\ aborts' = aborts + 1
    /\ Leave(r)
    /\ UNCHANGED <<store, published, bus, observed, receipts, applied, twin, decisions,
                   pc, req, answers, source, inbound, cursor, historyVars, changes>>

-----------------------------------------------------------------------------
\* An object of the source takes another value.
Change(e, c) ==
    /\ changes < MaxChanges
    /\ source[e] # c
    /\ changes' = changes + 1
    /\ source' = [source EXCEPT ![e] = c]
    /\ UNCHANGED <<spineVars, inbound, cursor, localVars, historyVars>>

Process(r) ==
    \/ BeginPull(r) \/ FetchPage(r) \/ NextRecord(r) \/ EndPage(r) \/ EndDelivery(r)
    \/ RecordInbound(r) \/ Pipeline(r)

Next ==
    \/ \E r \in Requests :
          \/ Process(r) \/ PipelineRaises(r) \/ IntakeRaises(r)
          \/ \E payload \in Payloads : Deliver(r, payload)
    \/ \E e \in Events, c \in Contents : Change(e, c)

Spec == Init /\ [][Next]_vars

\* A poll loop runs for ever and a handler that started runs on; nobody has to
\* send a webhook.
FairSpec == Spec /\ \A r \in Requests : WF_vars(Process(r))

-----------------------------------------------------------------------------
\* Every store and every local of a handler holds what its code can put there.
TypeOK ==
    /\ Ingest!TypeOK
    /\ source \in [Events -> Contents] /\ changes \in 0..MaxChanges
    /\ inbound \subseteq Records /\ taken \subseteq Records /\ failed \subseteq Records
    /\ cursor \in 0..(Len(Pages) - 1)
    /\ step \in [Requests -> {"idle", "fetch", "next", "inbound", "pipeline"}]
    /\ page \in [Requests -> 0..(Len(Pages) - 1)]
    /\ seen \in [Requests -> SUBSET Records]
    /\ \A r \in Requests : /\ batch[r] \in Seq(Records)
                           /\ pos[r] \in 0..(Len(batch[r]) + 1)
                           /\ req[r] = IF At(r, "pipeline") THEN Current(r) ELSE None

Ingested(m) == m.content \in Eventless \/ (store[m.event] = m.content /\ m.event \in published)
UnderWay(m) == \E r \in Requests : At(r, "pipeline") /\ Current(r) = m

\* A record is lost only by a failure of its own: one that its source will not
\* send again is through the spine, or on its way in some handler, or its
\* processing raised once.
LostOnlyByFailure ==
    \A m \in taken : Ingested(m) \/ UnderWay(m) \/ m \in failed

\* The inbound store lets each record through once, whoever polls or delivers
\* it meanwhile: no two handlers take one record through the spine.
NoDoubleApplication ==
    \A r, s \in Requests : At(r, "pipeline") /\ At(s, "pipeline") /\ Current(r) = Current(s) => r = s

\* No page is skipped: what lies before the stored token has been recorded, by
\* whichever of the polling processes moved it.
CursorIsCovered ==
    \A i \in 1..cursor : \A k \in 1..Len(Pages[i]) :
        \E c \in Contents : [event |-> Pages[i][k], content |-> c] \in inbound

\* A record is lost only where a call raised in between, never applied twice, and no
\* page before the stored token is skipped (_process_inbound_record, PollingConnector.pull).
RecordsAreApplied == LostOnlyByFailure /\ NoDoubleApplication /\ CursorIsCovered

\* Polling keeps up: time and again the inbound store knows the present value
\* of every listed object. A failed pull is taken up again, a completed scan
\* starts over.
Listed == {e \in Events : \E i \in 1..Len(Pages) : \E k \in 1..Len(Pages[i]) : Pages[i][k] = e}
PollingKeepsUp ==
    \A e \in Listed : []<>([event |-> e, content |-> source[e]] \in inbound)

\* PollingConnector.pull's comment: "replaying the previous page is safe because
\* inbound-record deduplication prevents data loss": a record that the source
\* will not send again is through the spine, or on its way.
NoDataLoss == \A m \in taken : Ingested(m) \/ UnderWay(m)
=============================================================================
