-------------------------- MODULE TwinProjection --------------------------
(***************************************************************************)
(* The digital twin's projection: observations go to an append-only ledger  *)
(* and the strongest one of each property becomes the property's value.     *)
(* The two are written by separate transactions. They are written from four *)
(* places: the request that ingests an event (inline), the worker that      *)
(* replays the bus (twin), the signed batches of edge devices (edge) and    *)
(* the bootstrap of a store from the stored events.                         *)
(*                                                                          *)
(* Requests run in the threads of one backend's pool; the edge route is a   *)
(* coroutine that never awaits between claiming its batch and answering, so *)
(* the event loop runs one of them at a time. A database call may raise,    *)
(* and the process may be killed between any two.                           *)
(***************************************************************************)
EXTENDS Naturals, Sequences, FiniteSets, Functions

CONSTANTS Events,        \* events of one store, with an order: Nat
          Batches,       \* signed batches of its edge devices
          ObsOf,         \* the observations each event or batch carries
          Props,         \* properties
          TwinOf,        \* the entity a property belongs to
          Root,          \* the store's own entity
          Seeds,         \* the entities of the onboarding manifest, in its order
          Pool,          \* threads of the backend's pool
          None,
          MaxDeliveries, \* of one message, before it is dead-lettered
          MaxFaults,     \* bound: calls that raise, or kills of the process
          MaxCalls       \* bound: requests

Sources     == Events \cup Batches
Observation == [id : Nat, prop : Props, at : Nat, precedence : Nat]
Twins       == {Root} \cup Range(Seeds) \cup {TwinOf[p] : p \in Props}
Threads     == Pool \cup {"loop", "twin"}

TwinAssumption ==
    /\ Events \subseteq Nat /\ Events \cap Batches = {} /\ Pool # {}
    /\ TwinOf \in [Props -> Twins]
    /\ Seeds \in Seq(Twins \ {Root})
    /\ ObsOf \in [Sources -> Seq(Observation)]
    /\ \A b \in Batches : ObsOf[b] # <<>>   \* observations: min_length=1
    /\ None \notin Observation \cup {"event", "observed", "manifest"}
    /\ None \notin {"ready", "acked", "dead", "claimed", "completed"}
    /\ MaxDeliveries \in Nat \ {0} /\ MaxFaults \in Nat /\ MaxCalls \in Nat

VARIABLES
    recorded,   \* the observation ledger
    property,   \* the projected observation of each property
    entity,     \* who created each entity: it keeps its first attributes
    linked,     \* entities the store contains
    manifest,   \* the onboarding manifest is saved
    stored,     \* events in the event store
    bus,        \* group twin of the bus, per event
    delivered,  \* deliveries of the message
    claim,      \* state of each batch, in the process's memory
    answered,   \* batches a device was told are accepted
    thread,     \* what each thread is doing
    disturbed,  \* properties that lost a race or a projection (history)
    tFaults, tCalls

ledgers == <<recorded, property, entity, linked, manifest>>
queue   == <<stored, bus, delivered>>
edge    == <<claim, answered>>
vars == <<recorded, property, entity, linked, manifest, stored, bus, delivered,
          claim, answered, thread, disturbed, tFaults, tCalls>>

Idle == [job |-> "idle", of |-> None, pc |-> "end", seeds |-> <<>>, todo |-> <<>>, rest |-> {}]

Init ==
    /\ recorded = {} /\ property = [p \in Props |-> None]
    /\ entity = [w \in Twins |-> None] /\ linked = {} /\ manifest = FALSE
    /\ stored = {} /\ bus = [e \in Events |-> None]
    /\ delivered = [e \in Events |-> 0]
    /\ claim = [b \in Batches |-> None] /\ answered = {}
    /\ thread = [t \in Threads |-> Idle]
    /\ disturbed = {} /\ tFaults = 0 /\ tCalls = 0

Busy(t)      == thread[t].job # "idle"
At(t, pc)    == Busy(t) /\ thread[t].pc = pc
Obs(t)       == Head(thread[t].todo)
Goto(t, pc)  == thread' = [thread EXCEPT ![t].pc = pc]
ByEvent(t)   == thread[t].job \in {"inline", "twin", "bootstrap"}

\* Where a thread goes on: the manifest's entities, the observations of the event
\* in hand, the next event to replay.
Following(r) ==
    IF r.seeds # <<>> THEN "seed"
    ELSE IF r.todo # <<>> THEN "entity"
    ELSE IF r.rest # {} THEN "replay" ELSE "end"

\* Mistake: accept does not look for the entity.
StartWithoutEntity(r) ==
    CASE r.job \in {"inline", "twin", "onboard"} -> "root"
      [] r.job = "edge" -> "record"
      [] r.job = "bootstrap" -> IF r.of.seeded THEN "root" ELSE Following(r)

\* Where it begins: with the store's entity, but for a batch and for a bootstrap
\* without a manifest.
Start(r) ==
    CASE r.job \in {"inline", "twin", "onboard"} -> "root"
      [] r.job = "edge" -> "entity"
      [] r.job = "bootstrap" -> IF r.of.seeded THEN "root" ELSE Following(r)

Begin(t, job, of, seeds, todo, rest) ==
    /\ ~Busy(t)
    /\ LET r == [job |-> job, of |-> of, pc |-> "end", seeds |-> seeds, todo |-> todo,
                 rest |-> rest]
       IN  thread' = [thread EXCEPT ![t] = [r EXCEPT !.pc = Start(r)]]
    /\ UNCHANGED tFaults

Call == tCalls < MaxCalls /\ tCalls' = tCalls + 1

----------------------------------------------------------------------------
\* The ingest pipeline has stored the event and projects it (project_twin_event).
Inline(t, e) ==
    /\ t \in Pool /\ Call
    /\ Begin(t, "inline", e, <<>>, ObsOf[e], {})
    /\ stored' = stored \cup {e}
    /\ UNCHANGED <<ledgers, bus, delivered, edge, disturbed>>

\* run_once: consume_one of group twin, from the pending list or the stream.
Deliver(e) ==
    /\ bus[e] = "ready"
    /\ Begin("twin", "twin", e, <<>>, ObsOf[e], {})
    /\ delivered' = [delivered EXCEPT ![e] = IF @ < MaxDeliveries THEN @ + 1 ELSE @]
    /\ UNCHANGED <<ledgers, stored, bus, edge, disturbed, tCalls>>

\* ingest_edge_observations: an unclaimed batch is projected.
EdgeBatch(b) ==
    /\ Call /\ claim[b] = None
    /\ Begin("loop", "edge", b, <<>>, ObsOf[b], {})
    /\ claim' = [claim EXCEPT ![b] = "claimed"]
    /\ UNCHANGED <<ledgers, queue, answered, disturbed>>

\* ... and a completed one is answered as a duplicate.
EdgeDuplicate(b) ==
    /\ Call /\ ~Busy("loop") /\ claim[b] = "completed"
    /\ answered' = answered \cup {b}
    /\ UNCHANGED <<ledgers, queue, claim, thread, disturbed, tFaults>>

\* onboard: the manifest is saved before any entity is created.
Onboard(t) ==
    /\ t \in Pool /\ Call
    /\ Begin(t, "onboard", None, Seeds, <<>>, {})
    /\ manifest' = TRUE
    /\ UNCHANGED <<recorded, property, entity, linked, queue, edge, disturbed>>

\* Mistake: the bootstrap replays the events only.
BootstrapEventsOnly(t) ==
    /\ t \in Pool /\ Call
    /\ \E rows \in SUBSET stored :
          Begin(t, "bootstrap", [seeded |-> manifest, events |-> rows], <<>>, <<>>, rows)
    /\ UNCHANGED <<ledgers, queue, edge, disturbed>>

\* bootstrap_twin_from_events: the saved manifest again, then stored events in order.
\* The route lists the newest 500 events of the tenant, whatever store they are of,
\* and skips the rows that do not parse: any event of the store may be missing.
Bootstrap(t) ==
    /\ t \in Pool /\ Call
    /\ \E rows \in SUBSET stored :
          Begin(t, "bootstrap", [seeded |-> manifest, events |-> rows],
                IF manifest THEN Seeds ELSE <<>>, <<>>, rows)
    /\ UNCHANGED <<ledgers, queue, edge, disturbed>>

----------------------------------------------------------------------------
\* ensure_entity: an existing entity is left as it is.
Ensure(w, kind) == entity' = [entity EXCEPT ![w] = IF @ = None THEN kind ELSE @]

EnsureRoot(t) ==
    /\ At(t, "root")
    /\ Ensure(Root, IF thread[t].job \in {"onboard", "bootstrap"} THEN "manifest" ELSE "event")
    /\ Goto(t, Following(thread[t]))
    /\ UNCHANGED <<recorded, property, linked, manifest, queue, edge, disturbed, tFaults, tCalls>>

\* bootstrap_events: project_event of the next event, in the order of its time.
Replay(t) ==
    /\ At(t, "replay")
    /\ \E e \in thread[t].rest :
          /\ \A x \in thread[t].rest : e <= x
          /\ LET r == [thread[t] EXCEPT !.todo = ObsOf[e], !.rest = @ \ {e}]
             IN  thread' = [thread EXCEPT ![t] = [r EXCEPT !.pc = Following(r)]]
    /\ Ensure(Root, "event")
    /\ UNCHANGED <<recorded, property, linked, manifest, queue, edge, disturbed, tFaults, tCalls>>

EnsureSeed(t) ==
    /\ At(t, "seed")
    /\ Ensure(Head(thread[t].seeds), "manifest")
    /\ Goto(t, "seedlink")
    /\ UNCHANGED <<recorded, property, linked, manifest, queue, edge, disturbed, tFaults, tCalls>>

LinkSeed(t) ==
    /\ At(t, "seedlink")
    /\ linked' = linked \cup {Head(thread[t].seeds)}
    /\ LET r == [thread[t] EXCEPT !.seeds = Tail(@)]
       IN  thread' = [thread EXCEPT ![t] = [r EXCEPT !.pc = Following(r)]]
    /\ UNCHANGED <<recorded, property, entity, manifest, queue, edge, disturbed, tFaults, tCalls>>

\* project_event's _ensure_entity; accept's, which makes a minimal entity.
EnsureEntity(t) ==
    /\ At(t, "entity")
    /\ Ensure(TwinOf[Obs(t).prop], IF ByEvent(t) THEN "event" ELSE "observed")
    /\ Goto(t, IF ByEvent(t) THEN "link" ELSE "record")
    /\ UNCHANGED <<recorded, property, linked, manifest, queue, edge, disturbed, tFaults, tCalls>>

Link(t) ==
    /\ At(t, "link")
    /\ linked' = linked \cup {TwinOf[Obs(t).prop]}
    /\ Goto(t, "record")
    /\ UNCHANGED <<recorded, property, entity, manifest, queue, edge, disturbed, tFaults, tCalls>>

----------------------------------------------------------------------------
Proceed(t) ==
    LET r == [thread[t] EXCEPT !.todo = Tail(@)]
    IN  thread' = [thread EXCEPT ![t] = [r EXCEPT !.pc = Following(r)]]

\* Mistake: a duplicate ends the projection of its event.
RecordOrStop(t) ==
    /\ At(t, "record")
    /\ recorded' = recorded \cup {Obs(t)}
    /\ Goto(t, IF Obs(t) \in recorded THEN "end" ELSE "read")
    /\ UNCHANGED <<property, entity, linked, manifest, queue, edge, disturbed, tFaults, tCalls>>

\* Mistake: the observation is projected and not recorded.
RecordNothing(t) ==
    /\ At(t, "record")
    /\ Goto(t, "read")
    /\ UNCHANGED <<ledgers, queue, edge, disturbed, tFaults, tCalls>>

\* record_observation: insert ... on conflict do nothing.
Record(t) ==
    /\ At(t, "record")
    /\ recorded' = recorded \cup {Obs(t)}
    /\ IF Obs(t) \in recorded THEN Proceed(t) ELSE Goto(t, "read")
    /\ UNCHANGED <<property, entity, linked, manifest, queue, edge, disturbed, tFaults, tCalls>>

\* _may_replace: the newer, then the stronger source, then the larger id.
MayReplace(current, incoming) ==
    \/ incoming.at > current.at
    \/ incoming.at = current.at /\ incoming.precedence < current.precedence
    \/ /\ incoming.at = current.at /\ incoming.precedence = current.precedence
       /\ incoming.id > current.id

\* Mistake: the last to arrive wins.
WinsAlways(o) == TRUE

Wins(o) == property[o.prop] = None \/ MayReplace(property[o.prop], o)

\* Threads between reading and writing the property of o.
Writing(o) == {t \in Threads : At(t, "write") /\ Obs(t).prop = o.prop}

\* get_property and the decision whether to project.
Read(t) ==
    /\ At(t, "read")
    /\ IF Wins(Obs(t)) THEN Goto(t, "write") ELSE Proceed(t)
    /\ disturbed' = IF Wins(Obs(t)) /\ Writing(Obs(t)) # {}
                    THEN disturbed \cup {Obs(t).prop} ELSE disturbed
    /\ UNCHANGED <<ledgers, queue, edge, tFaults, tCalls>>

\* upsert_property: whatever is there by now.
Write(t) ==
    /\ At(t, "write")
    /\ property' = [property EXCEPT ![Obs(t).prop] = Obs(t)]
    /\ Proceed(t)
    /\ UNCHANGED <<recorded, entity, linked, manifest, queue, edge, disturbed, tFaults, tCalls>>

----------------------------------------------------------------------------
\* What a thread's end means to its caller. The event is published once the
\* inline projection is over, whatever became of it.
Publish(e) == bus' = [bus EXCEPT ![e] = IF @ = None THEN "ready" ELSE @]

\* Mistake: the worker does not ack.
FinishWithoutAck(t) ==
    /\ At(t, "end")
    /\ thread' = [thread EXCEPT ![t] = Idle]
    /\ LET r == thread[t] IN
       /\ IF r.job = "inline" THEN Publish(r.of) ELSE UNCHANGED bus
       /\ claim' = IF r.job = "edge" THEN [claim EXCEPT ![r.of] = "completed"] ELSE claim
       /\ answered' = IF r.job = "edge" THEN answered \cup {r.of} ELSE answered
    /\ UNCHANGED <<ledgers, stored, delivered, disturbed, tFaults, tCalls>>

Finish(t) ==
    /\ At(t, "end")
    /\ thread' = [thread EXCEPT ![t] = Idle]
    /\ LET r == thread[t] IN
       /\ CASE r.job = "inline" -> Publish(r.of)
            [] r.job = "twin" -> bus' = [bus EXCEPT ![r.of] = "acked"]
            [] OTHER -> UNCHANGED bus
       /\ claim' = IF r.job = "edge" THEN [claim EXCEPT ![r.of] = "completed"] ELSE claim
       /\ answered' = IF r.job = "edge" THEN answered \cup {r.of} ELSE answered
    /\ UNCHANGED <<ledgers, stored, delivered, disturbed, tFaults, tCalls>>

\* The property of an observation that is recorded and will not be projected.
Lost(t) == IF thread[t].pc \in {"read", "write"} THEN {Obs(t).prop} ELSE {}

Fault == tFaults < MaxFaults /\ tFaults' = tFaults + 1

\* A call raises. Inline: quarantined, the request goes on to publish; edge: the
\* claim is released and the device told to send the batch again; twin: nack for
\* the errors run_once expects, or else the message just stays pending.
Raise(t) ==
    /\ Busy(t) /\ thread[t].pc # "end" /\ Fault
    /\ thread' = [thread EXCEPT ![t] = Idle]
    /\ disturbed' = disturbed \cup Lost(t)
    /\ LET r == thread[t] IN
       /\ CASE r.job = "inline" -> Publish(r.of)
            [] r.job = "twin" ->
                  \/ UNCHANGED bus
                  \/ /\ delivered[r.of] >= MaxDeliveries
                     /\ bus' = [bus EXCEPT ![r.of] = "dead"]
            [] OTHER -> UNCHANGED bus
       /\ claim' = IF r.job = "edge" THEN [claim EXCEPT ![r.of] = None] ELSE claim
    /\ UNCHANGED <<ledgers, stored, delivered, answered, tCalls>>

\* The process is killed and started again: its threads and claims are gone.
Crash ==
    /\ Fault
    /\ thread' = [t \in Threads |-> Idle]
    /\ disturbed' = disturbed \cup UNION {Lost(t) : t \in Threads}
    /\ claim' = [b \in Batches |-> None]
    /\ UNCHANGED <<ledgers, queue, answered, tCalls>>

Step(t) ==
    \/ EnsureRoot(t) \/ Replay(t) \/ EnsureSeed(t) \/ LinkSeed(t) \/ EnsureEntity(t)
    \/ Link(t) \/ Record(t) \/ Read(t) \/ Write(t) \/ Finish(t)

Next ==
    \/ \E t \in Pool, e \in Events : Inline(t, e)
    \/ \E e \in Events : Deliver(e)
    \/ \E b \in Batches : EdgeBatch(b) \/ EdgeDuplicate(b)
    \/ \E t \in Pool : Onboard(t) \/ Bootstrap(t)
    \/ \E t \in Threads : Step(t) \/ Raise(t)
    \/ Crash

Spec == Init /\ [][Next]_vars

----------------------------------------------------------------------------
TypeOK ==
    /\ recorded \subseteq Observation /\ linked \subseteq Twins
    /\ \A p \in Props : property[p] = None \/ property[p] \in recorded
    /\ \A w \in Twins : entity[w] \in {None, "event", "observed", "manifest"}
    /\ manifest \in BOOLEAN /\ stored \subseteq Events
    /\ \A e \in Events : bus[e] \in {None, "ready", "acked", "dead"}
    /\ \A e \in Events : delivered[e] \in 0 .. MaxDeliveries
    /\ \A b \in Batches : claim[b] \in {None, "claimed", "completed"}
    /\ answered \subseteq Batches /\ disturbed \subseteq Props
    /\ \A t \in Threads : Busy(t) =>
          thread[t].pc \in {"root", "replay", "seed", "seedlink", "entity", "link",
                            "record", "read", "write", "end"}
    /\ tFaults \in 0 .. MaxFaults /\ tCalls \in 0 .. MaxCalls

InHand == {Obs(t) : t \in {u \in Threads : At(u, "read") \/ At(u, "write")}}

\* A property shows the strongest observation on record (newest, then the better
\* source, then the larger id), whatever the order in which inline projection,
\* replay, edge and bootstrap bring them, unless two of them overlapped on it or
\* one was cut off between the ledger and the property.
StrongestShown ==
    \A p \in Props \ disturbed : \A o \in recorded \ InHand :
        o.prop = p => /\ property[p] # None
                      /\ ~MayReplace(property[p], o)

\* Nothing is on record of an entity that does not exist, whichever call raised;
\* and whoever is told that an event or a batch is done (the bus by an ack, a
\* device by an answer) can rely on every observation of it being on record, of
\* an entity that, for events, the store contains.
SettledIsRecorded ==
    /\ \A o \in recorded : entity[TwinOf[o.prop]] # None
    /\ \A w \in linked : entity[w] # None /\ entity[Root] # None
    /\ \A s \in Sources : (s \in answered \/ (s \in Events /\ bus[s] = "acked")) =>
           \A o \in Range(ObsOf[s]) :
               /\ o \in recorded
               /\ s \in Events => TwinOf[o.prop] \in linked

\* The twin shows what its ledger holds, and whoever relies on it may.
TwinShowsLedger == StrongestShown /\ SettledIsRecorded

\* A bootstrap that reaches its answer has restored every entity of the manifest
\* that was saved when it began, however far that onboarding had come, and has
\* put every event that it read from the event store on record.
BootstrapComplete ==
    \A t \in Pool : (At(t, "end") /\ thread[t].job = "bootstrap") =>
        /\ thread[t].of.seeded => Range(Seeds) \subseteq linked
        /\ \A e \in thread[t].of.events : Range(ObsOf[e]) \subseteq recorded

\* Every event on the bus is acked or dead-lettered in the end: the loop goes on
\* after any exception, and a pending message is read again.
EveryEventSettles ==
    \A e \in Events : bus[e] = "ready" ~> bus[e] \in {"acked", "dead"}

====
