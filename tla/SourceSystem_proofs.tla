------------------------ MODULE SourceSystem_proofs ------------------------
(***************************************************************************)
(* Proofs about what brings data into the store, each part for any size of  *)
(* its instance.                                                            *)
(*                                                                          *)
(* The intake of polled and delivered records, for any pages, payloads,      *)
(* source values, pollers and handlers, changes and failures: a record is    *)
(* lost only by a failure of its own, none goes through the spine in two     *)
(* handlers, and no page before the stored token was skipped. Of the spine   *)
(* only its order matters: what it answers for was recorded, compared and    *)
(* marked.                                                                  *)
(*                                                                          *)
(* The schedule of the polls, for any systems, rows, page limit, tenants and *)
(* endpoints: only ties at a page's end are skipped, the fields in use are    *)
(* the stored ones, a good run was complete, an endpoint keeps its tenant.    *)
(*                                                                          *)
(* The cold-chain drill, for any assets, length, profile and size of the     *)
(* buffer: its alerts are the changes of the diagnosis, and danger is said.   *)
(*                                                                          *)
(* The mapping of payloads and files, for any of them and any failures: a    *)
(* request without a new record changes nothing, a code keeps its variant    *)
(* and leads somewhere, and no sale is recorded that no line states.         *)
(***************************************************************************)
EXTENDS SourceSystem, SequenceTheorems, FiniteSetTheorems, TLAPS

-----------------------------------------------------------------------------
(* The intake (ConnectorIntake). *)

Stages == {"idle", "fetch", "next", "inbound", "pipeline"}
Loaded == {"next", "inbound", "pipeline"}

\* The stores and locals the argument is about, with what they can hold.
Types ==
    /\ store \in [Events -> Contents \cup {None}]
    /\ pc \in [Requests -> Ingest!Steps] /\ req \in [Requests -> Records \cup {None}]
    /\ source \in [Events -> Contents] /\ inbound \subseteq Records
    /\ cursor \in 0 .. (Len(Pages) - 1)
    /\ step \in [Requests -> Stages] /\ page \in [Requests -> 0 .. (Len(Pages) - 1)]
    /\ seen \in [Requests -> SUBSET Records]
    /\ batch \in [Requests -> Seq(Records)] /\ pos \in [Requests -> Nat]

\* What a call of the spine has behind it.
Carried(r) ==
    /\ pc[r] # "idle"
    /\ pc[r] \in Ingest!Recorded => store[req[r].event] = req[r].content
    /\ pc[r] = "cascade" => req[r].event \in published

\* Each of the first n pages has had its objects recorded, with some value.
Covered(n) ==
    \A i \in 1 .. n : \A k \in 1 .. Len(Pages[i]) :
        \E c \in Contents : [event |-> Pages[i][k], content |-> c] \in inbound

\* Where a handler is in its page or payload: the records before are in the inbound
\* store, and so are those the pull has yielded but for the one in hand.
Position(r) ==
    /\ step[r] \in {"inbound", "pipeline"} => pos[r] \in 1 .. Len(batch[r])
    /\ At(r, "next") => pos[r] \in 1 .. (Len(batch[r]) + 1)
    /\ step[r] \in Loaded => \A i \in 1 .. Len(batch[r]) : i < pos[r] => batch[r][i] \in inbound
    /\ \A m \in seen[r] : m \in inbound \/ (At(r, "inbound") /\ m = Current(r))

\* A handler in the spine carries its current record, which was new to the store.
InSpine(r) ==
    /\ At(r, "pipeline") => /\ req[r] = Current(r) /\ Current(r) \in inbound
                            /\ Current(r).content \notin Eventless /\ Carried(r)
    /\ ~ At(r, "pipeline") => pc[r] = "idle"

\* A poller has the pages before its own behind it, and its own in hand.
Scanning(r) ==
    r \in Pollers =>
        /\ step[r] # "idle" => Covered(page[r])
        /\ step[r] \in Loaded =>
              /\ Len(batch[r]) = Len(Pages[page[r] + 1])
              /\ \A i \in 1 .. Len(batch[r]) : batch[r][i].event = Pages[page[r] + 1][i]

Handler(r) == Position(r) /\ InSpine(r) /\ Scanning(r)

\* What has become of a record the inbound store knows.
Settled(m) == Ingested(m) \/ UnderWay(m) \/ m \in failed

\* The inductive invariant.
IntakeInv ==
    /\ Types /\ \A r \in Requests : Handler(r)
    /\ taken \subseteq inbound /\ \A m \in inbound : Settled(m)
    /\ NoDoubleApplication /\ Covered(cursor)

----------------------------------------------------------------------------
\* What no step takes back.
Grows ==
    /\ inbound \subseteq inbound' /\ published \subseteq published' /\ failed \subseteq failed'
    /\ \A e \in Events : store[e] # None => store'[e] = store[e]

\* A handler that the step is not about.
Same(u) ==
    /\ step'[u] = step[u] /\ page'[u] = page[u] /\ seen'[u] = seen[u] /\ batch'[u] = batch[u]
    /\ pos'[u] = pos[u] /\ pc'[u] = pc[u] /\ req'[u] = req[u]

\* A page that is covered stays so.
LEMMA CoveredKept == ASSUME NEW n, Covered(n), Grows PROVE Covered(n)'
  BY DEF Covered, Grows

\* A record that is through the spine stays so.
LEMMA IngestedKept ==
    ASSUME Ingest!IngestAssumption, NEW m \in Records, Ingested(m), Grows PROVE Ingested(m)'
  BY DEF Ingested, Grows, Records, Ingest!IngestAssumption

\* What a handler relies on is never taken away by another.
LEMMA HandlerKept ==
    ASSUME Ingest!IngestAssumption, IntakeInv, Grows, NEW u \in Requests, Same(u) PROVE Handler(u)'
  <1>1. Types /\ Handler(u)
    BY DEF IntakeInv
  <1>2. /\ (At(u, "next")' <=> At(u, "next")) /\ (At(u, "inbound")' <=> At(u, "inbound"))
        /\ (At(u, "pipeline")' <=> At(u, "pipeline")) /\ Current(u)' = Current(u)
    BY DEF Same, At, Current
  <1>3. Position(u)'
    BY <1>1, <1>2 DEF Handler, Position, Same, Grows
  <1>4. InSpine(u)'
    <2>1. CASE At(u, "pipeline")
      <3>1. /\ req[u] = Current(u) /\ Current(u) \in inbound
            /\ Current(u).content \notin Eventless /\ Carried(u)
        BY <1>1, <2>1 DEF Handler, InSpine
      <3>2. req[u] \in Records
        BY <1>1, <3>1 DEF Types
      <3>3. req[u].event \in Events /\ req[u].content # None
        BY <3>2 DEF Records, Ingest!IngestAssumption
      <3>4. Carried(u)'
        BY <3>1, <3>3 DEF Carried, Same, Grows
      <3> QED
        BY <1>2, <2>1, <3>1, <3>4 DEF InSpine, Same, Grows
    <2>2. CASE ~ At(u, "pipeline")
      BY <1>1, <1>2, <2>2 DEF Handler, InSpine, Same
    <2> QED
      BY <2>1, <2>2
  <1>5. Scanning(u)'
    <2>1. \A n : Covered(n) => Covered(n)'
      BY CoveredKept
    <2>2. PICK n : n = page[u]
      OBVIOUS
    <2>3. Covered(n) => Covered(n)'
      BY <2>1
    <2> QED
      BY <1>1, <2>2, <2>3 DEF Handler, Scanning, Same, Covered
  <1> QED
    BY <1>3, <1>4, <1>5 DEF Handler

\* The records that were known stay settled if the one the handler had in the spine
\* is still there, or through, or has failed.
LEMMA SettledKept ==
    ASSUME Ingest!IngestAssumption, IntakeInv, Grows, NEW r \in Requests,
           \A u \in Requests \ {r} : Same(u), NEW x, x = Current(r),
           At(r, "pipeline") => \/ At(r, "pipeline")' /\ Current(r)' = x
                                \/ Ingested(x)' \/ x \in failed'
    PROVE  \A m \in inbound : Settled(m)'
  <1> SUFFICES ASSUME NEW m \in inbound PROVE Settled(m)'
    OBVIOUS
  <1>1. Settled(m) /\ m \in Records
    BY DEF IntakeInv, Types
  <1>2. CASE Ingested(m) \/ m \in failed
    BY <1>1, <1>2, IngestedKept DEF Settled, Grows
  <1>3. CASE UnderWay(m)
    <2>1. PICK u \in Requests : At(u, "pipeline") /\ Current(u) = m
      BY <1>3 DEF UnderWay
    <2>2. CASE u = r
      <3>1. CASE At(r, "pipeline")' /\ Current(r)' = x
        BY <2>1, <2>2, <3>1 DEF Settled, UnderWay
      <3>2. CASE Ingested(x)'
        BY <2>1, <2>2, <3>2 DEF Settled
      <3>3. CASE x \in failed'
        BY <2>1, <2>2, <3>3 DEF Settled
      <3> QED
        BY <2>1, <2>2, <3>1, <3>2, <3>3
    <2>3. CASE u # r
      <3>1. At(u, "pipeline")' /\ Current(u)' = m
        BY <2>1, <2>3 DEF Same, At, Current
      <3> QED
        BY <3>1 DEF Settled, UnderWay
    <2> QED
      BY <2>2, <2>3
  <1> QED
    BY <1>1, <1>2, <1>3 DEF Settled

\* A record enters the spine only when the inbound store did not know it, so no
\* other handler has it there.
LEMMA SingleKept ==
    ASSUME IntakeInv, NEW r \in Requests, \A u \in Requests \ {r} : Same(u),
           At(r, "pipeline")' => \/ At(r, "pipeline") /\ Current(r)' = Current(r)
                                 \/ Current(r)' \notin inbound
    PROVE  NoDoubleApplication'
  <1>1. \A u \in Requests \ {r} : (At(u, "pipeline")' <=> At(u, "pipeline")) /\ Current(u)' = Current(u)
    BY DEF Same, At, Current
  <1>2. \A u \in Requests : At(u, "pipeline") => Current(u) \in inbound
    BY DEF IntakeInv, Handler, InSpine
  <1> SUFFICES ASSUME NEW u \in Requests, NEW v \in Requests, At(u, "pipeline")', At(v, "pipeline")',
                      Current(u)' = Current(v)'
               PROVE  u = v
    BY DEF NoDoubleApplication
  <1>3. CASE u # r /\ v # r
    BY <1>1, <1>3 DEF IntakeInv, NoDoubleApplication
  <1>4. CASE u = r /\ v # r
    BY <1>1, <1>2, <1>4 DEF IntakeInv, NoDoubleApplication
  <1>5. CASE u # r /\ v = r
    BY <1>1, <1>2, <1>5 DEF IntakeInv, NoDoubleApplication
  <1> QED
    BY <1>3, <1>4, <1>5

\* A step of one handler that stays outside the spine and puts nothing new in it.
LEMMA LocalStep ==
    ASSUME Ingest!IngestAssumption, IntakeInv, NEW r \in Requests,
           \A u \in Requests \ {r} : Same(u), Types', Handler(r)',
           UNCHANGED <<store, published, inbound, failed>>,
           ~ At(r, "pipeline"), ~ At(r, "pipeline")',
           taken' \subseteq inbound, Covered(cursor)'
    PROVE  IntakeInv'
  <1>1. Grows
    BY DEF Grows
  <1>2. \A u \in Requests : Handler(u)'
    BY <1>1, HandlerKept
  <1>3. \A m \in inbound' : Settled(m)'
    <2>1. PICK x : x = Current(r)
      OBVIOUS
    <2> QED
      BY <1>1, <2>1, SettledKept
  <1>4. NoDoubleApplication'
    BY SingleKept
  <1> QED
    BY <1>2, <1>3, <1>4 DEF IntakeInv

----------------------------------------------------------------------------
\* The spine's calls, one after the other: the store and the flags only grow, other
\* handlers are not concerned, and a call either keeps the record with what is behind
\* it, or ends in the 409, or ends with the record stored and published.
LEMMA SpineStep ==
    ASSUME Ingest!IngestAssumption, Types, NEW r \in Requests, NEW m \in Records, req[r] = m,
           Carried(r), Ingest!RecordPipelineEvent(r)
    PROVE  /\ store' \in [Events -> Contents \cup {None}]
           /\ \A e \in Events : store[e] # None => store'[e] = store[e]
           /\ published \subseteq published'
           /\ pc' \in [Requests -> Ingest!Steps] /\ req' \in [Requests -> Records \cup {None}]
           /\ \A u \in Requests \ {r} : pc'[u] = pc[u] /\ req'[u] = req[u]
           /\ \/ req'[r] = m /\ Carried(r)'
              \/ pc'[r] = "idle" /\ pc[r] = "compare"
              \/ /\ pc'[r] = "idle" /\ pc[r] # "compare"
                 /\ store'[m.event] = m.content /\ m.event \in published'
  <1>1. m.event \in Events /\ m.content \in Contents /\ m.content # None
    BY DEF Records, Ingest!IngestAssumption
  <1>2. ASSUME NEW s \in Ingest!Steps, Ingest!Goto(r, s), UNCHANGED req
        PROVE  /\ pc' \in [Requests -> Ingest!Steps] /\ req' \in [Requests -> Records \cup {None}]
               /\ \A u \in Requests \ {r} : pc'[u] = pc[u] /\ req'[u] = req[u]
               /\ pc'[r] = s /\ req'[r] = m
    BY <1>2 DEF Types, Ingest!Goto
  <1>3. ASSUME NEW answer, Ingest!Answer(r, answer)
        PROVE  /\ pc' \in [Requests -> Ingest!Steps] /\ req' \in [Requests -> Records \cup {None}]
               /\ \A u \in Requests \ {r} : pc'[u] = pc[u] /\ req'[u] = req[u]
               /\ pc'[r] = "idle"
    BY <1>3 DEF Types, Ingest!Answer, Ingest!Goto, Ingest!Steps
  <1>4. \A s : s \in {"record", "compare", "is_published", "observe", "project", "twin", "publish",
                      "mark", "cascade"} => s \in Ingest!Steps /\ s # "idle"
    BY DEF Ingest!Steps
  <1> USE DEF Ingest!storeVars, Ingest!effectVars, Ingest!At, Ingest!E, Ingest!C
  <1>5. CASE Ingest!Record(r)
    <2>1. CASE store[m.event] = None
      <3>1. store' = [store EXCEPT ![m.event] = m.content] /\ Ingest!Goto(r, "observe")
            /\ UNCHANGED <<req, published>>
        BY <1>5, <2>1 DEF Ingest!Record
      <3>2. store'[m.event] = m.content
        BY <1>1, <3>1 DEF Types
      <3>3. Carried(r)' /\ req'[r] = m
        BY <1>2, <1>4, <3>1, <3>2 DEF Carried
      <3>4. /\ store' \in [Events -> Contents \cup {None}]
            /\ \A e \in Events : store[e] # None => store'[e] = store[e]
        BY <1>1, <2>1, <3>1 DEF Types
      <3> QED
        BY <1>2, <1>4, <3>1, <3>3, <3>4
    <2>2. CASE store[m.event] # None
      <3>1. Ingest!Goto(r, "compare") /\ UNCHANGED <<store, req, published>>
        BY <1>5, <2>2 DEF Ingest!Record
      <3>2. Carried(r)' /\ req'[r] = m
        BY <1>2, <1>4, <3>1 DEF Carried, Ingest!Recorded
      <3> QED
        BY <1>2, <1>4, <3>1, <3>2 DEF Types
    <2> QED
      BY <2>1, <2>2
  <1>6. CASE Ingest!Compare(r)
    <2>1. UNCHANGED <<store, published>> /\ pc[r] = "compare"
      BY <1>6 DEF Ingest!Compare
    <2>2. CASE store[m.event] = m.content
      <3>1. Ingest!Goto(r, "is_published") /\ UNCHANGED req
        BY <1>6, <2>2, Zenon DEF Ingest!Compare
      <3>2. Carried(r)' /\ req'[r] = m
        BY <1>2, <1>4, <2>1, <2>2, <3>1 DEF Carried
      <3> QED
        BY <1>2, <1>4, <2>1, <3>1, <3>2 DEF Types
    <2>3. CASE store[m.event] # m.content
      <3>1. Ingest!Answer(r, "conflict")
        BY <1>6, <2>3, Zenon DEF Ingest!Compare
      <3> QED
        BY <1>3, <2>1, <3>1 DEF Types
    <2> QED
      BY <2>2, <2>3
  <1>7. CASE Ingest!CheckPublished(r)
    <2>1. UNCHANGED <<store, published>> /\ pc[r] = "is_published"
      BY <1>7 DEF Ingest!CheckPublished
    <2>2. store[m.event] = m.content
      BY <2>1 DEF Carried, Ingest!Recorded
    <2>3. CASE m.event \in published
      <3>1. Ingest!Answer(r, "duplicate")
        BY <1>7, <2>3, Zenon DEF Ingest!CheckPublished
      <3> QED
        BY <1>3, <2>1, <2>2, <2>3, <3>1 DEF Types
    <2>4. CASE m.event \notin published
      <3>1. Ingest!Goto(r, "observe") /\ UNCHANGED req
        BY <1>7, <2>4, Zenon DEF Ingest!CheckPublished
      <3>2. Carried(r)' /\ req'[r] = m
        BY <1>2, <1>4, <2>1, <2>2, <3>1 DEF Carried
      <3> QED
        BY <1>2, <1>4, <2>1, <3>1, <3>2 DEF Types
    <2> QED
      BY <2>3, <2>4
  <1>8. ASSUME NEW s \in {"project", "twin", "publish", "mark"}, Ingest!Goto(r, s),
               pc[r] \in {"observe", "project", "twin", "publish"}, UNCHANGED <<store, published, req>>
        PROVE  /\ store' \in [Events -> Contents \cup {None}]
               /\ \A e \in Events : store[e] # None => store'[e] = store[e]
               /\ published \subseteq published'
               /\ pc' \in [Requests -> Ingest!Steps] /\ req' \in [Requests -> Records \cup {None}]
               /\ \A u \in Requests \ {r} : pc'[u] = pc[u] /\ req'[u] = req[u]
               /\ req'[r] = m /\ Carried(r)'
    <2>1. store[m.event] = m.content
      BY <1>8 DEF Carried, Ingest!Recorded
    <2>2. pc'[r] = s /\ req'[r] = m /\ s # "cascade" /\ s # "idle"
      BY <1>2, <1>4, <1>8
    <2>3. Carried(r)'
      BY <1>8, <2>1, <2>2 DEF Carried
    <2> QED
      BY <1>2, <1>4, <1>8, <2>3 DEF Types
  <1>9. CASE Ingest!ObserveOrder(r) \/ Ingest!ProjectInventory(r) \/ Ingest!ProjectTwin(r) \/ Ingest!Publish(r)
    <2>1. \E s \in {"project", "twin", "publish", "mark"} :
              /\ Ingest!Goto(r, s) /\ pc[r] \in {"observe", "project", "twin", "publish"}
              /\ UNCHANGED <<store, published, req>>
      BY <1>9 DEF Ingest!ObserveOrder, Ingest!ProjectInventory, Ingest!ProjectTwin, Ingest!Publish
    <2> QED
      BY <1>8, <2>1
  <1>10. CASE Ingest!MarkPublished(r)
    <2>1. store' = store /\ published' = published \cup {m.event} /\ pc[r] = "mark"
      BY <1>10, Zenon DEF Ingest!MarkPublished
    <2>2. store[m.event] = m.content
      BY <2>1 DEF Carried, Ingest!Recorded
    <2>3. CASE r \in Queued
      <3>1. Ingest!Answer(r, "accepted")
        BY <1>10, <2>3, Zenon DEF Ingest!MarkPublished
      <3> QED
        BY <1>3, <2>1, <2>2, <3>1 DEF Types
    <2>4. CASE r \notin Queued
      <3>1. Ingest!Goto(r, "cascade") /\ UNCHANGED req
        BY <1>10, <2>4, Zenon DEF Ingest!MarkPublished
      <3>2. Carried(r)' /\ req'[r] = m
        BY <1>2, <1>4, <2>1, <2>2, <3>1 DEF Carried
      <3> QED
        BY <1>2, <1>4, <2>1, <3>1, <3>2 DEF Types
    <2> QED
      BY <2>3, <2>4
  <1>11. CASE Ingest!CascadeForEvent(r)
    <2>1. UNCHANGED <<store, published>> /\ pc[r] = "cascade" /\ Ingest!Answer(r, "cascaded")
      BY <1>11 DEF Ingest!CascadeForEvent
    <2>2. store[m.event] = m.content /\ m.event \in published
      BY <2>1 DEF Carried, Ingest!Recorded
    <2> QED
      BY <1>3, <2>1, <2>2 DEF Types
  <1> QED
    BY <1>5, <1>6, <1>7, <1>9, <1>10, <1>11 DEF Ingest!RecordPipelineEvent

----------------------------------------------------------------------------
\* The locals after a handler is done with its page or payload.
LEMMA Left ==
    ASSUME Types, NEW r \in Requests, Leave(r)
    PROVE  /\ step' \in [Requests -> Stages] /\ page' \in [Requests -> 0 .. (Len(Pages) - 1)]
           /\ seen' \in [Requests -> SUBSET Records] /\ batch' \in [Requests -> Seq(Records)]
           /\ pos' \in [Requests -> Nat] /\ step'[r] = "idle" /\ seen'[r] = {}
           /\ \A u \in Requests \ {r} : /\ step'[u] = step[u] /\ page'[u] = page[u] /\ seen'[u] = seen[u]
                                        /\ batch'[u] = batch[u] /\ pos'[u] = pos[u]
  <1>1. 0 \in 0 .. (Len(Pages) - 1)
    BY IntakeAssumption
  <1>2. <<>> \in Seq(Records) /\ {} \in SUBSET Records /\ "idle" \in Stages
    BY DEF Stages
  <1> QED
    BY <1>1, <1>2 DEF Leave, Goto, Types

\* ... after it has taken one in hand,
LEMMA Took ==
    ASSUME Types, NEW r \in Requests, NEW items \in Seq(Records), Load(r, items)
    PROVE  /\ step' \in [Requests -> Stages] /\ batch' \in [Requests -> Seq(Records)]
           /\ pos' \in [Requests -> Nat] /\ step'[r] = "next" /\ batch'[r] = items /\ pos'[r] = 1
           /\ \A u \in Requests \ {r} : step'[u] = step[u] /\ batch'[u] = batch[u] /\ pos'[u] = pos[u]
  BY DEF Load, Goto, Types, Stages

\* ... after it has gone on to the next record,
LEMMA Advanced ==
    ASSUME Types, NEW r \in Requests, Advance(r)
    PROVE  /\ step' \in [Requests -> Stages] /\ pos' \in [Requests -> Nat]
           /\ step'[r] = "next" /\ pos'[r] = pos[r] + 1 /\ UNCHANGED <<page, seen, batch>>
           /\ \A u \in Requests \ {r} : step'[u] = step[u] /\ pos'[u] = pos[u]
  BY DEF Advance, Goto, Types, Stages

\* ... and after it has moved within its record.
LEMMA Moved ==
    ASSUME Types, NEW r \in Requests, NEW s \in Stages, Goto(r, s)
    PROVE  /\ step' \in [Requests -> Stages] /\ step'[r] = s
           /\ \A u \in Requests \ {r} : step'[u] = step[u]
  BY DEF Goto, Types

\* A handler with nothing in hand and nothing in the spine is well.
LEMMA IdleHandler ==
    ASSUME NEW r \in Requests, step'[r] = "idle", seen'[r] = {}, pc'[r] = "idle" PROVE Handler(r)'
  BY DEF Handler, Position, InSpine, Scanning, At, Loaded

\* A handler that has advanced over a record the inbound store knows is well.
LEMMA AdvancedHandler ==
    ASSUME IntakeInv, Grows, NEW r \in Requests, step[r] \in Loaded, pos[r] \in 1 .. Len(batch[r]),
           Current(r) \in inbound', Advance(r), pc'[r] = "idle"
    PROVE  Handler(r)'
  <1>1. Types /\ Handler(r)
    BY DEF IntakeInv
  <1>2. batch[r] \in Seq(Records) /\ Len(batch[r]) \in Nat /\ pos[r] \in Nat
    BY <1>1 DEF Types
  <1>3. step'[r] = "next" /\ pos'[r] = pos[r] + 1 /\ UNCHANGED <<page, seen, batch>>
    BY <1>1, Advanced
  <1>4. \A i \in 1 .. Len(batch[r]) : i < pos[r] + 1 => batch[r][i] \in inbound'
    <2>1. \A i \in 1 .. Len(batch[r]) : i < pos[r] + 1 => i < pos[r] \/ i = pos[r]
      BY <1>2
    <2> QED
      BY <1>1, <2>1 DEF Handler, Position, Current, Grows
  <1>5. pos[r] + 1 \in 1 .. (Len(batch[r]) + 1)
    BY <1>2
  <1>6. \A m \in seen[r] : m \in inbound'
    BY <1>1 DEF Handler, Position, Grows
  <1>7. Position(r)'
    BY <1>3, <1>4, <1>5, <1>6 DEF Position, At, Loaded
  <1>8. InSpine(r)'
    BY <1>3 DEF InSpine, At
  <1>9. Scanning(r)'
    <2>1. PICK n : n = page[r]
      OBVIOUS
    <2>2. r \in Pollers => Covered(n)
      BY <1>1, <2>1 DEF Handler, Scanning, Loaded
    <2>3. r \in Pollers => Covered(n)'
      BY <2>2, CoveredKept
    <2> QED
      BY <1>1, <1>3, <2>1, <2>3 DEF Handler, Scanning, Loaded, Covered
  <1> QED
    BY <1>7, <1>8, <1>9 DEF Handler

\* A pull begins at the stored token.
LEMMA BeginPullStep ==
    ASSUME Ingest!IngestAssumption, IntakeInv, NEW r \in Requests, BeginPull(r) PROVE IntakeInv'
  <1>1. Types /\ Handler(r)
    BY DEF IntakeInv
  <1>2. /\ step[r] = "idle" /\ page' = [page EXCEPT ![r] = cursor] /\ Goto(r, "fetch")
        /\ UNCHANGED <<store, published, pc, req, source, inbound, cursor, seen, batch, pos, taken, failed>>
    BY DEF BeginPull, At, spineVars, historyVars
  <1>3. /\ step' \in [Requests -> Stages] /\ step'[r] = "fetch"
        /\ \A u \in Requests \ {r} : step'[u] = step[u]
    BY <1>1, <1>2, Moved DEF Stages
  <1>4. /\ page' \in [Requests -> 0 .. (Len(Pages) - 1)] /\ page'[r] = cursor
        /\ \A u \in Requests \ {r} : page'[u] = page[u]
    BY <1>1, <1>2 DEF Types
  <1>5. Types'
    BY <1>1, <1>2, <1>3, <1>4 DEF Types
  <1>6. \A u \in Requests \ {r} : Same(u)
    BY <1>2, <1>3, <1>4 DEF Same
  <1>7. Covered(cursor)'
    BY <1>2 DEF IntakeInv, Covered
  <1>8. Handler(r)'
    <2>1. Position(r)'
      BY <1>1, <1>2, <1>3 DEF Handler, Position, At, Loaded
    <2>2. InSpine(r)'
      BY <1>1, <1>2, <1>3 DEF Handler, InSpine, At
    <2>3. Scanning(r)'
      BY <1>2, <1>3, <1>4, <1>7 DEF Scanning, Loaded, Covered
    <2> QED
      BY <2>1, <2>2, <2>3 DEF Handler
  <1> QED
    BY <1>2, <1>3, <1>5, <1>6, <1>7, <1>8, LocalStep DEF At, IntakeInv

\* The next page, with the values its objects have now.
LEMMA FetchPageStep ==
    ASSUME Ingest!IngestAssumption, IntakeInv, NEW r \in Requests, FetchPage(r) PROVE IntakeInv'
  <1>1. Types /\ Handler(r)
    BY DEF IntakeInv
  <1>2. PICK objects : objects = Pages[page[r] + 1]
    OBVIOUS
  <1>3. PICK items : items = [i \in 1 .. Len(objects) |->
                                     [event |-> objects[i], content |-> source[objects[i]]]]
    OBVIOUS
  <1>4. /\ step[r] = "fetch" /\ Load(r, items)
        /\ UNCHANGED <<store, published, pc, req, source, inbound, cursor, page, seen, taken, failed>>
    BY <1>2, <1>3 DEF FetchPage, At, spineVars, historyVars
  <1>5. objects \in Seq(Events)
    <2>1. page[r] \in 0 .. (Len(Pages) - 1) /\ Pages \in Seq(Seq(Events))
      BY <1>1, IntakeAssumption DEF Types
    <2>2. page[r] + 1 \in 1 .. Len(Pages)
      BY <2>1
    <2> QED
      BY <1>2, <2>1, <2>2
  <1>6. Len(objects) \in Nat /\ \A i \in 1 .. Len(objects) : objects[i] \in Events
    BY <1>5
  <1>7. \A i \in 1 .. Len(objects) : [event |-> objects[i], content |-> source[objects[i]]] \in Records
    BY <1>1, <1>6 DEF Types, Records
  <1>8. /\ items \in Seq(Records) /\ Len(items) = Len(objects)
        /\ \A i \in 1 .. Len(items) : items[i].event = objects[i]
    BY <1>3, <1>6, <1>7
  <1>9. /\ step' \in [Requests -> Stages] /\ batch' \in [Requests -> Seq(Records)]
        /\ pos' \in [Requests -> Nat] /\ step'[r] = "next" /\ batch'[r] = items /\ pos'[r] = 1
        /\ \A u \in Requests \ {r} : step'[u] = step[u] /\ batch'[u] = batch[u] /\ pos'[u] = pos[u]
    BY <1>1, <1>4, <1>8, Took
  <1>10. Types'
    BY <1>1, <1>4, <1>9 DEF Types
  <1>11. \A u \in Requests \ {r} : Same(u)
    BY <1>4, <1>9 DEF Same
  <1>12. Handler(r)'
    <2>1. Position(r)'
      <3>1. 1 \in 1 .. (Len(items) + 1) /\ \A i \in 1 .. Len(items) : ~ (i < 1)
        BY <1>6, <1>8
      <3> QED
        BY <1>1, <1>4, <1>9, <3>1 DEF Handler, Position, At, Loaded
    <2>2. InSpine(r)'
      BY <1>1, <1>4, <1>9 DEF Handler, InSpine, At
    <2>3. Scanning(r)'
      BY <1>1, <1>2, <1>4, <1>8, <1>9 DEF Handler, Scanning, Loaded, Covered
    <2> QED
      BY <2>1, <2>2, <2>3 DEF Handler
  <1>13. Covered(cursor)'
    BY <1>4 DEF IntakeInv, Covered
  <1> QED
    BY <1>4, <1>9, <1>10, <1>11, <1>12, <1>13, LocalStep DEF At, IntakeInv

\* The next record: one the pull has yielded is in the inbound store and passed over.
LEMMA NextRecordStep ==
    ASSUME Ingest!IngestAssumption, IntakeInv, NEW r \in Requests, NextRecord(r) PROVE IntakeInv'
  <1>1. Types /\ Handler(r)
    BY DEF IntakeInv
  <1>2. /\ step[r] = "next" /\ pos[r] <= Len(batch[r])
        /\ UNCHANGED <<store, published, pc, req, source, inbound, cursor, taken, failed>>
    BY DEF NextRecord, At, spineVars, historyVars
  <1>3. batch[r] \in Seq(Records) /\ Len(batch[r]) \in Nat /\ pos[r] \in 1 .. Len(batch[r]) /\ pc[r] = "idle"
    BY <1>1, <1>2 DEF Types, Handler, Position, InSpine, At
  <1>4. Covered(cursor)' /\ Grows
    BY <1>2 DEF IntakeInv, Covered, Grows
  <1>5. CASE Current(r) \in seen[r] /\ Advance(r)
    <2>1. Current(r) \in inbound
      BY <1>1, <1>2, <1>5 DEF Handler, Position, At
    <2>2. Handler(r)'
      BY <1>2, <1>3, <1>4, <1>5, <2>1, AdvancedHandler DEF Loaded
    <2>3. /\ step' \in [Requests -> Stages] /\ pos' \in [Requests -> Nat]
          /\ step'[r] = "next" /\ UNCHANGED <<page, seen, batch>>
          /\ \A u \in Requests \ {r} : step'[u] = step[u] /\ pos'[u] = pos[u]
      BY <1>1, <1>5, Advanced
    <2>4. Types'
      BY <1>1, <1>2, <2>3 DEF Types
    <2>5. \A u \in Requests \ {r} : Same(u)
      BY <1>2, <2>3 DEF Same
    <2> QED
      BY <1>2, <1>4, <2>2, <2>3, <2>4, <2>5, LocalStep DEF At, IntakeInv
  <1>6. CASE /\ Current(r) \notin seen[r] /\ Goto(r, "inbound") /\ UNCHANGED <<page, batch, pos>>
             /\ seen' = [seen EXCEPT ![r] = IF r \in Pollers THEN @ \cup {Current(r)} ELSE @]
    <2>1. Current(r) \in Records /\ Current(r)' = Current(r)
      BY <1>3, <1>6 DEF Current
    <2>2. /\ step' \in [Requests -> Stages] /\ step'[r] = "inbound"
          /\ \A u \in Requests \ {r} : step'[u] = step[u]
      BY <1>1, <1>6, Moved DEF Stages
    <2>3. /\ seen' \in [Requests -> SUBSET Records] /\ seen'[r] \subseteq seen[r] \cup {Current(r)}
          /\ \A u \in Requests \ {r} : seen'[u] = seen[u]
      BY <1>1, <1>6, <2>1 DEF Types
    <2>4. Types'
      BY <1>1, <1>2, <1>6, <2>2, <2>3 DEF Types
    <2>5. \A u \in Requests \ {r} : Same(u)
      BY <1>2, <1>6, <2>2, <2>3 DEF Same
    <2>6. \A m \in seen'[r] : m \in inbound' \/ m = Current(r)'
      BY <1>1, <1>2, <2>1, <2>3 DEF Handler, Position, At
    <2>7. Position(r)'
      BY <1>1, <1>2, <1>3, <1>6, <2>2, <2>6 DEF Handler, Position, At, Loaded
    <2>8. InSpine(r)' /\ Scanning(r)'
      BY <1>1, <1>2, <1>3, <1>6, <2>2 DEF Handler, InSpine, Scanning, At, Loaded, Covered
    <2>9. Handler(r)'
      BY <2>7, <2>8 DEF Handler
    <2> QED
      BY <1>2, <1>4, <2>2, <2>4, <2>5, <2>9, LocalStep DEF At, IntakeInv
  <1> QED
    BY <1>5, <1>6 DEF NextRecord

\* At the end of its page or payload a handler has every record of it in the store.
LEMMA AllKnown ==
    ASSUME IntakeInv, NEW r \in Requests, At(r, "next"), pos[r] > Len(batch[r])
    PROVE  /\ \A i \in 1 .. Len(batch[r]) : batch[r][i] \in inbound
           /\ InBatch(r) \subseteq inbound
  <1>1. batch[r] \in Seq(Records) /\ Len(batch[r]) \in Nat /\ pos[r] \in Nat
    BY DEF IntakeInv, Types
  <1>2. \A i \in 1 .. Len(batch[r]) : i < pos[r]
    BY <1>1
  <1>3. \A i \in 1 .. Len(batch[r]) : batch[r][i] \in inbound
    BY <1>2 DEF IntakeInv, Handler, Position, At, Loaded
  <1> QED
    BY <1>3 DEF InBatch

\* A poller there has covered its page too.
LEMMA PageDone ==
    ASSUME IntakeInv, NEW r \in Requests, r \in Pollers, At(r, "next"), pos[r] > Len(batch[r])
    PROVE  Covered(page[r] + 1)
  <1>1. page[r] \in Nat /\ inbound \subseteq Records
    BY IntakeAssumption DEF IntakeInv, Types
  <1>2. /\ Covered(page[r]) /\ Len(batch[r]) = Len(Pages[page[r] + 1])
        /\ \A i \in 1 .. Len(batch[r]) : batch[r][i].event = Pages[page[r] + 1][i]
    BY DEF IntakeInv, Handler, Scanning, At, Loaded
  <1>3. \A k \in 1 .. Len(Pages[page[r] + 1]) :
            \E c \in Contents : [event |-> Pages[page[r] + 1][k], content |-> c] \in inbound
    <2> SUFFICES ASSUME NEW k \in 1 .. Len(Pages[page[r] + 1])
                 PROVE  \E c \in Contents : [event |-> Pages[page[r] + 1][k], content |-> c] \in inbound
      OBVIOUS
    <2>1. PICK m : m = batch[r][k]
      OBVIOUS
    <2>2. m \in inbound /\ m.event = Pages[page[r] + 1][k]
      BY <1>2, <2>1, AllKnown
    <2>3. m = [event |-> m.event, content |-> m.content] /\ m.content \in Contents
      BY <1>1, <2>2 DEF Records
    <2> QED
      BY <2>2, <2>3
  <1>4. \A i \in 1 .. (page[r] + 1) : i \in 1 .. page[r] \/ i = page[r] + 1
    BY <1>1
  <1> QED
    BY <1>2, <1>3, <1>4 DEF Covered

\* The end of a page: the token moves behind it, or the scan is complete.
LEMMA EndPageStep ==
    ASSUME Ingest!IngestAssumption, IntakeInv, NEW r \in Requests, EndPage(r) PROVE IntakeInv'
  <1>1. Types /\ Handler(r)
    BY DEF IntakeInv
  <1>2. /\ r \in Pollers /\ step[r] = "next" /\ At(r, "next") /\ pos[r] > Len(batch[r])
        /\ taken' = taken \cup InBatch(r)
        /\ UNCHANGED <<store, published, pc, req, source, inbound, failed>>
    BY DEF EndPage, At, spineVars
  <1>3. taken' \subseteq inbound /\ Covered(page[r] + 1) /\ pc[r] = "idle"
    BY <1>1, <1>2, AllKnown, PageDone DEF IntakeInv, Handler, InSpine, At
  <1>4. CASE /\ page[r] + 1 < Len(Pages) /\ cursor' = page[r] + 1 /\ Goto(r, "fetch")
             /\ page' = [page EXCEPT ![r] = @ + 1] /\ UNCHANGED <<seen, batch, pos>>
    <2>1. /\ step' \in [Requests -> Stages] /\ step'[r] = "fetch"
          /\ \A u \in Requests \ {r} : step'[u] = step[u]
      BY <1>1, <1>4, Moved DEF Stages
    <2>2. Len(Pages) \in Nat /\ page[r] \in 0 .. (Len(Pages) - 1)
      BY <1>1, IntakeAssumption DEF Types
    <2>3. page[r] + 1 \in 0 .. (Len(Pages) - 1)
      BY <1>4, <2>2
    <2>4. /\ page' \in [Requests -> 0 .. (Len(Pages) - 1)] /\ page'[r] = page[r] + 1
          /\ \A u \in Requests \ {r} : page'[u] = page[u]
      BY <1>1, <1>4, <2>3 DEF Types
    <2>5. Types'
      BY <1>1, <1>2, <1>4, <2>1, <2>3, <2>4 DEF Types
    <2>6. \A u \in Requests \ {r} : Same(u)
      BY <1>2, <1>4, <2>1, <2>4 DEF Same
    <2>7. Covered(cursor)'
      BY <1>2, <1>3, <1>4 DEF Covered
    <2>8. Handler(r)'
      <3>1. Position(r)'
        BY <1>1, <1>2, <1>4, <2>1 DEF Handler, Position, At, Loaded
      <3>2. InSpine(r)'
        BY <1>2, <1>3, <2>1 DEF InSpine, At
      <3>3. Scanning(r)'
        BY <1>2, <1>3, <2>1, <2>4 DEF Scanning, Loaded, Covered
      <3> QED
        BY <3>1, <3>2, <3>3 DEF Handler
    <2> QED
      BY <1>2, <1>3, <2>1, <2>5, <2>6, <2>7, <2>8, LocalStep DEF At
  <1>5. CASE page[r] + 1 = Len(Pages) /\ cursor' = 0 /\ Leave(r)
    <2>1. /\ step' \in [Requests -> Stages] /\ page' \in [Requests -> 0 .. (Len(Pages) - 1)]
          /\ seen' \in [Requests -> SUBSET Records] /\ batch' \in [Requests -> Seq(Records)]
          /\ pos' \in [Requests -> Nat] /\ step'[r] = "idle" /\ seen'[r] = {}
          /\ \A u \in Requests \ {r} : /\ step'[u] = step[u] /\ page'[u] = page[u] /\ seen'[u] = seen[u]
                                       /\ batch'[u] = batch[u] /\ pos'[u] = pos[u]
      BY <1>1, <1>5, Left
    <2>2. 0 \in 0 .. (Len(Pages) - 1)
      BY IntakeAssumption
    <2>3. Types'
      BY <1>1, <1>2, <1>5, <2>1, <2>2 DEF Types
    <2>4. \A u \in Requests \ {r} : Same(u)
      BY <1>2, <2>1 DEF Same
    <2>5. Handler(r)'
      BY <1>2, <1>3, <2>1, IdleHandler
    <2>6. Covered(cursor)'
      BY <1>5 DEF Covered
    <2> QED
      BY <1>2, <1>3, <2>1, <2>3, <2>4, <2>5, <2>6, LocalStep DEF At
  <1> QED
    BY <1>4, <1>5 DEF EndPage

\* A delivery is taken in hand.
LEMMA DeliverStep ==
    ASSUME Ingest!IngestAssumption, IntakeInv, NEW r \in Requests, NEW payload \in Payloads,
           Deliver(r, payload)
    PROVE  IntakeInv'
  <1>1. Types /\ Handler(r)
    BY DEF IntakeInv
  <1>2. /\ r \notin Pollers /\ step[r] = "idle" /\ Load(r, payload)
        /\ UNCHANGED <<store, published, pc, req, source, inbound, cursor, page, seen, taken, failed>>
    BY DEF Deliver, At, spineVars, historyVars
  <1>3. payload \in Seq(Records) /\ Len(payload) \in Nat
    BY IntakeAssumption
  <1>4. /\ step' \in [Requests -> Stages] /\ batch' \in [Requests -> Seq(Records)]
        /\ pos' \in [Requests -> Nat] /\ step'[r] = "next" /\ batch'[r] = payload /\ pos'[r] = 1
        /\ \A u \in Requests \ {r} : step'[u] = step[u] /\ batch'[u] = batch[u] /\ pos'[u] = pos[u]
    BY <1>1, <1>2, <1>3, Took
  <1>5. Types'
    BY <1>1, <1>2, <1>4 DEF Types
  <1>6. \A u \in Requests \ {r} : Same(u)
    BY <1>2, <1>4 DEF Same
  <1>7. Handler(r)'
    <2>1. 1 \in 1 .. (Len(payload) + 1) /\ \A i \in 1 .. Len(payload) : ~ (i < 1)
      BY <1>3
    <2>2. Position(r)'
      BY <1>1, <1>2, <1>4, <2>1 DEF Handler, Position, At, Loaded
    <2>3. InSpine(r)' /\ Scanning(r)'
      BY <1>1, <1>2, <1>4 DEF Handler, InSpine, Scanning, At
    <2> QED
      BY <2>2, <2>3 DEF Handler
  <1>8. Covered(cursor)'
    BY <1>2 DEF IntakeInv, Covered
  <1> QED
    BY <1>2, <1>4, <1>5, <1>6, <1>7, <1>8, LocalStep DEF At, IntakeInv

\* A handler outside the spine is done, or its call raises there.
LEMMA LeaveStep ==
    ASSUME Ingest!IngestAssumption, IntakeInv, NEW r \in Requests, ~ At(r, "pipeline"), Leave(r),
           UNCHANGED <<store, published, pc, req, source, inbound, cursor, failed>>,
           taken' \subseteq inbound
    PROVE  IntakeInv'
  <1>1. Types /\ pc[r] = "idle"
    BY DEF IntakeInv, Handler, InSpine
  <1>2. /\ step' \in [Requests -> Stages] /\ page' \in [Requests -> 0 .. (Len(Pages) - 1)]
        /\ seen' \in [Requests -> SUBSET Records] /\ batch' \in [Requests -> Seq(Records)]
        /\ pos' \in [Requests -> Nat] /\ step'[r] = "idle" /\ seen'[r] = {}
        /\ \A u \in Requests \ {r} : /\ step'[u] = step[u] /\ page'[u] = page[u] /\ seen'[u] = seen[u]
                                     /\ batch'[u] = batch[u] /\ pos'[u] = pos[u]
    BY <1>1, Left
  <1>3. Types'
    BY <1>1, <1>2 DEF Types
  <1>4. \A u \in Requests \ {r} : Same(u)
    BY <1>2 DEF Same
  <1>5. Handler(r)'
    BY <1>1, <1>2, IdleHandler
  <1>6. Covered(cursor)'
    BY DEF IntakeInv, Covered
  <1> QED
    BY <1>2, <1>3, <1>4, <1>5, <1>6, LocalStep DEF At

\* The delivery is answered.
LEMMA EndDeliveryStep ==
    ASSUME Ingest!IngestAssumption, IntakeInv, NEW r \in Requests, EndDelivery(r) PROVE IntakeInv'
  <1>1. /\ At(r, "next") /\ step[r] = "next" /\ pos[r] > Len(batch[r]) /\ Leave(r)
        /\ taken' = taken \cup InBatch(r)
        /\ UNCHANGED <<store, published, pc, req, source, inbound, cursor, failed>>
    BY DEF EndDelivery, At, spineVars
  <1>2. taken' \subseteq inbound
    BY <1>1, AllKnown DEF IntakeInv
  <1> QED
    BY <1>1, <1>2, LeaveStep DEF At

\* The source or a store of the intake fails.
LEMMA IntakeRaisesStep ==
    ASSUME Ingest!IngestAssumption, IntakeInv, NEW r \in Requests, IntakeRaises(r) PROVE IntakeInv'
  <1>1. /\ ~ At(r, "pipeline") /\ Leave(r)
        /\ UNCHANGED <<store, published, pc, req, source, inbound, cursor, taken, failed>>
    BY DEF IntakeRaises, At, historyVars
  <1> QED
    BY <1>1, LeaveStep DEF IntakeInv

\* The inbound store: a known record, or one without an event, is passed over; a new
\* one goes into the spine, where nobody else has it.
LEMMA RecordInboundStep ==
    ASSUME Ingest!IngestAssumption, IntakeInv, NEW r \in Requests, RecordInbound(r) PROVE IntakeInv'
  <1>1. Types /\ Handler(r)
    BY DEF IntakeInv
  <1>2. PICK m : m = Current(r)
    OBVIOUS
  <1>3. /\ step[r] = "inbound" /\ inbound' = inbound \cup {m}
        /\ UNCHANGED <<source, cursor, taken, failed>>
    BY <1>2 DEF RecordInbound, At, historyVars
  <1>4. batch[r] \in Seq(Records) /\ pos[r] \in 1 .. Len(batch[r]) /\ pc[r] = "idle" /\ ~ At(r, "pipeline")
    BY <1>1, <1>3 DEF Types, Handler, Position, InSpine, At
  <1>5. m \in Records
    BY <1>2, <1>4 DEF Current
  <1>6. inbound' \subseteq Records /\ taken' \subseteq inbound'
    BY <1>1, <1>3, <1>5 DEF Types, IntakeInv
  <1>7. CASE m \in inbound \/ m.content \in Eventless
    <2>1. Advance(r) /\ UNCHANGED <<store, published, pc, req>>
      BY <1>2, <1>7 DEF RecordInbound, spineVars
    <2>2. Grows
      BY <1>3, <2>1 DEF Grows
    <2>3. Handler(r)'
      BY <1>2, <1>3, <1>4, <2>1, <2>2, AdvancedHandler DEF Loaded
    <2>4. /\ step' \in [Requests -> Stages] /\ pos' \in [Requests -> Nat]
          /\ step'[r] = "next" /\ UNCHANGED <<page, seen, batch>>
          /\ \A u \in Requests \ {r} : step'[u] = step[u] /\ pos'[u] = pos[u]
      BY <1>1, <2>1, Advanced
    <2>5. Types'
      BY <1>1, <1>3, <1>6, <2>1, <2>4 DEF Types
    <2>6. \A u \in Requests \ {r} : Same(u)
      BY <2>1, <2>4 DEF Same
    <2>7. \A u \in Requests : Handler(u)'
      BY <2>2, <2>3, <2>6, HandlerKept
    <2>8. \A x \in inbound : Settled(x)'
      BY <1>2, <1>4, <2>2, <2>6, SettledKept
    <2>9. \A x \in inbound' : Settled(x)'
      <3>1. m.content \in Eventless => Settled(m)'
        BY DEF Settled, Ingested
      <3> QED
        BY <1>3, <1>7, <2>8, <3>1
    <2>10. NoDoubleApplication'
      BY <2>4, <2>6, SingleKept DEF At
    <2>11. Covered(cursor)'
      BY <1>3 DEF IntakeInv, Covered
    <2> QED
      BY <1>6, <2>5, <2>7, <2>9, <2>10, <2>11 DEF IntakeInv
  <1>8. CASE m \notin inbound /\ m.content \notin Eventless
    <2>1. /\ Ingest!Submit(r, m.event, m.content) /\ Goto(r, "pipeline")
          /\ UNCHANGED <<page, seen, batch, pos>>
      BY <1>2, <1>8 DEF RecordInbound
    <2>2. /\ UNCHANGED <<store, published>> /\ pc' = [pc EXCEPT ![r] = "record"]
          /\ req' = [req EXCEPT ![r] = [event |-> m.event, content |-> m.content]]
      BY <2>1 DEF Ingest!Submit, Ingest!Goto, Ingest!storeVars
    <2>3. [event |-> m.event, content |-> m.content] = m
      BY <1>5 DEF Records
    <2>4. /\ pc' \in [Requests -> Ingest!Steps] /\ req' \in [Requests -> Records \cup {None}]
          /\ pc'[r] = "record" /\ req'[r] = m
          /\ \A u \in Requests \ {r} : pc'[u] = pc[u] /\ req'[u] = req[u]
      BY <1>1, <1>5, <2>2, <2>3 DEF Types, Ingest!Steps
    <2>5. /\ step' \in [Requests -> Stages] /\ step'[r] = "pipeline"
          /\ \A u \in Requests \ {r} : step'[u] = step[u]
      BY <1>1, <2>1, Moved DEF Stages
    <2>6. Grows /\ Current(r)' = m /\ At(r, "pipeline")'
      BY <1>2, <1>3, <2>1, <2>2, <2>5 DEF Grows, Current, At
    <2>7. Types'
      BY <1>1, <1>3, <1>6, <2>1, <2>2, <2>4, <2>5 DEF Types
    <2>8. \A u \in Requests \ {r} : Same(u)
      BY <2>1, <2>4, <2>5 DEF Same
    <2>9. Position(r)'
      BY <1>1, <1>2, <1>3, <1>4, <2>1, <2>5, <2>6 DEF Handler, Position, At, Loaded
    <2>10. InSpine(r)'
      <3>1. Carried(r)'
        BY <2>4 DEF Carried, Ingest!Recorded
      <3> QED
        BY <1>3, <1>8, <2>4, <2>6, <3>1 DEF InSpine
    <2>11. Scanning(r)'
      BY <1>1, <1>3, <2>1, <2>5 DEF Handler, Scanning, Loaded, Covered
    <2>12. \A u \in Requests : Handler(u)'
      BY <2>6, <2>8, <2>9, <2>10, <2>11, HandlerKept DEF Handler
    <2>13. \A x \in inbound : Settled(x)'
      BY <1>2, <1>4, <2>6, <2>8, SettledKept
    <2>14. Settled(m)'
      BY <2>6 DEF Settled, UnderWay
    <2>15. \A x \in inbound' : Settled(x)'
      BY <1>3, <2>13, <2>14
    <2>16. NoDoubleApplication'
      BY <1>8, <2>6, <2>8, SingleKept
    <2>17. Covered(cursor)'
      BY <1>3 DEF IntakeInv, Covered
    <2> QED
      BY <1>6, <2>7, <2>12, <2>15, <2>16, <2>17 DEF IntakeInv
  <1> QED
    BY <1>7, <1>8

----------------------------------------------------------------------------
\* The processing of the record in the spine raises: it has failed.
LEMMA RaiseStep ==
    ASSUME Ingest!IngestAssumption, IntakeInv, NEW r \in Requests, At(r, "pipeline"), Raise(r), Grows,
           store' \in [Events -> Contents \cup {None}],
           pc' \in [Requests -> Ingest!Steps], req' \in [Requests -> Records \cup {None}],
           \A u \in Requests \ {r} : pc'[u] = pc[u] /\ req'[u] = req[u], pc'[r] = "idle",
           UNCHANGED <<source, inbound, cursor, taken>>
    PROVE  IntakeInv'
  <1>1. Types
    BY DEF IntakeInv
  <1>2. PICK m : m = Current(r)
    OBVIOUS
  <1>3. failed' = failed \cup {m} /\ Leave(r)
    BY <1>2 DEF Raise
  <1>4. /\ step' \in [Requests -> Stages] /\ page' \in [Requests -> 0 .. (Len(Pages) - 1)]
        /\ seen' \in [Requests -> SUBSET Records] /\ batch' \in [Requests -> Seq(Records)]
        /\ pos' \in [Requests -> Nat] /\ step'[r] = "idle" /\ seen'[r] = {}
        /\ \A u \in Requests \ {r} : /\ step'[u] = step[u] /\ page'[u] = page[u] /\ seen'[u] = seen[u]
                                     /\ batch'[u] = batch[u] /\ pos'[u] = pos[u]
    BY <1>1, <1>3, Left
  <1>5. Types'
    BY <1>1, <1>4 DEF Types
  <1>6. \A u \in Requests \ {r} : Same(u)
    BY <1>4 DEF Same
  <1>7. \A u \in Requests : Handler(u)'
    BY <1>4, <1>6, IdleHandler, HandlerKept
  <1>8. \A x \in inbound' : Settled(x)'
    BY <1>2, <1>3, <1>6, SettledKept
  <1>9. NoDoubleApplication'
    BY <1>4, <1>6, SingleKept DEF At
  <1>10. Covered(cursor)'
    BY DEF IntakeInv, Covered
  <1> QED
    BY <1>5, <1>7, <1>8, <1>9, <1>10 DEF IntakeInv

\* A call of the spine, its answer, or its 409.
LEMMA PipelineStep ==
    ASSUME Ingest!IngestAssumption, IntakeInv, NEW r \in Requests, Pipeline(r) PROVE IntakeInv'
  <1>1. Types /\ Handler(r)
    BY DEF IntakeInv
  <1>2. PICK m : m = Current(r)
    OBVIOUS
  <1>3. /\ At(r, "pipeline") /\ step[r] = "pipeline" /\ Ingest!RecordPipelineEvent(r)
        /\ UNCHANGED <<source, inbound, cursor, taken>>
    BY DEF Pipeline, At
  <1>4. /\ batch[r] \in Seq(Records) /\ pos[r] \in 1 .. Len(batch[r]) /\ req[r] = m /\ Carried(r)
        /\ m \in inbound /\ m.content \notin Eventless
    BY <1>1, <1>2, <1>3 DEF Types, Handler, Position, InSpine
  <1>5. m \in Records
    BY <1>1, <1>4 DEF Types
  <1>6. /\ store' \in [Events -> Contents \cup {None}]
        /\ \A e \in Events : store[e] # None => store'[e] = store[e]
        /\ published \subseteq published'
        /\ pc' \in [Requests -> Ingest!Steps] /\ req' \in [Requests -> Records \cup {None}]
        /\ \A u \in Requests \ {r} : pc'[u] = pc[u] /\ req'[u] = req[u]
    BY <1>1, <1>3, <1>4, <1>5, SpineStep
  <1>7. \/ req'[r] = m /\ Carried(r)'
        \/ pc'[r] = "idle" /\ pc[r] = "compare"
        \/ /\ pc'[r] = "idle" /\ pc[r] # "compare"
           /\ store'[m.event] = m.content /\ m.event \in published'
    BY <1>1, <1>3, <1>4, <1>5, SpineStep
  <1>8. Covered(cursor)'
    BY <1>3 DEF IntakeInv, Covered
  <1>9. CASE pc'[r] # "idle" /\ UNCHANGED <<localVars, failed>>
    <2>1. UNCHANGED <<step, page, seen, batch, pos, failed>> /\ req'[r] = m /\ Carried(r)'
      BY <1>7, <1>9 DEF localVars
    <2>2. Grows /\ Current(r)' = m /\ At(r, "pipeline")'
      BY <1>2, <1>3, <1>6, <2>1 DEF Grows, Current, At
    <2>3. Types'
      BY <1>1, <1>3, <1>6, <2>1 DEF Types
    <2>4. \A u \in Requests \ {r} : Same(u)
      BY <1>6, <2>1 DEF Same
    <2>5. Handler(r)'
      <3>1. Position(r)' /\ Scanning(r)'
        BY <1>1, <1>3, <2>1, <2>2 DEF Handler, Position, Scanning, At, Loaded, Covered
      <3>2. InSpine(r)'
        BY <1>3, <1>4, <2>1, <2>2 DEF InSpine
      <3> QED
        BY <3>1, <3>2 DEF Handler
    <2>6. \A u \in Requests : Handler(u)'
      BY <2>2, <2>4, <2>5, HandlerKept
    <2>7. \A x \in inbound' : Settled(x)'
      BY <1>2, <1>3, <2>2, <2>4, SettledKept
    <2>8. NoDoubleApplication'
      BY <1>2, <1>3, <2>2, <2>4, SingleKept
    <2> QED
      BY <1>3, <1>8, <2>3, <2>6, <2>7, <2>8 DEF IntakeInv
  <1>10. CASE pc'[r] = "idle" /\ pc[r] # "compare" /\ Advance(r) /\ UNCHANGED failed
    <2>1. store'[m.event] = m.content /\ m.event \in published'
      BY <1>7, <1>10 DEF Carried
    <2>2. Grows /\ Ingested(m)'
      BY <1>3, <1>6, <1>10, <2>1 DEF Grows, Ingested
    <2>3. Handler(r)'
      BY <1>2, <1>3, <1>4, <1>10, <2>2, AdvancedHandler DEF Loaded
    <2>4. /\ step' \in [Requests -> Stages] /\ pos' \in [Requests -> Nat]
          /\ step'[r] = "next" /\ UNCHANGED <<page, seen, batch>>
          /\ \A u \in Requests \ {r} : step'[u] = step[u] /\ pos'[u] = pos[u]
      BY <1>1, <1>10, Advanced
    <2>5. Types'
      BY <1>1, <1>3, <1>6, <2>4 DEF Types
    <2>6. \A u \in Requests \ {r} : Same(u)
      BY <1>6, <2>4 DEF Same
    <2>7. \A u \in Requests : Handler(u)'
      BY <2>2, <2>3, <2>6, HandlerKept
    <2>8. \A x \in inbound' : Settled(x)'
      BY <1>2, <1>3, <2>2, <2>6, SettledKept
    <2>9. NoDoubleApplication'
      BY <2>4, <2>6, SingleKept DEF At
    <2> QED
      BY <1>3, <1>8, <2>5, <2>7, <2>8, <2>9 DEF IntakeInv
  <1>11. CASE pc'[r] = "idle" /\ Raise(r)
    <2>1. Grows
      BY <1>3, <1>6, <1>11 DEF Grows, Raise
    <2> QED
      BY <1>3, <1>6, <1>11, <2>1, RaiseStep
  <1> QED
    BY <1>9, <1>10, <1>11 DEF Pipeline

\* A call of the spine raises, or the process dies in it.
LEMMA PipelineRaisesStep ==
    ASSUME Ingest!IngestAssumption, IntakeInv, NEW r \in Requests, PipelineRaises(r) PROVE IntakeInv'
  <1>1. Types
    BY DEF IntakeInv
  <1>2. /\ At(r, "pipeline") /\ Ingest!Abort(r) /\ Raise(r) /\ UNCHANGED <<source, inbound, cursor, taken>>
    BY DEF PipelineRaises
  <1>3. /\ UNCHANGED <<store, published>> /\ pc' = [pc EXCEPT ![r] = "idle"]
        /\ req' = [req EXCEPT ![r] = None]
    BY <1>2 DEF Ingest!Abort, Ingest!Answer, Ingest!Goto, Ingest!storeVars
  <1>4. /\ pc' \in [Requests -> Ingest!Steps] /\ req' \in [Requests -> Records \cup {None}]
        /\ \A u \in Requests \ {r} : pc'[u] = pc[u] /\ req'[u] = req[u]
        /\ pc'[r] = "idle"
    BY <1>1, <1>3 DEF Types, Ingest!Steps
  <1>5. Grows /\ store' \in [Events -> Contents \cup {None}]
    BY <1>1, <1>2, <1>3 DEF Grows, Raise, Types
  <1> QED
    BY <1>2, <1>4, <1>5, RaiseStep

\* Nothing of what the invariant speaks of changes, but perhaps the source.
LEMMA SourceStep ==
    ASSUME IntakeInv, source' \in [Events -> Contents],
           UNCHANGED <<store, published, pc, req, inbound, cursor, step, page, seen, batch, pos, taken,
                       failed>>
    PROVE  IntakeInv'
  <1>1. Types'
    BY DEF IntakeInv, Types
  <1>2. \A r \in Requests : Handler(r)'
    BY DEF IntakeInv, Handler, Position, InSpine, Scanning, Carried, Covered, At, Current
  <1>3. \A m \in inbound' : Settled(m)'
    BY DEF IntakeInv, Settled, Ingested, UnderWay, At, Current
  <1>4. NoDoubleApplication' /\ Covered(cursor)' /\ (taken \subseteq inbound)'
    BY DEF IntakeInv, NoDoubleApplication, Covered, At, Current
  <1> QED
    BY <1>1, <1>2, <1>3, <1>4 DEF IntakeInv

----------------------------------------------------------------------------
\* Nothing is known and nobody is at work.
LEMMA InitInv == Init => IntakeInv
  <1> SUFFICES ASSUME Init PROVE IntakeInv
    OBVIOUS
  <1>1. /\ store = [e \in Events |-> None] /\ pc = [r \in Requests |-> "idle"]
        /\ req = [r \in Requests |-> None]
    BY DEF Init, Ingest!Init
  <1>2. 0 \in 0 .. (Len(Pages) - 1) /\ "idle" \in Ingest!Steps /\ "idle" \in Stages
    BY IntakeAssumption DEF Ingest!Steps, Stages
  <1>3. Types
    BY <1>1, <1>2, IntakeAssumption DEF Init, Types
  <1>4. \A r \in Requests : Handler(r)
    BY <1>1 DEF Init, Handler, Position, InSpine, Scanning, At, Loaded
  <1>5. NoDoubleApplication /\ Covered(cursor)
    BY DEF Init, NoDoubleApplication, Covered, At
  <1> QED
    BY <1>3, <1>4, <1>5 DEF Init, IntakeInv

\* Every step preserves the invariant.
LEMMA StepInv == ASSUME Ingest!IngestAssumption, IntakeInv, [Next]_vars PROVE IntakeInv'
  <1>1. CASE UNCHANGED vars
    <2>1. /\ UNCHANGED <<store, published, pc, req, inbound, cursor, step, page, seen, batch, pos, taken,
                         failed>>
          /\ source' \in [Events -> Contents]
      BY <1>1 DEF vars, spineVars, localVars, historyVars, IntakeInv, Types
    <2> QED
      BY <2>1, SourceStep
  <1>2. ASSUME NEW r \in Requests, Process(r) PROVE IntakeInv'
    <2>1. CASE BeginPull(r) \/ FetchPage(r) \/ NextRecord(r) \/ EndPage(r) \/ EndDelivery(r)
      BY <2>1, BeginPullStep, FetchPageStep, NextRecordStep, EndPageStep, EndDeliveryStep
    <2>2. CASE RecordInbound(r) \/ Pipeline(r)
      BY <2>2, RecordInboundStep, PipelineStep
    <2> QED
      BY <1>2, <2>1, <2>2 DEF Process
  <1>3. ASSUME NEW r \in Requests, PipelineRaises(r) \/ IntakeRaises(r) PROVE IntakeInv'
    BY <1>3, PipelineRaisesStep, IntakeRaisesStep
  <1>4. ASSUME NEW r \in Requests, NEW payload \in Payloads, Deliver(r, payload) PROVE IntakeInv'
    BY <1>4, DeliverStep
  <1>5. ASSUME NEW e \in Events, NEW c \in Contents, Change(e, c) PROVE IntakeInv'
    <2>1. /\ source' = [source EXCEPT ![e] = c]
          /\ UNCHANGED <<store, published, pc, req, inbound, cursor, step, page, seen, batch, pos, taken,
                         failed>>
      BY <1>5 DEF Change, spineVars, localVars, historyVars
    <2>2. source' \in [Events -> Contents]
      BY <2>1 DEF IntakeInv, Types
    <2> QED
      BY <2>1, <2>2, SourceStep
  <1> QED
    BY <1>1, <1>2, <1>3, <1>4, <1>5 DEF Next

\* IntakeInv is an invariant of the intake over the spine (_process_inbound_record,
\* PollingConnector.pull, ConnectorPollService and the webhook routes).
THEOREM IntakeInvariant == ASSUME Ingest!IngestAssumption PROVE Spec => []IntakeInv
  <1>1. IntakeInv /\ [Next]_vars => IntakeInv'
    BY StepInv
  <1> QED
    BY <1>1, InitInv, PTL DEF Spec

\* A record that its source will not send again is through the spine, under way or has
\* failed itself; no record goes through the spine in two handlers; and every page
\* before the stored token was recorded, whichever poller moved it.
THEOREM AppliedAlways == ASSUME Ingest!IngestAssumption PROVE Spec => []RecordsAreApplied
  <1>1. IntakeInv => RecordsAreApplied
    BY DEF IntakeInv, RecordsAreApplied, LostOnlyByFailure, Settled, CursorIsCovered, Covered
  <1> QED
    BY <1>1, IntakeInvariant, PTL

-----------------------------------------------------------------------------
(* The schedule of the polls (PollSchedule). Its inductive invariant has three parts, *)
(* which share no variable that changes in both.                                       *)

\* The watermark: no later than the clock, and a date some page ended with.
WatermarkInv ==
    /\ now \in Nat \ {0} /\ date \in [Rows -> 1 .. now]
    /\ watermark \in 0 .. now /\ watermark \in marks \cup {0}
    /\ Schedule!OnlyTiesAreSkipped

\* Fields of a system were taken from where they are now.
Backed(from, s) ==
    /\ from = "own" => creds[s] = "complete"
    /\ from = "env" => creds[s] = None /\ s \in Env

\* The run: what is left of it was built from the fields as they are, and every configured
\* system has been pulled or is left, unless the owner changed it meanwhile.
RunInv ==
    /\ creds \in [Schedule!Systems -> Schedule!Fields \cup {None}]
    /\ used \in [Schedule!Systems -> {"own", "env", None}]
    /\ run # None =>
          /\ DOMAIN run \subseteq 1 .. Len(Order) /\ run \in Schedule!Connectors(DOMAIN run)
          /\ \A i \in DOMAIN run : Order[i] \notin edited => Backed(run[i], Order[i])
          /\ \A s \in Schedule!Systems \ edited :
                Schedule!Configured(s) => s \in polled \/ \E i \in DOMAIN run : Order[i] = s
    /\ Schedule!FieldsAreCurrent /\ Schedule!OkIsComplete

\* The webhook endpoints and what they took in.
EndpointInv ==
    /\ endpoint \in [Endpoints -> Schedule!Endpoint \cup {None}]
    /\ \A d \in accepted : d.endpoint \in Endpoints
    /\ Schedule!EndpointsKeepTheirTenant

\* The steps that leave each part alone.
watermarkVars == <<date, now, watermark, marks, delivered>>
runVars == <<creds, run, status, polled, used, edited>>

\* A set of numbers with a bound has a largest.
LEMMA BoundedHasLargest ==
    ASSUME NEW S, S # {}, NEW n \in Nat, S \subseteq 0 .. n
    PROVE  \E x \in S : \A y \in S : y <= x
  <1> DEFINE Above(x) == {y \in S : y >= x}
             All == {Above(x) : x \in S}
  <1>1. \A x \in S : Above(x) \in FiniteSubsetsOf(0 .. n)
    <2> SUFFICES ASSUME NEW x \in S PROVE Above(x) \in SUBSET (0 .. n) /\ IsFiniteSet(Above(x))
      BY DEF FiniteSubsetsOf
    <2>1. IsFiniteSet(0 .. n)
      BY FS_Interval
    <2> QED
      BY <2>1, FS_Subset
  <1>2. All \subseteq FiniteSubsetsOf(0 .. n) /\ All # {}
    BY <1>1
  <1> HIDE DEF All
  <1>3. PICK least \in All : \A other \in All : <<other, least>> \notin StrictSubsetOrdering(0 .. n)
    BY <1>2, FS_StrictSubsetOrderingWellFounded, WFMin
  <1>4. PICK x \in S : least = Above(x)
    BY <1>3 DEF All
  <1>5. ASSUME NEW y \in S, ~ y <= x PROVE FALSE
    <2>1. x \in 0 .. n /\ y \in 0 .. n
      OBVIOUS
    <2>2. Above(y) \subseteq Above(x) /\ Above(y) # Above(x)
      <3>1. x \in Above(x) /\ x \notin Above(y)
        BY <1>5, <2>1
      <3>2. ASSUME NEW z \in S, z >= y PROVE z >= x
        <4>1. z \in 0 .. n
          OBVIOUS
        <4> QED
          BY <1>5, <2>1, <3>2, <4>1
      <3> QED
        BY <3>1, <3>2
    <2>3. Above(y) \subseteq 0 .. n /\ Above(x) \subseteq 0 .. n
      OBVIOUS
    <2> HIDE DEF Above
    <2>4. Above(y) \in All
      BY DEF All
    <2>5. <<Above(y), Above(x)>> \in StrictSubsetOrdering(0 .. n)
      BY <2>2, <2>3 DEF StrictSubsetOrdering
    <2> QED
      BY <1>3, <1>4, <2>4, <2>5
  <1> QED
    BY <1>5

\* A page's last date is that of one of its rows, and no row of it is later.
LEMMA LastDate ==
    ASSUME WatermarkInv, NEW p \in SUBSET Rows, p # {}
    PROVE  /\ \E r \in p : Schedule!max_write_date(p) = date[r]
           /\ \A r \in p : date[r] <= Schedule!max_write_date(p)
  <1> DEFINE S == {date[r] : r \in p}
  <1>1. S # {} /\ S \subseteq 0 .. now /\ now \in Nat
    BY DEF WatermarkInv
  <1>2. \E d \in S : \A y \in S : y <= d
    <2> HIDE DEF S
    <2> QED
      BY <1>1, BoundedHasLargest
  <1>3. \E d \in S : \A r \in p : date[r] <= d
    BY <1>2
  <1>4. Schedule!max_write_date(p) = CHOOSE d \in S : \A r \in p : date[r] <= d
    BY DEF Schedule!max_write_date
  <1>5. Schedule!max_write_date(p) \in S /\ \A r \in p : date[r] <= Schedule!max_write_date(p)
    BY <1>3, <1>4
  <1> QED
    BY <1>5

\* A row written now is above the watermark, or has the date of the last page's end.
LEMMA WriteKeepsWatermark ==
    ASSUME WatermarkInv, NEW r \in Rows, Schedule!Write(r)
    PROVE  WatermarkInv'
  <1>1. date' = [date EXCEPT ![r] = now] /\ UNCHANGED <<now, watermark, marks, delivered>>
    BY DEF Schedule!Write, Schedule!pollVars
  <1>2. date' \in [Rows -> 1 .. now]
    BY <1>1 DEF WatermarkInv
  <1>3. ASSUME NEW q \in Rows, date'[q] <= watermark
        PROVE  [row |-> q, date |-> date'[q]] \in delivered \/ date'[q] \in marks
    <2>1. CASE q = r
      BY <1>1, <1>3, <2>1 DEF WatermarkInv
    <2>2. CASE q # r
      BY <1>1, <1>3, <2>2 DEF WatermarkInv, Schedule!OnlyTiesAreSkipped
    <2> QED
      BY <2>1, <2>2
  <1> QED
    BY <1>1, <1>2, <1>3 DEF WatermarkInv, Schedule!OnlyTiesAreSkipped

\* Time passes: nothing was polled.
LEMMA TickKeepsWatermark ==
    ASSUME WatermarkInv, Schedule!Tick
    PROVE  WatermarkInv'
  <1>1. now' = now + 1 /\ UNCHANGED <<date, watermark, marks, delivered>>
    BY DEF Schedule!Tick, Schedule!pollVars
  <1> QED
    BY <1>1 DEF WatermarkInv, Schedule!OnlyTiesAreSkipped

\* A page takes the oldest rows above the watermark: what it leaves is no older than its last.
LEMMA PullKeepsWatermark ==
    ASSUME WatermarkInv, NEW i, Schedule!PullOdoo(i)
    PROVE  WatermarkInv'
  <1>1. UNCHANGED <<date, now>>
    BY DEF Schedule!PullOdoo, Schedule!sourceVars
  <1>2. PICK p \in Schedule!NextPages :
           /\ delivered' = delivered \cup {[row |-> r, date |-> date[r]] : r \in p}
           /\ IF p = {} THEN UNCHANGED <<watermark, marks>>
              ELSE watermark' = Schedule!max_write_date(p) /\ marks' = marks \cup {watermark'}
    BY DEF Schedule!PullOdoo
  <1>3. p \subseteq Rows /\ \A r \in p : date[r] > watermark
    BY DEF Schedule!NextPages, Schedule!Above
  <1>4. \A r \in p : \A q \in Rows \ p : date[q] > watermark => date[r] <= date[q]
    BY DEF Schedule!NextPages, Schedule!Above
  <1>5. CASE p = {}
    BY <1>1, <1>2, <1>5 DEF WatermarkInv, Schedule!OnlyTiesAreSkipped
  <1>6. CASE p # {}
    <2>1. PICK r \in p : watermark' = date[r]
      BY <1>2, <1>3, <1>6, LastDate
    <2>2. \A q \in p : date[q] <= watermark'
      BY <1>2, <1>3, <1>6, LastDate
    <2>3. watermark' \in 0 .. now /\ marks' = marks \cup {watermark'}
      BY <1>2, <1>3, <1>6, <2>1 DEF WatermarkInv
    <2>4. ASSUME NEW q \in Rows, date[q] <= watermark'
          PROVE  [row |-> q, date |-> date[q]] \in delivered' \/ date[q] \in marks'
      <3>1. CASE q \in p
        BY <1>2, <3>1
      <3>2. CASE q \notin p /\ date[q] > watermark
        <4>1. date[r] <= date[q] /\ date[q] \in Nat /\ date[r] \in Nat
          BY <1>3, <1>4, <3>2 DEF WatermarkInv
        <4> QED
          BY <2>1, <2>3, <2>4, <4>1
      <3>3. CASE ~ date[q] > watermark
        <4>1. date[q] <= watermark
          BY <3>3 DEF WatermarkInv
        <4> QED
          BY <1>2, <2>3, <4>1 DEF WatermarkInv, Schedule!OnlyTiesAreSkipped
      <3> QED
        BY <3>1, <3>2, <3>3
    <2> QED
      BY <1>1, <2>3, <2>4 DEF WatermarkInv, Schedule!OnlyTiesAreSkipped
  <1> QED
    BY <1>5, <1>6

\* A step that leaves rows, clock, watermark and deliveries alone.
LEMMA OthersKeepWatermark ==
    ASSUME WatermarkInv, UNCHANGED watermarkVars
    PROVE  WatermarkInv'
  BY DEF WatermarkInv, watermarkVars, Schedule!OnlyTiesAreSkipped

\* The step of a schedule, as far as the watermark goes.
LEMMA WatermarkStep ==
    ASSUME WatermarkInv, Schedule!Next
    PROVE  WatermarkInv'
  <1> USE DEF Schedule!sourceVars, Schedule!pollVars, Schedule!hookVars, watermarkVars
  <1>1. CASE \E r \in Rows : Schedule!Write(r)
    BY <1>1, WriteKeepsWatermark
  <1>2. CASE Schedule!Tick
    BY <1>2, TickKeepsWatermark
  <1>3. CASE \E s \in Schedule!Systems : Schedule!Fail(s) \/ Schedule!Recover(s)
                                          \/ Schedule!delete_connector_credentials(s)
    BY <1>3, OthersKeepWatermark DEF Schedule!Fail, Schedule!Recover,
       Schedule!delete_connector_credentials
  <1>4. CASE \E s \in Schedule!Systems, f \in Schedule!Fields :
                Schedule!upsert_connector_credentials(s, f)
    BY <1>4, OthersKeepWatermark DEF Schedule!upsert_connector_credentials
  <1>5. CASE \E e \in Endpoints : Schedule!receive_tenant_webhook(e)
    BY <1>5, OthersKeepWatermark DEF Schedule!receive_tenant_webhook
  <1>6. CASE \E e \in Endpoints, t \in Tenants :
                Schedule!provision_webhook_endpoint(e, t) \/ Schedule!revoke_webhook_endpoint(e, t)
    BY <1>6, OthersKeepWatermark DEF Schedule!provision_webhook_endpoint,
       Schedule!revoke_webhook_endpoint
  <1>7. CASE Schedule!StartRun
    BY <1>7, OthersKeepWatermark DEF Schedule!StartRun
  <1>8. CASE Schedule!EndRun
    BY <1>8, OthersKeepWatermark DEF Schedule!EndRun
  <1>9. ASSUME NEW i \in 1 .. Len(Order),
               Schedule!PullOdoo(i) \/ Schedule!PullOther(i) \/ Schedule!CrashRun(i)
        PROVE  WatermarkInv'
    BY <1>9, PullKeepsWatermark, OthersKeepWatermark DEF Schedule!PullOther, Schedule!CrashRun
  <1> QED
    BY <1>1, <1>2, <1>3, <1>4, <1>5, <1>6, <1>7, <1>8, <1>9 DEF Schedule!Next, Schedule!Poll

\* A connector is built with the fields that win at that moment.
LEMMA BuiltFromCurrent ==
    ASSUME RunInv, SourceAssumption
    PROVE  LET built == Schedule!build_configured_connectors IN
           /\ DOMAIN built \subseteq 1 .. Len(Order) /\ built \in Schedule!Connectors(DOMAIN built)
           /\ \A i \in DOMAIN built : Backed(built[i], Order[i])
           /\ \A s \in Schedule!Systems :
                Schedule!Configured(s) => \E i \in DOMAIN built : Order[i] = s
  <1> DEFINE complete == {j \in 1 .. Len(Order) :
                            Schedule!resolve_connector_credentials(Order[j]).fields = "complete"}
  <1> PICK built : built = Schedule!build_configured_connectors
    OBVIOUS
  <1>1. built = [i \in complete |-> Schedule!resolve_connector_credentials(Order[i]).from]
    BY DEF Schedule!build_configured_connectors
  <1>2. \A i \in 1 .. Len(Order) : Order[i] \in Schedule!Systems
    BY DEF Schedule!Systems
  <1>3. \A s \in Schedule!Systems :
           /\ Schedule!resolve_connector_credentials(s).from \in {"own", "env"}
           /\ Schedule!resolve_connector_credentials(s).fields = "complete" =>
                 Backed(Schedule!resolve_connector_credentials(s).from, s)
           /\ Schedule!Configured(s) => Schedule!resolve_connector_credentials(s).fields = "complete"
    <2> SUFFICES ASSUME NEW s \in Schedule!Systems
                 PROVE  LET own == Schedule!resolve_connector_credentials(s) IN
                        /\ own.from \in {"own", "env"}
                        /\ own.fields = "complete" => Backed(own.from, s)
                        /\ Schedule!Configured(s) => own.fields = "complete"
      OBVIOUS
    <2>1. CASE creds[s] # None
      <3>1. Schedule!resolve_connector_credentials(s) = [from |-> "own", fields |-> creds[s]]
        BY <2>1 DEF Schedule!resolve_connector_credentials
      <3> QED
        BY <2>1, <3>1 DEF Schedule!Configured, Backed
    <2>2. CASE creds[s] = None
      <3>1. Schedule!resolve_connector_credentials(s) =
               [from |-> "env", fields |-> IF s \in Env THEN "complete" ELSE "partial"]
        BY <2>2 DEF Schedule!resolve_connector_credentials
      <3>2. None # "complete"
        BY DEF SourceAssumption, Schedule!ScheduleAssumption, Schedule!Fields
      <3> QED
        BY <2>2, <3>1, <3>2 DEF Schedule!Configured, Backed
    <2> QED
      BY <2>1, <2>2
  <1>4. DOMAIN built = complete /\ complete \subseteq 1 .. Len(Order)
    BY <1>1
  <1>5. built \in Schedule!Connectors(DOMAIN built)
    <2>1. \A i \in complete : built[i] \in {"own", "env"}
      BY <1>1, <1>2, <1>3
    <2> HIDE DEF complete
    <2>2. built \in [complete -> {"own", "env"}]
      BY <1>1, <2>1
    <2> QED
      BY <1>4, <2>2 DEF Schedule!Connectors
  <1>6. \A i \in DOMAIN built : Backed(built[i], Order[i])
    BY <1>1, <1>2, <1>3, <1>4
  <1>7. ASSUME NEW s \in Schedule!Systems, Schedule!Configured(s)
        PROVE  \E i \in DOMAIN built : Order[i] = s
    <2>1. PICK i \in 1 .. Len(Order) : Order[i] = s
      BY DEF Schedule!Systems
    <2> QED
      BY <1>3, <1>4, <1>7, <2>1
  <1> QED
    BY <1>4, <1>5, <1>6, <1>7

\* A run that begins takes the fields that are stored now, or crashes on unreadable ones.
LEMMA StartKeepsRun ==
    ASSUME RunInv, SourceAssumption, Schedule!StartRun
    PROVE  RunInv'
  <1>1. UNCHANGED creds /\ run = None
    BY DEF Schedule!StartRun
  <1>2. CASE \E s \in Schedule!Systems :
                Schedule!resolve_connector_credentials(s).fields = "unreadable"
    <2>1. status' = "crashed" /\ UNCHANGED <<run, polled, used, edited>>
      BY <1>2 DEF Schedule!StartRun
    <2> QED
      BY <1>1, <2>1 DEF RunInv, Schedule!FieldsAreCurrent, Schedule!OkIsComplete
  <1>3. CASE ~ \E s \in Schedule!Systems :
                Schedule!resolve_connector_credentials(s).fields = "unreadable"
    <2> PICK built : built = Schedule!build_configured_connectors
      OBVIOUS
    <2>1. run' = built /\ polled' = {} /\ used' = [s \in Schedule!Systems |-> None] /\ edited' = {}
      BY <1>3 DEF Schedule!StartRun
    <2>2. /\ DOMAIN built \subseteq 1 .. Len(Order) /\ built \in Schedule!Connectors(DOMAIN built)
          /\ \A i \in DOMAIN built : Backed(built[i], Order[i])
          /\ \A s \in Schedule!Systems :
               Schedule!Configured(s) => \E i \in DOMAIN built : Order[i] = s
      BY BuiltFromCurrent
    <2>3. built # None /\ None \notin {"own", "env"}
      BY <2>2 DEF SourceAssumption, Schedule!ScheduleAssumption
    <2>4. \A s \in Schedule!Systems : Schedule!Configured(s)' <=> Schedule!Configured(s)
      BY <1>1 DEF Schedule!Configured
    <2>5. \A f, s : Backed(f, s)' <=> Backed(f, s)
      BY <1>1 DEF Backed
    <2>6. Schedule!FieldsAreCurrent' /\ Schedule!OkIsComplete'
      BY <2>1, <2>3 DEF Schedule!FieldsAreCurrent, Schedule!OkIsComplete
    <2>7. (\A i \in DOMAIN run : Order[i] \notin edited => Backed(run[i], Order[i]))'
      BY <2>1, <2>2, <2>5
    <2>8. (\A s \in Schedule!Systems \ edited :
              Schedule!Configured(s) => s \in polled \/ \E i \in DOMAIN run : Order[i] = s)'
      BY <2>1, <2>2, <2>4
    <2>9. used' \in [Schedule!Systems -> {"own", "env", None}] /\ creds' = creds
      BY <1>1, <2>1
    <2> QED
      BY <2>1, <2>2, <2>6, <2>7, <2>8, <2>9 DEF RunInv
  <1> QED
    BY <1>2, <1>3

\* The owner's edits only ever take a system out of what the run answers for.
LEMMA EditKeepsRun ==
    ASSUME RunInv, NEW s \in Schedule!Systems, NEW fields \in Schedule!Fields \cup {None},
           creds' = [creds EXCEPT ![s] = fields], edited' = edited \cup {s},
           UNCHANGED <<run, status, polled, used>>
    PROVE  RunInv'
  <1>1. creds' \in [Schedule!Systems -> Schedule!Fields \cup {None}]
           /\ \A q \in Schedule!Systems \ edited' : q \in Schedule!Systems \ edited /\ creds'[q] = creds[q]
    BY DEF RunInv
  <1>2. \A q \in Schedule!Systems \ edited' :
           /\ Schedule!Configured(q)' <=> Schedule!Configured(q)
           /\ \A f : Backed(f, q)' <=> Backed(f, q)
    BY <1>1 DEF Schedule!Configured, Backed
  <1>3. \A i \in 1 .. Len(Order) : Order[i] \in Schedule!Systems
    BY DEF Schedule!Systems
  <1>4. Schedule!FieldsAreCurrent' /\ Schedule!OkIsComplete'
    BY <1>1, <1>2 DEF RunInv, Schedule!FieldsAreCurrent, Schedule!OkIsComplete
  <1>5. run # None =>
           /\ \A i \in DOMAIN run : Order[i] \notin edited' => Backed(run[i], Order[i])'
           /\ \A q \in Schedule!Systems \ edited' :
                Schedule!Configured(q)' => q \in polled \/ \E i \in DOMAIN run : Order[i] = q
    BY <1>1, <1>2, <1>3 DEF RunInv
  <1> QED
    BY <1>1, <1>4, <1>5 DEF RunInv, Backed

\* A pull moves a system from what is left to what was pulled, or leaves it in both.
LEMMA PullKeepsRun ==
    ASSUME RunInv, SourceAssumption, NEW i, Schedule!Due(i), Schedule!Pulled(i),
           Schedule!Done(i) \/ UNCHANGED run, UNCHANGED <<creds, status, edited>>
    PROVE  RunInv'
  <1>1. run # None /\ i \in DOMAIN run /\ i \in 1 .. Len(Order)
           /\ run \in Schedule!Connectors(DOMAIN run)
    BY DEF Schedule!Due, RunInv
  <1>2. Order[i] \in Schedule!Systems /\ run[i] \in {"own", "env"}
    BY <1>1 DEF Schedule!Systems, Schedule!Connectors
  <1>3. polled' = polled \cup {Order[i]} /\ used' = [used EXCEPT ![Order[i]] = run[i]]
    BY DEF Schedule!Pulled
  <1>4. /\ run' # None /\ DOMAIN run' \subseteq DOMAIN run /\ DOMAIN run \ {i} \subseteq DOMAIN run'
        /\ run' \in Schedule!Connectors(DOMAIN run') /\ \A j \in DOMAIN run' : run'[j] = run[j]
    <2>1. CASE Schedule!Done(i)
      <3>1. run' = [j \in DOMAIN run \ {i} |-> run[j]]
        BY <2>1 DEF Schedule!Done
      <3>2. run' \in Schedule!Connectors(DOMAIN run') /\ DOMAIN run' = DOMAIN run \ {i}
        BY <1>1, <3>1 DEF Schedule!Connectors
      <3>3. DOMAIN run' \in SUBSET (1 .. Len(Order))
        BY <3>2 DEF RunInv, Schedule!Due
      <3>4. run' # None
        BY <3>2, <3>3 DEF SourceAssumption, Schedule!ScheduleAssumption
      <3> QED
        BY <3>1, <3>2, <3>4
    <2>2. CASE UNCHANGED run
      BY <1>1, <2>2
    <2> QED
      BY <2>1, <2>2
  <1>5. used' \in [Schedule!Systems -> {"own", "env", None}]
    BY <1>2, <1>3 DEF RunInv
  <1>6. Schedule!FieldsAreCurrent'
    <2> SUFFICES ASSUME NEW s \in Schedule!Systems \ edited PROVE Backed(used'[s], s)
      BY DEF Schedule!FieldsAreCurrent, Backed
    <2>1. CASE s = Order[i]
      BY <1>1, <1>2, <1>3, <2>1 DEF RunInv
    <2>2. CASE s # Order[i]
      BY <1>2, <1>3, <2>2 DEF RunInv, Schedule!FieldsAreCurrent, Backed
    <2> QED
      BY <2>1, <2>2
  <1>7. Schedule!OkIsComplete'
    BY <1>4 DEF Schedule!OkIsComplete
  <1>8. \A s \in Schedule!Systems : Schedule!Configured(s)' <=> Schedule!Configured(s)
    BY DEF Schedule!Configured
  <1>9. (\A s \in Schedule!Systems \ edited :
            Schedule!Configured(s) => s \in polled \/ \E j \in DOMAIN run : Order[j] = s)'
    BY <1>1, <1>3, <1>4, <1>8 DEF RunInv
  <1>10. (\A j \in DOMAIN run : Order[j] \notin edited => Backed(run[j], Order[j]))'
    BY <1>1, <1>4 DEF RunInv, Backed
  <1>11. DOMAIN run' \subseteq 1 .. Len(Order)
    BY <1>1, <1>4 DEF RunInv
  <1> QED
    BY <1>4, <1>5, <1>6, <1>7, <1>9, <1>10, <1>11 DEF RunInv

\* A run ends well with nothing left, or not at all well.
LEMMA EndKeepsRun ==
    ASSUME RunInv, run # None, run' = None, UNCHANGED <<creds, polled, used, edited>>,
           status' = "crashed" \/ (status' = "ok" /\ DOMAIN run = {})
    PROVE  RunInv'
  BY DEF RunInv, Schedule!FieldsAreCurrent, Schedule!OkIsComplete, Schedule!Configured

\* A step that leaves credentials, run and status alone.
LEMMA OthersKeepRun ==
    ASSUME RunInv, UNCHANGED runVars
    PROVE  RunInv'
  BY DEF RunInv, runVars, Schedule!FieldsAreCurrent, Schedule!OkIsComplete, Schedule!Configured, Backed

\* The step of a schedule, as far as a run's fields and its outcome go.
LEMMA RunStep ==
    ASSUME RunInv, SourceAssumption, Schedule!Next
    PROVE  RunInv'
  <1> USE DEF Schedule!sourceVars, Schedule!pollVars, Schedule!hookVars, runVars
  <1>1. CASE \E r \in Rows : Schedule!Write(r)
    BY <1>1, OthersKeepRun DEF Schedule!Write
  <1>2. CASE Schedule!Tick
    BY <1>2, OthersKeepRun DEF Schedule!Tick
  <1>3. ASSUME NEW s \in Schedule!Systems, Schedule!Fail(s) \/ Schedule!Recover(s) PROVE RunInv'
    BY <1>3, OthersKeepRun DEF Schedule!Fail, Schedule!Recover
  <1>4. ASSUME NEW s \in Schedule!Systems, Schedule!delete_connector_credentials(s) PROVE RunInv'
    BY <1>4, EditKeepsRun DEF Schedule!delete_connector_credentials
  <1>5. ASSUME NEW s \in Schedule!Systems, NEW f \in Schedule!Fields,
               Schedule!upsert_connector_credentials(s, f)
        PROVE  RunInv'
    BY <1>5, EditKeepsRun DEF Schedule!upsert_connector_credentials
  <1>6. CASE \E e \in Endpoints : Schedule!receive_tenant_webhook(e)
    BY <1>6, OthersKeepRun DEF Schedule!receive_tenant_webhook
  <1>7. CASE \E e \in Endpoints, t \in Tenants :
                Schedule!provision_webhook_endpoint(e, t) \/ Schedule!revoke_webhook_endpoint(e, t)
    BY <1>7, OthersKeepRun DEF Schedule!provision_webhook_endpoint,
       Schedule!revoke_webhook_endpoint
  <1>8. CASE Schedule!StartRun
    BY <1>8, StartKeepsRun
  <1>9. CASE Schedule!EndRun
    BY <1>9, EndKeepsRun DEF Schedule!EndRun
  <1>10. ASSUME NEW i \in 1 .. Len(Order), Schedule!PullOdoo(i) PROVE RunInv'
    BY <1>10, PullKeepsRun DEF Schedule!PullOdoo
  <1>11. ASSUME NEW i \in 1 .. Len(Order), Schedule!PullOther(i) PROVE RunInv'
    BY <1>11, PullKeepsRun DEF Schedule!PullOther
  <1>12. ASSUME NEW i \in 1 .. Len(Order), Schedule!CrashRun(i) PROVE RunInv'
    BY <1>12, EndKeepsRun DEF Schedule!CrashRun, Schedule!Due
  <1> QED
    BY <1>1, <1>2, <1>3, <1>4, <1>5, <1>6, <1>7, <1>8, <1>9, <1>10, <1>11, <1>12
       DEF Schedule!Next, Schedule!Poll

\* An endpoint's tenant is set once, and only it revokes the endpoint.
LEMMA EndpointStep ==
    ASSUME EndpointInv, SourceAssumption, Schedule!Next
    PROVE  EndpointInv'
  <1> USE DEF Schedule!sourceVars, Schedule!pollVars, Schedule!hookVars
  <1>1. CASE UNCHANGED <<endpoint, accepted>>
    BY <1>1 DEF EndpointInv, Schedule!EndpointsKeepTheirTenant
  <1>2. ASSUME NEW e \in Endpoints, Schedule!receive_tenant_webhook(e) PROVE EndpointInv'
    BY <1>2 DEF Schedule!receive_tenant_webhook, EndpointInv, Schedule!EndpointsKeepTheirTenant
  <1>3. ASSUME NEW e \in Endpoints, NEW t \in Tenants, Schedule!provision_webhook_endpoint(e, t)
        PROVE  EndpointInv'
    <2> PICK row : row = [tenant |-> t, by |-> None]
      OBVIOUS
    <2>1. endpoint' = [endpoint EXCEPT ![e] = row] /\ endpoint[e] = None /\ UNCHANGED accepted
      BY <1>3 DEF Schedule!provision_webhook_endpoint
    <2>2. row \in Schedule!Endpoint /\ row.by = None
      BY DEF Schedule!Endpoint
    <2> QED
      BY <2>1, <2>2 DEF EndpointInv, Schedule!EndpointsKeepTheirTenant
  <1>4. ASSUME NEW e \in Endpoints, NEW t \in Tenants, Schedule!revoke_webhook_endpoint(e, t)
        PROVE  EndpointInv'
    <2> PICK row : row = [endpoint[e] EXCEPT !.by = t]
      OBVIOUS
    <2>1. endpoint' = [endpoint EXCEPT ![e] = row] /\ endpoint[e] # None /\ UNCHANGED accepted
             /\ endpoint[e].tenant = t /\ endpoint[e] \in Schedule!Endpoint
      BY <1>4 DEF Schedule!revoke_webhook_endpoint, EndpointInv
    <2>2. row \in Schedule!Endpoint /\ row.by = t /\ row.tenant = t /\ row # None
      BY <2>1 DEF Schedule!Endpoint, SourceAssumption, Schedule!ScheduleAssumption
    <2> QED
      BY <2>1, <2>2 DEF EndpointInv, Schedule!EndpointsKeepTheirTenant
  <1>5. CASE \E r \in Rows : Schedule!Write(r)
    BY <1>1, <1>5 DEF Schedule!Write
  <1>6. CASE Schedule!Tick
    BY <1>1, <1>6 DEF Schedule!Tick
  <1>7. CASE \E s \in Schedule!Systems : Schedule!Fail(s) \/ Schedule!Recover(s)
                                          \/ Schedule!delete_connector_credentials(s)
    BY <1>1, <1>7 DEF Schedule!Fail, Schedule!Recover, Schedule!delete_connector_credentials
  <1>8. CASE \E s \in Schedule!Systems, f \in Schedule!Fields :
                Schedule!upsert_connector_credentials(s, f)
    BY <1>1, <1>8 DEF Schedule!upsert_connector_credentials
  <1>9. CASE Schedule!Poll
    BY <1>1, <1>9 DEF Schedule!Poll, Schedule!StartRun, Schedule!EndRun, Schedule!PullOdoo,
       Schedule!PullOther, Schedule!CrashRun
  <1> QED
    BY <1>2, <1>3, <1>4, <1>5, <1>6, <1>7, <1>8, <1>9 DEF Schedule!Next

\* The inductive invariant of the schedule.
ScheduleInv == WatermarkInv /\ RunInv /\ EndpointInv

\* The watermark, the run in progress and the webhook endpoints stay sound in every state of
\* the schedule (connector_poll_service.py, webhook_endpoints.py).
THEOREM ScheduleInvariance ==
    ASSUME SourceAssumption PROVE Schedule!Spec => []ScheduleInv
  <1>1. Schedule!Init => ScheduleInv
    <2> SUFFICES ASSUME Schedule!Init PROVE ScheduleInv
      OBVIOUS
    <2>1. None \notin {"own", "env"}
      BY DEF SourceAssumption, Schedule!ScheduleAssumption
    <2>2. WatermarkInv
      BY DEF Schedule!Init, WatermarkInv, Schedule!OnlyTiesAreSkipped
    <2>3. RunInv
      BY <2>1 DEF Schedule!Init, RunInv, Schedule!FieldsAreCurrent, Schedule!OkIsComplete
    <2>4. EndpointInv
      BY DEF Schedule!Init, EndpointInv, Schedule!EndpointsKeepTheirTenant
    <2> QED
      BY <2>2, <2>3, <2>4 DEF ScheduleInv
  <1>2. ScheduleInv /\ [Schedule!Next]_(Schedule!vars) => ScheduleInv'
    <2>1. ScheduleInv /\ Schedule!Next => ScheduleInv'
      BY WatermarkStep, RunStep, EndpointStep DEF ScheduleInv
    <2>2. ScheduleInv /\ UNCHANGED Schedule!vars => ScheduleInv'
      <3> SUFFICES ASSUME ScheduleInv, UNCHANGED Schedule!vars PROVE ScheduleInv'
        OBVIOUS
      <3>1. WatermarkInv' /\ RunInv'
        BY OthersKeepWatermark, OthersKeepRun DEF ScheduleInv, Schedule!vars, watermarkVars, runVars
      <3>2. EndpointInv'
        BY DEF ScheduleInv, Schedule!vars, EndpointInv, Schedule!EndpointsKeepTheirTenant
      <3> QED
        BY <3>1, <3>2 DEF ScheduleInv
    <2> QED
      BY <2>1, <2>2
  <1> QED
    BY <1>1, <1>2, PTL DEF Schedule!Spec

\* Whatever the owner edits while a run is on its way and whichever sources fail: the
\* watermark skips nothing but ties at a page's end, a pull uses the fields its tenant has
\* stored, a run reported good was complete, and an endpoint stays its tenant's.
THEOREM PollsStayCurrent ==
    ASSUME SourceAssumption PROVE Schedule!Spec => []PollsAreCurrent
  <1>1. ScheduleInv => PollsAreCurrent
    BY DEF ScheduleInv, WatermarkInv, RunInv, EndpointInv, PollsAreCurrent, Schedule!PollsAreCurrent
  <1> QED
    BY <1>1, ScheduleInvariance, PTL

-----------------------------------------------------------------------------
(* The cold-chain drill (ColdChainFeed). *)

Readings == [minute : Nat, temp : Int]
Messages == [kind : {"fridge", "cold_chain"}, asset : Drill!Names,
             of : Drill!Alerts \cup {"unsafe", "at_risk", "safe"}, predicted : BOOLEAN, epoch : Nat]

\* What is said of the buffer, said of any sequence of messages.
AlertAt(s, a, i) == s[i].kind = "cold_chain" /\ s[i].asset = a
NewestAt(s, a, i) == AlertAt(s, a, i) /\ \A j \in i + 1 .. Len(s) : ~AlertAt(s, a, j)
Changing(s, a) ==
    \A i, j \in DOMAIN s :
        i < j /\ AlertAt(s, a, i) /\ AlertAt(s, a, j) /\ (\A k \in i + 1 .. j - 1 : ~AlertAt(s, a, k))
          => s[i].of # s[j].of \/ s[i].epoch # s[j].epoch
Shown(s, a, alert) == \E i \in DOMAIN s : NewestAt(s, a, i) /\ s[i].of = alert

\* The newest alert of an asset is the one in force, or is from before it was last normal.
Follows(s, a, alert, count) ==
    \A i \in DOMAIN s : NewestAt(s, a, i) =>
        /\ s[i].epoch <= count
        /\ alert # None => s[i].of = alert
        /\ alert = None => s[i].epoch < count

\* No tile is safe against its forecast.
SafeIsSafe(s) == \A i \in 1 .. Len(s) : s[i].kind = "fridge" /\ s[i].of = "safe" => ~s[i].predicted

FeedTypes ==
    /\ minute \in Nat /\ at \in 1 .. Drill!Last_at
    /\ power \in {"mains", "outage"} /\ generator \in {"off", "failed", "starting", "running"}
    /\ temps \in [Drill!Names -> Int] /\ window \in [Drill!Names -> Seq(Readings)]
    /\ last_alert \in [Drill!Names -> Drill!Alerts \cup {None}]
    /\ calm \in [Drill!Names -> Nat]
    /\ events \in Seq(Messages) /\ Len(events) <= MAX_EVENTS

\* A window ends in this minute only once this minute's mains and generator are read.
Fresh(a) ==
    window[a] # <<>> =>
        /\ window[a][Len(window[a])].minute <= minute
        /\ at <= 2 => window[a][Len(window[a])].minute < minute

\* An asset read since the site went dark is under a critical alert.
Announced(a) ==
    Drill!Uncarried /\ window[a] # <<>> /\ window[a][Len(window[a])].minute = minute /\ at > 2 =>
        last_alert[a] = Drill!Result("generator_failed", Drill!CRITICAL)

\* The buffer, with respect to one asset.
Buffered(s, a) ==
    /\ Changing(s, a) /\ Follows(s, a, last_alert[a], calm[a])
    /\ last_alert[a] # None => Len(s) = MAX_EVENTS \/ Shown(s, a, last_alert[a])

FeedInv ==
    /\ FeedTypes
    /\ \A a \in Drill!Names : Fresh(a) /\ Announced(a) /\ Buffered(events, a)
    /\ SafeIsSafe(events)

\* The severities, as numbers.
LEMMA Severities == Drill!INFO = 0 /\ Drill!WARNING = 1 /\ Drill!CRITICAL = 2
  BY DEF Drill!INFO, Drill!WARNING, Drill!CRITICAL

\* A diagnosis is one of the alerts; without power and a generator it is the failure.
LEMMA Diagnosis ==
    ASSUME NEW p, NEW g, NEW rising, NEW watts
    PROVE  /\ Drill!diagnose(p, g, rising, watts) \in Drill!Alerts
           /\ p = "outage" /\ g \in {"failed", "off", "starting"} =>
                Drill!diagnose(p, g, rising, watts) = Drill!Result("generator_failed", Drill!CRITICAL)
  <1>1. \A d \in {"generator_failed", "compressor_failure", "unit_not_cooling", "warming",
                  "on_generator", "normal"}, n \in {0, 1, 2} : Drill!Result(d, n) \in Drill!Alerts
    BY Severities DEF Drill!Result, Drill!Alerts
  <1> QED
    BY <1>1, Severities DEF Drill!diagnose

\* A trend that rises is never called normal, and no outage without a generator is less
\* than critical.
LEMMA RisingIsSaid ==
    \A p \in {"mains", "outage"}, g \in {"off", "starting", "running", "failed", "low_fuel",
                                         "tripped"}, watts \in {0, 180} :
        /\ Drill!diagnose(p, g, TRUE, watts).severity >= Drill!WARNING
        /\ Drill!diagnose(p, g, TRUE, watts).diagnosis \notin {"normal", "on_generator"}
        /\ p = "outage" /\ g \notin {"running", "low_fuel"} =>
                Drill!diagnose(p, g, TRUE, watts).severity = Drill!CRITICAL
  <1> DEFINE Failure == Drill!Result("generator_failed", Drill!CRITICAL)
             Others == {Drill!Result("compressor_failure", Drill!CRITICAL),
                        Drill!Result("unit_not_cooling", Drill!WARNING),
                        Drill!Result("warming", Drill!WARNING)}
  <1>1. /\ Failure.severity >= Drill!WARNING /\ Failure.diagnosis \notin {"normal", "on_generator"}
        /\ Failure.severity = Drill!CRITICAL
    BY Severities DEF Drill!Result
  <1>2. \A d \in Others : /\ d.severity >= Drill!WARNING
                          /\ d.diagnosis \notin {"normal", "on_generator"}
    BY Severities DEF Drill!Result
  <1> SUFFICES ASSUME NEW p \in {"mains", "outage"},
                      NEW g \in {"off", "starting", "running", "failed", "low_fuel", "tripped"},
                      NEW watts \in {0, 180}
               PROVE  /\ Drill!diagnose(p, g, TRUE, watts).severity >= Drill!WARNING
                      /\ Drill!diagnose(p, g, TRUE, watts).diagnosis \notin {"normal", "on_generator"}
                      /\ p = "outage" /\ g \notin {"running", "low_fuel"} =>
                           Drill!diagnose(p, g, TRUE, watts).severity = Drill!CRITICAL
    BY Zenon
  <1>3. CASE p = "outage" /\ g \in {"failed", "off", "tripped", "starting"}
    <2>1. Drill!diagnose(p, g, TRUE, watts) = Failure
      BY <1>3 DEF Drill!diagnose
    <2> HIDE DEF Failure
    <2> QED
      BY <1>1, <2>1, Zenon
  <1>4. CASE ~ (p = "outage" /\ g \in {"failed", "off", "tripped", "starting"})
    <2>1. Drill!diagnose(p, g, TRUE, watts) \in Others
      BY <1>4 DEF Drill!diagnose
    <2>2. p = "outage" => g \in {"running", "low_fuel"}
      BY <1>4
    <2> HIDE DEF Others
    <2> QED
      BY <1>2, <2>1, <2>2, Zenon
  <1> QED
    BY <1>3, <1>4

-----------------------------------------------------------------------------
(* Sequences of messages. *)

\* A message that is no alert of the asset changes nothing for it.
LEMMA OtherMessage ==
    ASSUME NEW s \in Seq(Messages), NEW m \in Messages, NEW a, NEW alert, NEW count,
           ~ (m.kind = "cold_chain" /\ m.asset = a)
    PROVE  LET t == Append(s, m) IN
           /\ Changing(s, a) => Changing(t, a)
           /\ Follows(s, a, alert, count) => Follows(t, a, alert, count)
           /\ Shown(s, a, alert) => Shown(t, a, alert)
  <1> PICK n : n = Len(s)
    OBVIOUS
  <1> PICK t : t = Append(s, m)
    OBVIOUS
  <1>1. n \in Nat /\ DOMAIN s = 1 .. n /\ DOMAIN t = 1 .. n + 1 /\ Len(t) = n + 1 /\ t[n + 1] = m
           /\ \A i \in 1 .. n : t[i] = s[i]
    OBVIOUS
  <1>2. ~ AlertAt(t, a, n + 1) /\ \A i \in 1 .. n : AlertAt(t, a, i) <=> AlertAt(s, a, i)
    BY <1>1 DEF AlertAt
  <1>3. \A i \in 1 .. n : NewestAt(t, a, i) <=> NewestAt(s, a, i)
    BY <1>1, <1>2 DEF NewestAt
  <1>4. ~ NewestAt(t, a, n + 1)
    BY <1>2 DEF NewestAt
  <1>5. Changing(s, a) => Changing(t, a)
    BY <1>1, <1>2 DEF Changing
  <1>6. Follows(s, a, alert, count) => Follows(t, a, alert, count)
    BY <1>1, <1>3, <1>4 DEF Follows
  <1>7. Shown(s, a, alert) => Shown(t, a, alert)
    BY <1>1, <1>3 DEF Shown
  <1> QED
    BY <1>5, <1>6, <1>7

\* An alert that differs from the one in force is a change, and is in force.
LEMMA NewAlert ==
    ASSUME NEW s \in Seq(Messages), NEW m \in Messages, NEW a, NEW old, NEW count \in Nat,
           m.kind = "cold_chain", m.asset = a, m.epoch = count, m.of # old, m.of # None,
           Changing(s, a), Follows(s, a, old, count)
    PROVE  LET t == Append(s, m) IN
           Changing(t, a) /\ Follows(t, a, m.of, count) /\ Shown(t, a, m.of)
  <1> PICK n : n = Len(s)
    OBVIOUS
  <1> PICK t : t = Append(s, m)
    OBVIOUS
  <1>1. n \in Nat /\ DOMAIN s = 1 .. n /\ DOMAIN t = 1 .. n + 1 /\ Len(t) = n + 1 /\ t[n + 1] = m
           /\ \A i \in 1 .. n : t[i] = s[i]
    OBVIOUS
  <1>2. AlertAt(t, a, n + 1) /\ \A i \in 1 .. n : AlertAt(t, a, i) <=> AlertAt(s, a, i)
    BY <1>1 DEF AlertAt
  <1>3. \A i \in 1 .. n : ~ NewestAt(t, a, i)
    BY <1>1, <1>2 DEF NewestAt
  <1>4. NewestAt(t, a, n + 1)
    BY <1>1, <1>2 DEF NewestAt
  <1>5. ASSUME NEW i \in 1 .. n + 1, NEW j \in 1 .. n + 1, i < j,
               AlertAt(t, a, i), AlertAt(t, a, j), \A k \in i + 1 .. j - 1 : ~ AlertAt(t, a, k)
        PROVE  t[i].of # t[j].of \/ t[i].epoch # t[j].epoch
    <2>1. CASE j \in 1 .. n
      <3>1. i \in 1 .. n /\ AlertAt(s, a, i) /\ AlertAt(s, a, j)
               /\ \A k \in i + 1 .. j - 1 : ~ AlertAt(s, a, k)
        BY <1>1, <1>2, <1>5, <2>1
      <3> QED
        BY <1>1, <1>5, <2>1, <3>1 DEF Changing
    <2>2. CASE j = n + 1
      <3>1. i \in 1 .. n /\ NewestAt(s, a, i)
        BY <1>1, <1>2, <1>5, <2>2 DEF NewestAt
      <3>2. s[i].epoch <= count /\ (old # None => s[i].of = old) /\ (old = None => s[i].epoch < count)
        BY <1>1, <3>1 DEF Follows
      <3>4. s[i] \in Messages
        BY <1>1, <3>1
      <3>3. s[i].epoch \in Nat /\ t[i] = s[i] /\ t[j] = m
        BY <1>1, <2>2, <3>1, <3>4 DEF Messages
      <3> QED
        BY <3>2, <3>3
    <2> QED
      BY <1>1, <2>1, <2>2
  <1>6. Changing(t, a)
    <2>1. DOMAIN t = 1 .. n + 1
      BY <1>1
    <2> QED
      BY ONLY <1>5, <2>1 DEF Changing
  <1>7. Follows(t, a, m.of, count)
    BY <1>1, <1>3 DEF Follows
  <1>8. Shown(t, a, m.of)
    BY <1>1, <1>4 DEF Shown
  <1> QED
    BY <1>6, <1>7, <1>8

\* The messages of s but the first o, which are all of them or n.
IsSuffix(k, s, n, o) ==
    /\ k \in Seq(Messages) /\ Len(k) + o = Len(s) /\ Len(k) <= n
    /\ \A i \in 1 .. Len(k) : k[i] = s[i + o]
    /\ o = 0 \/ Len(k) = n
    /\ Len(s) >= n => Len(k) = n

\* The buffer keeps the last messages: all of them, or as many as it holds.
LEMMA KeptIsSuffix ==
    ASSUME NEW s \in Seq(Messages), NEW n \in Nat \ {0}
    PROVE  \E o \in Nat : IsSuffix(Drill!Keep(s, n), s, n, o)
  <1> PICK k : k = Drill!Keep(s, n)
    OBVIOUS
  <1>1. CASE Len(s) > n
    <2> PICK o : o = Len(s) - n
      OBVIOUS
    <2>1. o \in Nat /\ k = SubSeq(s, o + 1, Len(s))
      BY <1>1 DEF Drill!Keep
    <2>2. k \in Seq(Messages) /\ Len(k) = n /\ \A i \in 1 .. n : k[i] = s[i + o]
      BY <1>1, <2>1
    <2>3. IsSuffix(k, s, n, o)
      BY <1>1, <2>1, <2>2 DEF IsSuffix
    <2> QED
      BY <2>1, <2>3
  <1>2. CASE ~ Len(s) > n
    <2>1. k = s
      BY <1>2 DEF Drill!Keep
    <2>2. IsSuffix(k, s, n, 0)
      BY <1>2, <2>1 DEF IsSuffix
    <2> QED
      BY <2>2
  <1> QED
    BY <1>1, <1>2

\* A window that is not empty keeps its last reading.
LEMMA KeptEnds ==
    ASSUME NEW t \in Seq(Readings), NEW n \in Nat \ {0}, Len(t) \in Nat \ {0}
    PROVE  LET w == Drill!Keep(t, n) IN w \in Seq(Readings) /\ w # <<>> /\ w[Len(w)] = t[Len(t)]
  <1> PICK w : w = Drill!Keep(t, n)
    OBVIOUS
  <1>1. CASE Len(t) > n
    <2> PICK o : o = Len(t) - n
      OBVIOUS
    <2>1. o \in Nat /\ w = SubSeq(t, o + 1, Len(t))
      BY <1>1 DEF Drill!Keep
    <2>2. w \in Seq(Readings) /\ Len(w) = n /\ \A i \in 1 .. n : w[i] = t[i + o]
      BY <1>1, <2>1
    <2>3. n + o = Len(t) /\ n \in 1 .. n
      BY <2>1
    <2>4. w[n] = t[n + o]
      BY <2>2, <2>3
    <2> QED
      BY <2>2, <2>3, <2>4
  <1>2. CASE ~ Len(t) > n
    BY <1>2 DEF Drill!Keep
  <1> QED
    BY <1>1, <1>2

\* What holds of a sequence holds of its last messages; an alert that is shown stays shown
\* unless messages were pushed out.
LEMMA SuffixKeeps ==
    ASSUME NEW s \in Seq(Messages), NEW k \in Seq(Messages), NEW o \in Nat,
           Len(k) + o = Len(s), \A i \in 1 .. Len(k) : k[i] = s[i + o], NEW a, NEW alert, NEW count
    PROVE  /\ Changing(s, a) => Changing(k, a)
           /\ Follows(s, a, alert, count) => Follows(k, a, alert, count)
           /\ o = 0 /\ Shown(s, a, alert) => Shown(k, a, alert)
           /\ SafeIsSafe(s) => SafeIsSafe(k)
  <1> PICK n : n = Len(k)
    OBVIOUS
  <1>1. n \in Nat /\ DOMAIN k = 1 .. n /\ DOMAIN s = 1 .. n + o /\ Len(s) = n + o
           /\ \A i \in 1 .. n : i + o \in 1 .. n + o /\ k[i] = s[i + o]
    OBVIOUS
  <1>2. \A i \in 1 .. n : AlertAt(k, a, i) <=> AlertAt(s, a, i + o)
    BY <1>1 DEF AlertAt
  <1>3. \A i \in 1 .. n : NewestAt(k, a, i) => NewestAt(s, a, i + o)
    <2> SUFFICES ASSUME NEW i \in 1 .. n, NewestAt(k, a, i), NEW j \in i + o + 1 .. n + o
                 PROVE  ~ AlertAt(s, a, j)
      BY <1>1, <1>2 DEF NewestAt
    <2>1. j - o \in i + 1 .. n /\ j - o \in 1 .. n /\ (j - o) + o = j
      BY <1>1
    <2> QED
      BY <1>1, <1>2, <2>1 DEF NewestAt
  <1>4. Changing(s, a) => Changing(k, a)
    <2> SUFFICES ASSUME Changing(s, a), NEW i \in 1 .. n, NEW j \in 1 .. n, i < j,
                        AlertAt(k, a, i), AlertAt(k, a, j),
                        \A l \in i + 1 .. j - 1 : ~ AlertAt(k, a, l)
                 PROVE  k[i].of # k[j].of \/ k[i].epoch # k[j].epoch
      BY <1>1 DEF Changing
    <2> PICK x : x = i + o
      OBVIOUS
    <2> PICK y : y = j + o
      OBVIOUS
    <2>1. ASSUME NEW l \in x + 1 .. y - 1 PROVE ~ AlertAt(s, a, l)
      <3>1. l - o \in i + 1 .. j - 1 /\ l - o \in 1 .. n /\ (l - o) + o = l
        BY <1>1
      <3> QED
        BY <1>2, <3>1
    <2>2. x \in DOMAIN s /\ y \in DOMAIN s /\ x < y /\ AlertAt(s, a, x) /\ AlertAt(s, a, y)
      BY <1>1, <1>2
    <2>3. s[x].of # s[y].of \/ s[x].epoch # s[y].epoch
      BY <2>1, <2>2 DEF Changing
    <2> QED
      BY <1>1, <2>3
  <1>5. Follows(s, a, alert, count) => Follows(k, a, alert, count)
    BY <1>1, <1>3 DEF Follows
  <1>6. o = 0 /\ Shown(s, a, alert) => Shown(k, a, alert)
    <2> SUFFICES ASSUME o = 0, Shown(s, a, alert) PROVE Shown(k, a, alert)
      OBVIOUS
    <2>1. n + o = n /\ \A i \in 1 .. n : i + o = i
      BY <1>1
    <2>2. \A i \in 1 .. n : k[i] = s[i]
      BY <1>1, <2>1
    <2>3. Len(k) = Len(s) /\ DOMAIN k = DOMAIN s
      BY <1>1, <2>1
    <2>4. \A i \in 1 .. n : NewestAt(s, a, i) => NewestAt(k, a, i)
      BY <1>1, <2>2, <2>3 DEF NewestAt, AlertAt
    <2> QED
      BY <1>1, <2>2, <2>3, <2>4 DEF Shown
  <1>7. SafeIsSafe(s) => SafeIsSafe(k)
    BY <1>1 DEF SafeIsSafe
  <1> QED
    BY <1>4, <1>5, <1>6, <1>7

\* What is true of the messages so far is true of the buffer that keeps the last of them.
LEMMA PublishKeeps ==
    ASSUME SourceAssumption, NEW s \in Seq(Messages), NEW k, k = Drill!Keep(s, MAX_EVENTS)
    PROVE  /\ k \in Seq(Messages) /\ Len(k) <= MAX_EVENTS
           /\ SafeIsSafe(s) => SafeIsSafe(k)
           /\ \A a, alert, count :
                /\ Changing(s, a) => Changing(k, a)
                /\ Follows(s, a, alert, count) => Follows(k, a, alert, count)
                /\ Len(s) >= MAX_EVENTS \/ Shown(s, a, alert) =>
                     Len(k) = MAX_EVENTS \/ Shown(k, a, alert)
  <1>1. MAX_EVENTS \in Nat \ {0}
    BY DEF SourceAssumption, Drill!FeedAssumption
  <1>2. PICK o \in Nat : IsSuffix(k, s, MAX_EVENTS, o)
    BY <1>1, KeptIsSuffix
  <1>3. k \in Seq(Messages) /\ Len(k) + o = Len(s) /\ Len(k) <= MAX_EVENTS
           /\ \A i \in 1 .. Len(k) : k[i] = s[i + o]
    BY <1>2 DEF IsSuffix
  <1>4. (o = 0 \/ Len(k) = MAX_EVENTS) /\ (Len(s) >= MAX_EVENTS => Len(k) = MAX_EVENTS)
    BY <1>2 DEF IsSuffix
  <1>5. ASSUME NEW a, NEW alert, NEW count
        PROVE  /\ Changing(s, a) => Changing(k, a)
               /\ Follows(s, a, alert, count) => Follows(k, a, alert, count)
               /\ o = 0 /\ Shown(s, a, alert) => Shown(k, a, alert)
               /\ SafeIsSafe(s) => SafeIsSafe(k)
    BY <1>3, SuffixKeeps
  <1> QED
    BY <1>3, <1>4, <1>5

\* A reading other than a temperature says nothing about the assets.
LEMMA QuietReading ==
    ASSUME SourceAssumption, FeedInv, UNCHANGED <<temps, window, last_alert, events, calm>>,
           power' \in {"mains", "outage"}, generator' \in {"off", "failed", "starting", "running"},
           at > 2 => UNCHANGED <<power, generator>>,
           at' = IF at = Drill!Last_at THEN 1 ELSE at + 1,
           minute' = IF at = Drill!Last_at THEN minute + 1 ELSE minute
    PROVE  FeedInv'
  <1>1. minute \in Nat /\ at \in 1 .. Drill!Last_at /\ Drill!Last_at \in Nat /\ Drill!Last_at >= 2
    BY DEF FeedInv, FeedTypes, Drill!Last_at, SourceAssumption, Drill!FeedAssumption
  <1>2. minute' \in Nat /\ at' \in 1 .. Drill!Last_at /\ Drill!Last_at' = Drill!Last_at
    BY <1>1 DEF Drill!Last_at
  <1>3. FeedTypes'
    BY <1>2 DEF FeedInv, FeedTypes
  <1>4. ASSUME NEW a \in Drill!Names PROVE Fresh(a)' /\ Announced(a)' /\ Buffered(events, a)'
    <2>1. Fresh(a) /\ Announced(a) /\ Buffered(events, a) /\ window[a] \in Seq(Readings)
      BY DEF FeedInv, FeedTypes
    <2>2. Buffered(events, a)'
      BY <2>1 DEF Buffered
    <2>3. CASE window[a] = <<>>
      BY <2>2, <2>3 DEF Fresh, Announced
    <2>4. CASE window[a] # <<>>
      <3> PICK m : m = window[a][Len(window[a])].minute
        OBVIOUS
      <3> PICK v \in Seq(Readings) : v = window[a]
        BY <2>1
      <3>0. v[Len(v)] \in Readings /\ v[Len(v)].minute = m
        BY <2>4
      <3>1. m \in Nat
        BY <3>0 DEF Readings
      <3>2. m <= minute /\ (at <= 2 => m < minute)
        BY <2>1, <2>4 DEF Fresh
      <3>3. m <= minute' /\ (at' <= 2 => m < minute')
        BY <1>1, <3>1, <3>2
      <3>4. Fresh(a)'
        BY <3>3 DEF Fresh
      <3>5. CASE at > 2
        BY <1>1, <2>1, <2>2, <2>4, <3>4, <3>5 DEF Announced, Drill!Uncarried
      <3>6. CASE ~ at > 2
        <4>1. m # minute' \/ ~ at' > 2
          BY <1>1, <3>1, <3>2, <3>6
        <4> QED
          BY <2>2, <3>4, <4>1 DEF Announced
      <3> QED
        BY <1>1, <3>5, <3>6
    <2> QED
      BY <2>3, <2>4
  <1> QED
    BY <1>3, <1>4 DEF FeedInv, SafeIsSafe

\* The mains and the generator, as the drill has them.
LEMMA PowerReading ==
    ASSUME SourceAssumption, FeedInv, Drill!Replay,
           Drill!ReadPower \/ Drill!ReadGenerator \/ Drill!ReadEnergy
    PROVE  FeedInv'
  <1>1. at' = (IF at = Drill!Last_at THEN 1 ELSE at + 1)
           /\ minute' = (IF at = Drill!Last_at THEN minute + 1 ELSE minute)
    BY DEF Drill!Replay
  <1>2. UNCHANGED <<temps, window, last_alert, events, calm>>
    BY DEF Drill!ReadPower, Drill!ReadGenerator, Drill!ReadEnergy
  <1>3. power \in {"mains", "outage"} /\ generator \in {"off", "failed", "starting", "running"}
           /\ at \in Nat
    BY DEF FeedInv, FeedTypes, Drill!Last_at, SourceAssumption, Drill!FeedAssumption
  <1>4. power' \in {"mains", "outage"} /\ (at > 2 => UNCHANGED power)
    BY <1>3 DEF Drill!ReadPower, Drill!ReadGenerator, Drill!ReadEnergy
  <1>5. generator' \in {"off", "failed", "starting", "running"} /\ (at > 2 => UNCHANGED generator)
    BY <1>3 DEF Drill!ReadPower, Drill!ReadGenerator, Drill!ReadEnergy, Drill!Generator
  <1> QED
    BY <1>1, <1>2, <1>4, <1>5, QuietReading

\* A temperature: the messages it leads to, and the alert that is then in force.
LEMMA TemperatureReading ==
    ASSUME SourceAssumption, FeedInv, Drill!Replay, Drill!ReadTemperature
    PROVE  FeedInv'
  <1> PICK a : a = Drill!AssetAt
    OBVIOUS
  <1> PICK temp : temp = Drill!Towards(temps[a])
    OBVIOUS
  <1> PICK reading : reading = [minute |-> minute, temp |-> temp]
    OBVIOUS
  <1> PICK w : w = Drill!Keep(Append(window[a], reading), TREND_LEN)
    OBVIOUS
  <1> PICK d : d = Drill!diagnose(power, generator, Drill!Rising(w), energy[a])
    OBVIOUS
  <1> PICK tile : tile = Drill!Tile(a, temp, w)
    OBVIOUS
  <1> PICK alert : alert = Drill!Alert(a, d)
    OBVIOUS
  <1> PICK news \in BOOLEAN : news = (d.severity >= Drill!WARNING /\ last_alert[a] # d)
    OBVIOUS
  <1> PICK s : s = IF news THEN Append(Append(events, tile), alert) ELSE Append(events, tile)
    OBVIOUS
  <1>1. minute \in Nat /\ at \in 1 .. Drill!Last_at /\ Drill!Last_at = 2 + 2 * Len(Assets)
           /\ Len(Assets) \in Nat /\ at > 2 /\ at % 2 = 1
    BY DEF FeedInv, FeedTypes, Drill!Last_at, SourceAssumption, Drill!FeedAssumption,
       Drill!ReadTemperature
  <1>2. a \in Drill!Names
    <2>1. (at - 1) \div 2 \in 1 .. Len(Assets) /\ Assets \in Seq(Drill!Names)
      BY <1>1 DEF SourceAssumption, Drill!FeedAssumption
    <2> QED
      BY <2>1 DEF Drill!AssetAt
  <1>3. /\ power \in {"mains", "outage"} /\ generator \in {"off", "failed", "starting", "running"}
        /\ temps \in [Drill!Names -> Int] /\ window \in [Drill!Names -> Seq(Readings)]
        /\ last_alert \in [Drill!Names -> Drill!Alerts \cup {None}]
        /\ calm \in [Drill!Names -> Nat]
        /\ events \in Seq(Messages) /\ Len(events) <= MAX_EVENTS
    BY DEF FeedInv, FeedTypes
  <1>4. /\ temps' = [temps EXCEPT ![a] = temp] /\ window' = [window EXCEPT ![a] = w]
        /\ Drill!AlertState(a, d) /\ UNCHANGED <<power, generator, energy>>
    BY DEF Drill!ReadTemperature
  <1>5. at' = (IF at = Drill!Last_at THEN 1 ELSE at + 1)
           /\ minute' = (IF at = Drill!Last_at THEN minute + 1 ELSE minute)
    BY DEF Drill!Replay
  <1>6. temp \in Int /\ reading \in Readings /\ reading.minute = minute
    BY <1>1, <1>2, <1>3 DEF Drill!Towards, Readings
  <1>7. w \in Seq(Readings) /\ w # <<>> /\ w[Len(w)] = reading
    <2> PICK t : t = Append(window[a], reading)
      OBVIOUS
    <2>1. t \in Seq(Readings) /\ Len(t) \in Nat \ {0} /\ t[Len(t)] = reading
      BY <1>2, <1>3, <1>6
    <2>2. TREND_LEN \in Nat \ {0}
      BY DEF SourceAssumption, Drill!FeedAssumption
    <2> QED
      BY <2>1, <2>2, KeptEnds
  <1>8. d \in Drill!Alerts /\ d # None /\ d.severity \in {0, 1, 2}
    BY Diagnosis, Severities DEF Drill!Alerts, SourceAssumption, Drill!FeedAssumption
  <1>9. last_alert' = [last_alert EXCEPT ![a] = IF d.severity >= 1 THEN d ELSE None]
           /\ calm' = [calm EXCEPT ![a] = IF d.severity = 0 /\ last_alert[a] # None
                                          THEN calm[a] + 1 ELSE calm[a]]
    BY <1>4, Severities DEF Drill!AlertState
  <1>10. tile \in Messages /\ tile.kind = "fridge" /\ (tile.of = "safe" => ~ tile.predicted)
    <2>1. Drill!predict_time_to_unsafe(w) \in BOOLEAN
      BY DEF Drill!predict_time_to_unsafe
    <2>2. Drill!Status(temp, Drill!predict_time_to_unsafe(w)) \in {"unsafe", "at_risk", "safe"}
             /\ (Drill!Status(temp, Drill!predict_time_to_unsafe(w)) = "safe" =>
                   ~ Drill!predict_time_to_unsafe(w))
      BY DEF Drill!Status
    <2> QED
      BY <1>2, <1>3, <2>1, <2>2 DEF Drill!Tile, Messages
  <1>11. alert \in Messages /\ alert.kind = "cold_chain" /\ alert.asset = a /\ alert.of = d
            /\ alert.epoch = calm[a]
    BY <1>2, <1>3, <1>8 DEF Drill!Alert, Messages
  <1>12. s \in Seq(Messages) /\ Len(s) >= Len(events)
    BY <1>3, <1>10, <1>11
  <1>13. events' = Drill!Keep(s, MAX_EVENTS)
    <2> PICK more : more = IF news THEN <<tile, alert>> ELSE <<tile>>
      OBVIOUS
    <2>1. events' = Drill!Keep(events \o more, MAX_EVENTS)
      BY DEF Drill!ReadTemperature, Drill!publish
    <2>2. CASE news
      <3>1. more = <<tile, alert>>
        BY <2>2
      <3>2. events \o <<tile, alert>> = Append(Append(events, tile), alert)
        BY <1>3, <1>10, <1>11
      <3> QED
        BY <2>1, <2>2, <3>1, <3>2
    <2>3. CASE ~ news
      <3>1. more = <<tile>>
        BY <2>3
      <3>2. events \o <<tile>> = Append(events, tile)
        BY <1>3, <1>10
      <3> QED
        BY <2>1, <2>3, <3>1, <3>2
    <2> QED
      BY <2>2, <2>3
  <1>14. SafeIsSafe(s)
    <2>1. SafeIsSafe(events)
      BY DEF FeedInv
    <2>2. SafeIsSafe(Append(events, tile))
      BY <1>3, <1>10, <2>1 DEF SafeIsSafe
    <2>3. Append(events, tile) \in Seq(Messages)
      BY <1>3, <1>10
    <2>4. SafeIsSafe(Append(Append(events, tile), alert))
      BY <1>11, <2>2, <2>3 DEF SafeIsSafe
    <2> QED
      BY <2>2, <2>4
  \* The messages so far, with the alerts in force after this reading.
  <1>15. ASSUME NEW b \in Drill!Names
         PROVE  /\ Changing(s, b) /\ Follows(s, b, last_alert'[b], calm'[b])
                /\ last_alert'[b] # None => Len(s) >= MAX_EVENTS \/ Shown(s, b, last_alert'[b])
    <2> PICK t : t = Append(events, tile)
      OBVIOUS
    <2>1. Changing(events, b) /\ Follows(events, b, last_alert[b], calm[b])
             /\ (last_alert[b] # None => Len(events) = MAX_EVENTS \/ Shown(events, b, last_alert[b]))
      BY DEF FeedInv, Buffered
    <2>2. t \in Seq(Messages) /\ Len(t) >= Len(events) /\ Len(s) >= Len(t)
      BY <1>3, <1>10, <1>11
    <2>3. ~ (tile.kind = "cold_chain" /\ tile.asset = b)
      BY <1>10
    <2>4. Changing(t, b) /\ Follows(t, b, last_alert[b], calm[b])
             /\ (last_alert[b] # None => Len(t) >= MAX_EVENTS \/ Shown(t, b, last_alert[b]))
      BY <1>3, <1>10, <2>1, <2>2, <2>3, OtherMessage
    <2>5. CASE b # a
      <3>1. last_alert'[b] = last_alert[b] /\ calm'[b] = calm[b]
        BY <1>3, <1>9, <2>5
      <3>2. CASE news
        <4>1. ~ (alert.kind = "cold_chain" /\ alert.asset = b) /\ s = Append(t, alert)
          BY <1>11, <2>5, <3>2
        <4>2. /\ Changing(t, b) => Changing(Append(t, alert), b)
              /\ Follows(t, b, last_alert[b], calm[b]) => Follows(Append(t, alert), b, last_alert[b], calm[b])
              /\ Shown(t, b, last_alert[b]) => Shown(Append(t, alert), b, last_alert[b])
          BY <1>11, <2>2, <4>1, OtherMessage
        <4>3. MAX_EVENTS \in Nat /\ (Len(t) >= MAX_EVENTS => Len(s) >= MAX_EVENTS)
          BY <2>2 DEF SourceAssumption, Drill!FeedAssumption
        <4> QED
          BY <2>4, <3>1, <4>1, <4>2, <4>3, Zenon
      <3>3. CASE ~ news
        BY <2>4, <3>1, <3>3
      <3> QED
        BY <3>2, <3>3
    <2>6. CASE b = a
      <3>1. CASE d.severity >= 1 /\ last_alert[a] # d
        <4>1. news /\ s = Append(t, alert)
          BY <3>1, Severities
        <4>2. last_alert'[a] = d /\ calm'[a] = calm[a] /\ calm[a] \in Nat
          BY <1>2, <1>3, <1>8, <1>9, <3>1
        <4>3. alert.kind = "cold_chain" /\ alert.asset = a /\ alert.epoch = calm[a]
                 /\ alert.of # last_alert[a] /\ alert.of # None /\ alert \in Messages
          BY <1>8, <1>11, <3>1
        <4>4. Changing(t, a) /\ Follows(t, a, last_alert[a], calm[a])
          BY <2>4, <2>6
        <4>5. LET u == Append(t, alert) IN
              Changing(u, a) /\ Follows(u, a, alert.of, calm[a]) /\ Shown(u, a, alert.of)
          BY <2>2, <4>2, <4>3, <4>4, NewAlert
        <4> QED
          BY <1>11, <2>6, <4>1, <4>2, <4>5
      <3>2. CASE d.severity >= 1 /\ last_alert[a] = d
        <4>0. ~ news
          BY <3>2
        <4>1. s = t /\ last_alert'[a] = last_alert[a] /\ calm'[a] = calm[a]
          <5>1. s = t
            BY <4>0
          <5>2. last_alert'[a] = last_alert[a]
            BY <1>2, <1>3, <1>9, <3>2
          <5>3. calm'[a] = calm[a]
            BY <1>2, <1>3, <1>8, <1>9, <3>2
          <5> QED
            BY <5>1, <5>2, <5>3
        <4> QED
          BY <2>4, <2>6, <4>1
      <3>3. CASE ~ d.severity >= 1
        <4>0. d.severity = 0
          BY <1>8, <3>3
        <4>9. ~ news
          <5>1. ~ d.severity >= Drill!WARNING
            BY <3>3, Severities
          <5> QED
            BY <5>1
        <4>1. s = t /\ last_alert'[a] = None /\ d.severity = 0
          <5>1. s = t
            BY <4>9
          <5>2. last_alert'[a] = None
            BY <1>2, <1>3, <1>9, <3>3
          <5> QED
            BY <4>0, <5>1, <5>2
        <4>2. calm'[a] = IF last_alert[a] # None THEN calm[a] + 1 ELSE calm[a]
          BY <1>2, <1>3, <1>9, <4>1
        <4>3. calm[a] \in Nat
          BY <1>2, <1>3
        <4>4. Follows(t, a, None, calm'[a])
          <5> PICK c : c = calm'[a]
            OBVIOUS
          <5>0. c \in Nat
            BY <4>2, <4>3
          <5>9. ASSUME NEW i \in DOMAIN t, NewestAt(t, a, i) PROVE t[i].epoch \in Nat /\ t[i].epoch < c
            <6>1. t[i] \in Messages
              BY <2>2
            <6>2. t[i].epoch \in Nat
              BY <6>1 DEF Messages
            <6>3. t[i].epoch <= calm[a] /\ (last_alert[a] = None => t[i].epoch < calm[a])
              BY <2>4, <2>6, <5>9 DEF Follows
            <6> QED
              BY <4>2, <4>3, <6>2, <6>3
          <5> QED
            BY <5>0, <5>9 DEF Follows
        <4> QED
          BY <2>4, <2>6, <4>1, <4>4
      <3> QED
        BY <3>1, <3>2, <3>3
    <2> QED
      BY <2>5, <2>6
  <1>16. events' \in Seq(Messages) /\ Len(events') <= MAX_EVENTS /\ SafeIsSafe(events')
    BY <1>12, <1>13, <1>14, PublishKeeps
  <1>17. ASSUME NEW b \in Drill!Names PROVE Buffered(events, b)'
    BY <1>12, <1>13, <1>15, PublishKeeps DEF Buffered
  <1>18. FeedTypes'
    <2>1. minute' \in Nat /\ at' \in 1 .. Drill!Last_at /\ Drill!Last_at' = Drill!Last_at
      <3>1. Drill!Last_at' = Drill!Last_at
        BY DEF Drill!Last_at
      <3>2. Drill!Last_at \in Nat /\ Drill!Last_at >= 2
        BY <1>1
      <3>3. minute' \in Nat
        BY <1>1, <1>5
      <3>4. at' \in 1 .. Drill!Last_at
        BY <1>1, <1>5, <3>2
      <3> QED
        BY <3>1, <3>3, <3>4
    <2>2. temps' \in [Drill!Names -> Int] /\ window' \in [Drill!Names -> Seq(Readings)]
      BY <1>2, <1>3, <1>4, <1>6, <1>7
    <2>3. last_alert' \in [Drill!Names -> Drill!Alerts \cup {None}]
      BY <1>2, <1>3, <1>8, <1>9
    <2>4. calm' \in [Drill!Names -> Nat]
      BY <1>2, <1>3, <1>9
    <2> QED
      BY <1>3, <1>4, <1>16, <2>1, <2>2, <2>3, <2>4 DEF FeedTypes
  <1>19. ASSUME NEW b \in Drill!Names PROVE Fresh(b)' /\ Announced(b)'
    <2>1. CASE b = a
      <3>1. window'[b] = w /\ window'[b][Len(window'[b])].minute = minute
        BY <1>2, <1>3, <1>4, <1>6, <1>7, <2>1
      <3>2. minute <= minute' /\ (at' <= 2 => minute < minute')
        BY <1>1, <1>5
      <3>3. Fresh(b)'
        BY <3>1, <3>2 DEF Fresh
      <3>4. Drill!Uncarried' => power = "outage" /\ generator \in {"failed", "off", "starting"}
        BY <1>3, <1>4 DEF Drill!Uncarried
      <3>5. Drill!Uncarried' => d = Drill!Result("generator_failed", Drill!CRITICAL)
        BY <3>4, Diagnosis
      <3>6. Drill!Result("generator_failed", Drill!CRITICAL).severity = 2
        BY Severities DEF Drill!Result
      <3>7. Drill!Uncarried' => last_alert'[b] = Drill!Result("generator_failed", Drill!CRITICAL)
        BY <1>2, <1>3, <1>9, <2>1, <3>5, <3>6
      <3> QED
        BY <3>3, <3>7 DEF Announced
    <2>2. CASE b # a
      <3>1. window'[b] = window[b] /\ last_alert'[b] = last_alert[b] /\ window[b] \in Seq(Readings)
        BY <1>3, <1>4, <1>9, <2>2
      <3>2. Fresh(b) /\ Announced(b)
        BY DEF FeedInv
      <3>3. CASE window[b] = <<>>
        BY <3>1, <3>3 DEF Fresh, Announced
      <3>4. CASE window[b] # <<>>
        <4> PICK m : m = window[b][Len(window[b])].minute
          OBVIOUS
        <4> PICK v \in Seq(Readings) : v = window[b]
          BY <3>1
        <4>0. v[Len(v)] \in Readings /\ v[Len(v)].minute = m
          BY <3>4
        <4>1. m \in Nat /\ m <= minute
          BY <3>2, <3>4, <4>0 DEF Readings, Fresh
        <4>2. m <= minute' /\ (at' <= 2 => m < minute') /\ (at' > 2 => minute' = minute)
          BY <1>1, <1>5, <4>1
        <4>3. Fresh(b)'
          BY <3>1, <4>2 DEF Fresh
        <4>4. Announced(b)'
          BY <1>1, <1>4, <3>1, <3>2, <3>4, <4>2 DEF Announced, Drill!Uncarried
        <4> QED
          BY <4>3, <4>4
      <3> QED
        BY <3>3, <3>4
    <2> QED
      BY <2>1, <2>2
  <1> QED
    BY <1>16, <1>17, <1>18, <1>19 DEF FeedInv

\* A replay that begins anew has read nothing; what was in force before is from before.
LEMMA NewReplay ==
    ASSUME SourceAssumption, FeedInv, Drill!Start \/ Drill!StartOver
    PROVE  FeedInv'
  <1>1. Drill!NewDrill /\ events' = events
    BY DEF Drill!Start, Drill!StartOver
  <1>2. /\ minute' = 0 /\ at' = 1 /\ temps' = [a \in Drill!Names |-> 0]
        /\ power' = "mains" /\ generator' = "off"
        /\ window' = [a \in Drill!Names |-> <<>>] /\ last_alert' = [a \in Drill!Names |-> None]
        /\ calm' = [a \in Drill!Names |-> calm[a] + 1]
    BY <1>1 DEF Drill!NewDrill, Drill!EmptyFeed
  <1>3. /\ calm \in [Drill!Names -> Nat] /\ last_alert \in [Drill!Names -> Drill!Alerts \cup {None}]
        /\ events \in Seq(Messages) /\ Len(events) <= MAX_EVENTS
    BY DEF FeedInv, FeedTypes
  <1>4. FeedTypes'
    <2>1. at' \in 1 .. Drill!Last_at /\ Drill!Last_at' = Drill!Last_at
      BY <1>2 DEF Drill!Last_at, SourceAssumption, Drill!FeedAssumption
    <2>2. window' \in [Drill!Names -> Seq(Readings)] /\ temps' \in [Drill!Names -> Int]
      BY <1>2
    <2>3. calm' \in [Drill!Names -> Nat]
      BY <1>2, <1>3
    <2>4. last_alert' \in [Drill!Names -> Drill!Alerts \cup {None}]
      BY <1>2
    <2> QED
      BY <1>1, <1>2, <1>3, <2>1, <2>2, <2>3, <2>4 DEF FeedTypes
  <1>5. ASSUME NEW a \in Drill!Names PROVE Fresh(a)' /\ Announced(a)' /\ Buffered(events, a)'
    <2>1. window'[a] = <<>> /\ last_alert'[a] = None /\ calm'[a] = calm[a] + 1 /\ calm[a] \in Nat
      BY <1>2, <1>3
    <2>2. Fresh(a)' /\ Announced(a)'
      BY <2>1 DEF Fresh, Announced
    <2>3. Changing(events, a) /\ Follows(events, a, last_alert[a], calm[a])
      BY DEF FeedInv, Buffered
    <2>4. Follows(events, a, None, calm[a] + 1)
      <3> SUFFICES ASSUME NEW i \in DOMAIN events, NewestAt(events, a, i)
                   PROVE  events[i].epoch <= calm[a] + 1 /\ events[i].epoch < calm[a] + 1
        BY DEF Follows
      <3>1. events[i] \in Messages
        BY <1>3
      <3>2. events[i].epoch \in Nat
        BY <3>1 DEF Messages
      <3>3. events[i].epoch <= calm[a]
        BY <2>3 DEF Follows
      <3> QED
        BY <2>1, <3>2, <3>3
    <2>5. Buffered(events, a)'
      BY <1>1, <2>1, <2>3, <2>4 DEF Buffered
    <2> QED
      BY <2>2, <2>5
  <1>6. SafeIsSafe(events)'
    BY <1>1 DEF FeedInv, SafeIsSafe
  <1> QED
    BY <1>4, <1>5, <1>6 DEF FeedInv

\* The tables of the drill alone decide the invariant.
LEMMA DrillRests ==
    ASSUME FeedInv, UNCHANGED <<minute, at, temps, power, generator, window, last_alert, events, calm>>
    PROVE  FeedInv'
  <1>1. FeedTypes'
    BY DEF FeedInv, FeedTypes, Drill!Last_at
  <1>2. ASSUME NEW a \in Drill!Names PROVE Fresh(a)' /\ Announced(a)' /\ Buffered(events, a)'
    <2>1. Fresh(a) /\ Announced(a) /\ Buffered(events, a)
      BY DEF FeedInv
    <2>2. Fresh(a)'
      BY <2>1 DEF Fresh
    <2>3. Announced(a)'
      BY <2>1 DEF Announced, Drill!Uncarried
    <2>4. Buffered(events, a)'
      BY <2>1 DEF Buffered
    <2> QED
      BY <2>2, <2>3, <2>4
  <1>3. SafeIsSafe(events)'
    BY DEF FeedInv, SafeIsSafe
  <1> QED
    BY <1>1, <1>2, <1>3 DEF FeedInv

\* Before the first drill nothing has been read or said.
LEMMA FeedBegins ==
    ASSUME SourceAssumption, Drill!Init
    PROVE  FeedInv
  <1>1. FeedTypes
    <2>1. 1 \in 1 .. Drill!Last_at /\ Len(<<>>) <= MAX_EVENTS
      BY DEF Drill!Last_at, SourceAssumption, Drill!FeedAssumption
    <2>2. events = <<>> /\ <<>> \in Seq(Messages)
      BY DEF Drill!Init
    <2> QED
      BY <2>1, <2>2 DEF Drill!Init, FeedTypes
  <1>2. ASSUME NEW a \in Drill!Names PROVE Fresh(a) /\ Announced(a) /\ Buffered(events, a)
    <2>1. window[a] = <<>> /\ last_alert[a] = None /\ events = <<>> /\ DOMAIN events = {}
      BY DEF Drill!Init
    <2>2. Changing(events, a) /\ Follows(events, a, last_alert[a], calm[a])
      BY <2>1 DEF Changing, Follows
    <2> QED
      BY <2>1, <2>2 DEF Fresh, Announced, Buffered
  <1>3. SafeIsSafe(events)
    BY DEF Drill!Init, SafeIsSafe
  <1> QED
    BY <1>1, <1>2, <1>3 DEF FeedInv

-----------------------------------------------------------------------------
\* The feed is fresh, has announced what is dangerous and shows the changes of its
\* diagnoses, in every state of the drill (cold_chain_feed.py).
THEOREM FeedInvariance ==
    ASSUME SourceAssumption
    PROVE  Drill!Spec => []FeedInv
  <1>1. Drill!Init => FeedInv
    BY FeedBegins
  <1>2. FeedInv /\ [Drill!Next]_Drill!vars => FeedInv'
    <2> SUFFICES ASSUME FeedInv, [Drill!Next]_Drill!vars PROVE FeedInv'
      OBVIOUS
    <2>1. CASE Drill!Replay
      <3>1. Drill!ReadPower \/ Drill!ReadGenerator \/ Drill!ReadTemperature \/ Drill!ReadEnergy
        BY <2>1 DEF Drill!Replay
      <3> QED
        BY <2>1, <3>1, PowerReading, TemperatureReading
    <2>2. CASE Drill!Start \/ Drill!StartOver
      BY <2>2, NewReplay
    <2>3. CASE Drill!Stop
      <3>1. UNCHANGED <<minute, at, temps, power, generator, window, last_alert, events, calm>>
        BY <2>3 DEF Drill!Stop, Drill!feedVars
      <3> QED
        BY <3>1, DrillRests
    <2>4. CASE UNCHANGED Drill!vars
      <3>1. UNCHANGED <<minute, at, temps, power, generator, window, last_alert, events, calm>>
        BY <2>4 DEF Drill!vars
      <3> QED
        BY <3>1, DrillRests
    <2> QED
      BY <2>1, <2>2, <2>3, <2>4 DEF Drill!Next
  <1> QED
    BY <1>1, <1>2, PTL DEF Drill!Spec

\* Alerts are the changes of what is diagnosed, no danger goes unsaid, and no tile is safe
\* against its forecast (ColdChainFeed._publish_alert, diagnose, fridge tiles).
THEOREM FeedStaysHonest ==
    ASSUME SourceAssumption
    PROVE  Drill!Spec => []FeedIsHonest
  <1>1. ASSUME FeedInv PROVE FeedIsHonest
    <2>1. Drill!DangerIsAnnounced
      <3>1. \A a \in Drill!Names :
                Drill!Uncarried /\ window[a] # <<>> /\ Drill!Last(window[a]).minute = minute /\ at > 2 =>
                    last_alert[a] = Drill!Result("generator_failed", Drill!CRITICAL)
        BY <1>1 DEF FeedInv, Announced, Drill!Last
      <3> QED
        BY <3>1, RisingIsSaid, Zenon DEF Drill!DangerIsAnnounced
    <2>2. Drill!AlertsAreChanges
      <3> SUFFICES ASSUME NEW a \in Drill!Names
                   PROVE  /\ last_alert[a] # None =>
                                \/ Len(events) = MAX_EVENTS
                                \/ \E i \in DOMAIN events :
                                        Drill!IsNewest(a, i) /\ events[i].of = last_alert[a]
                          /\ \A i, j \in DOMAIN events :
                                i < j /\ Drill!IsAlert(a, i) /\ Drill!IsAlert(a, j)
                                  /\ (\A k \in i + 1 .. j - 1 : ~ Drill!IsAlert(a, k))
                                => events[i].of # events[j].of \/ events[i].epoch # events[j].epoch
        BY DEF Drill!AlertsAreChanges
      <3>1. Buffered(events, a)
        BY <1>1 DEF FeedInv
      <3>2. \A i : Drill!IsAlert(a, i) <=> AlertAt(events, a, i)
        BY DEF Drill!IsAlert, AlertAt
      <3>3. \A i : Drill!IsNewest(a, i) <=> NewestAt(events, a, i)
        BY <3>2 DEF Drill!IsNewest, NewestAt
      <3>4. last_alert[a] # None =>
                \/ Len(events) = MAX_EVENTS
                \/ \E i \in DOMAIN events : Drill!IsNewest(a, i) /\ events[i].of = last_alert[a]
        BY <3>1, <3>3 DEF Buffered, Shown
      <3>5. \A i, j \in DOMAIN events :
                i < j /\ Drill!IsAlert(a, i) /\ Drill!IsAlert(a, j)
                  /\ (\A k \in i + 1 .. j - 1 : ~ Drill!IsAlert(a, k))
                => events[i].of # events[j].of \/ events[i].epoch # events[j].epoch
        BY <3>1, <3>2 DEF Buffered, Changing
      <3> QED
        BY <3>4, <3>5
    <2>3. SafeIsSafe(events)
      BY <1>1 DEF FeedInv
    <2> QED
      BY <2>1, <2>2, <2>3 DEF FeedIsHonest, Drill!FeedIsHonest, SafeIsSafe
  <1> QED
    BY <1>1, FeedInvariance, PTL

-----------------------------------------------------------------------------
(* Payloads and files (SourceIntake). *)

\* One record of a request (_process_inbound_record, _commit_product_record).
OneRecord(s, r, fails, products_too) ==
    IF products_too THEN Mapping!commit_product_record(s, r, fails)
    ELSE Mapping!process_inbound_record(s, r, fails)

\* The states between the records of a request, which Process is defined by.
Chain(g, rs, fault, products_too) ==
    g = [n \in 0 .. Len(rs) |->
            IF n = 0 THEN Mapping!State ELSE OneRecord(g[n - 1], rs[n], n = fault, products_too)]

\* A request ends in the last state of such a chain (intake_connector_payload,
\* commit_csv_intake).
LEMMA ProcessIsChain ==
    \A rs, fault, products_too :
        Mapping!Process(rs, fault, products_too)
            = (CHOOSE g : Chain(g, rs, fault, products_too))[Len(rs)]
  BY DEF Mapping!Process, Chain, OneRecord

\* Of some numbers one is least.
LEMMA LeastNumber ==
    ASSUME NEW N \in SUBSET Nat, N # {} PROVE \E n \in N : \A m \in N : n <= m
  <1>1. PICK n \in N : \A m \in N : ~ <<m, n>> \in OpToRel(<, Nat)
    BY NatLessThanWellFounded, WFMin
  <1>2. \A m \in N : ~ (m < n)
    BY <1>1 DEF OpToRel
  <1> QED
    BY <1>2

\* A request has such a chain, however many its records.
LEMMA ChainExists ==
    ASSUME NEW rs, NEW fault, NEW products_too, Len(rs) \in Nat
    PROVE  \E g : Chain(g, rs, fault, products_too)
  <1> DEFINE Entry(g, n) == IF n = 0 THEN Mapping!State
                            ELSE OneRecord(g[n - 1], rs[n], n = fault, products_too)
             Upto(m, g) == g = [n \in 0 .. m |-> Entry(g, n)]
             Without == {m \in Nat : ~ \E g : Upto(m, g)}
  <1>1. Without = {}
    <2> SUFFICES ASSUME Without # {} PROVE FALSE
      OBVIOUS
    <2>1. PICK m \in Without : \A n \in Without : m <= n
      <3> HIDE DEF Without
      <3>1. Without \in SUBSET Nat
        BY DEF Without
      <3> QED
        BY <3>1, LeastNumber
    <2>2. CASE m = 0
      <3> DEFINE h == [n \in 0 .. 0 |-> Mapping!State]
      <3>1. h = [n \in 0 .. 0 |-> Entry(h, n)]
        OBVIOUS
      <3> QED
        BY <2>1, <2>2, <3>1
    <2>3. CASE m # 0
      <3>1. m - 1 \in Nat /\ m - 1 \notin Without
        BY <2>1, <2>3
      <3>2. PICK g : Upto(m - 1, g)
        BY <3>1
      <3> DEFINE h == [n \in 0 .. m |-> IF n = m THEN Entry(g, m) ELSE g[n]]
      <3>3. ASSUME NEW n \in 0 .. m PROVE h[n] = Entry(h, n)
        <4>1. CASE n = m
          <5>1. m - 1 \in 0 .. m /\ m - 1 # m
            BY <2>3, <2>1
          <5>2. h[m - 1] = g[m - 1]
            BY <5>1
          <5> QED
            BY <4>1, <5>2
        <4>2. CASE n # m
          <5>1. n \in 0 .. m - 1 /\ (n # 0 => n - 1 \in 0 .. m /\ n - 1 # m)
            BY <4>2, <2>1
          <5>2. h[n] = g[n] /\ g[n] = Entry(g, n)
            BY <5>1, <4>2, <3>2
          <5>3. n # 0 => h[n - 1] = g[n - 1]
            BY <5>1
          <5> QED
            BY <5>2, <5>3
        <4> QED
          BY <4>1, <4>2
      <3>4. Upto(m, h)
        <4>1. h = [n \in 0 .. m |-> h[n]]
          OBVIOUS
        <4> HIDE DEF h, Entry
        <4> QED
          BY <4>1, <3>3
      <3> QED
        BY <3>4, <2>1
    <2> QED
      BY <2>2, <2>3
  <1> QED
    BY <1>1 DEF Chain

\* What is in a state between two records.
Fields == {"inbound", "spine", "failed", "products", "variants", "identifiers", "statuses", "raised"}

\* What a record is answered.
Answered == {"accepted", "recorded", "invalid", "duplicate"}

\* Codes lead to variants and products that are there.
CodesLead(s) ==
    \A k \in DOMAIN s.identifiers :
        /\ s.identifiers[k] \in s.variants
        /\ [name |-> s.identifiers[k].name] \in s.products

\* What a state between two records still has of the one the request found: while nothing
\* was recorded nothing changed, and codes stay.
Extends(s) ==
    /\ DOMAIN s = Fields /\ s.statuses \in Seq(Answered)
    /\ records \subseteq s.inbound
    /\ s.inbound = records =>
          /\ s.spine = spine /\ s.products = products /\ s.variants = variants
          /\ s.identifiers = identifiers
    /\ \A k \in DOMAIN identifiers :
          k \in DOMAIN s.identifiers /\ s.identifiers[k] = identifiers[k]
    /\ Mapping!CodesAreBacked => CodesLead(s)

\* The state a request finds.
LEMMA StateExtends == Extends(Mapping!State)
  BY DEF Mapping!State, Extends, Fields, CodesLead, Mapping!CodesAreBacked

\* A record changes inbound store and spine only, and nothing when it was there.
LEMMA RecordKeeps ==
    ASSUME NEW s, NEW r, NEW fails, Extends(s)
    PROVE  LET t == Mapping!process_inbound_record(s, r, fails)
           IN /\ Extends(t)
              /\ t.statuses # s.statuses /\ Mapping!Last(t.statuses) = "recorded"
                    => t.inbound # records
  <1> DEFINE key == Mapping!inbound_key(r)
             t == Mapping!process_inbound_record(s, r, fails)
  <1>1. CASE s.raised # None
    BY <1>1 DEF Mapping!process_inbound_record
  <1>2. CASE s.raised = None /\ key \in s.inbound
    <2>1. t = [s EXCEPT !.statuses = Append(@, "duplicate"), !.inbound = @ \cup {key}]
      BY <1>2 DEF Mapping!process_inbound_record
    <2>2. s.inbound \cup {key} = s.inbound
      BY <1>2
    <2>3. /\ DOMAIN t = Fields /\ t.statuses = Append(s.statuses, "duplicate")
          /\ t.inbound = s.inbound /\ t.spine = s.spine /\ t.products = s.products
          /\ t.variants = s.variants /\ t.identifiers = s.identifiers
      BY <2>1, <2>2 DEF Extends, Fields
    <2> HIDE DEF t
    <2>4. Mapping!Last(t.statuses) = "duplicate" /\ t.statuses \in Seq(Answered)
      <3>1. s.statuses \in Seq(Answered) /\ "duplicate" \in Answered
        BY DEF Extends, Answered
      <3> QED
        BY <2>3, <3>1 DEF Mapping!Last
    <2>5. Mapping!Last(t.statuses) # "recorded"
      BY <2>4
    <2>6. Extends(t)
      BY <2>3, <2>4 DEF Extends, CodesLead
    <2> QED
      BY <2>5, <2>6 DEF t
  <1>3. CASE s.raised = None /\ key \notin s.inbound
    <2> DEFINE answered(word) == [s EXCEPT !.statuses = Append(s.statuses, word),
                                             !.inbound = s.inbound \cup {key}]
               stopped(how) == [s EXCEPT !.inbound = s.inbound \cup {key},
                                         !.failed = s.failed \cup {key}, !.raised = how]
               known == Mapping!event_id(r)
               said == Mapping!record_to_event(r)
               grown == [e \in DOMAIN s.spine \cup {known} |-> IF e = known THEN said ELSE s.spine[e]]
               like(u) == /\ DOMAIN u = Fields /\ u.inbound = s.inbound \cup {key}
                          /\ u.products = s.products /\ u.variants = s.variants
                          /\ u.identifiers = s.identifiers /\ u.statuses \in Seq(Answered)
    <2>4. s.statuses \in Seq(Answered) /\ DOMAIN s = Fields
      BY DEF Extends
    <2>5. \A word \in Answered : like(answered(word)) /\ answered(word).spine = s.spine
      BY <2>4 DEF Fields
    <2>6. \A how : like(stopped(how))
      BY <2>4 DEF Fields
    <2>7. \A u, v : like(u) => like([u EXCEPT !.spine = v])
      BY DEF Fields
    <2>8. \/ \E word \in {"invalid", "recorded"} : t = answered(word)
          \/ \E how : t = stopped(how)
          \/ \E u, v : u = answered("accepted") /\ t = [u EXCEPT !.spine = v]
      BY <1>3 DEF Mapping!process_inbound_record
    <2>1. like(t)
      <3> HIDE DEF like, answered, stopped, t
      <3>1. "invalid" \in Answered /\ "recorded" \in Answered /\ "accepted" \in Answered
        BY DEF Answered
      <3> QED
        BY <2>5, <2>6, <2>7, <2>8, <3>1
    <2>2. t.inbound # records /\ records \subseteq t.inbound
      BY <1>3, <2>1 DEF Extends
    <2> QED
      BY <2>1, <2>2 DEF Extends, CodesLead
  <1> QED
    BY <1>1, <1>2, <1>3

\* A code that is claimed goes to the variant, unless it has one (upsert_identifier).
LEMMA CodeKeeps ==
    ASSUME NEW s, NEW kind, NEW value, NEW variant, Extends(s), s.inbound # records,
           variant \in s.variants, [name |-> variant.name] \in s.products
    PROVE  LET t == Mapping!upsert_identifier(s, kind, value, variant)
           IN /\ Extends(t) /\ t.inbound # records
              /\ variant \in t.variants /\ [name |-> variant.name] \in t.products
  <1> DEFINE key == [kind |-> kind, value |-> value]
             t == Mapping!upsert_identifier(s, kind, value, variant)
             codes == [k \in DOMAIN s.identifiers \cup {key} |->
                          IF k = key THEN variant ELSE s.identifiers[k]]
  <1>1. CASE value = None \/ key \in DOMAIN s.identifiers
    BY <1>1 DEF Mapping!upsert_identifier
  <1>2. CASE ~ (value = None \/ key \in DOMAIN s.identifiers)
    <2>1. t = [s EXCEPT !.identifiers = codes]
      BY <1>2 DEF Mapping!upsert_identifier
    <2>2. /\ DOMAIN t = Fields /\ t.statuses = s.statuses /\ t.inbound = s.inbound
          /\ t.products = s.products /\ t.variants = s.variants /\ t.identifiers = codes
      BY <2>1 DEF Extends, Fields
    <2>3. \A k \in DOMAIN s.identifiers : k \in DOMAIN codes /\ codes[k] = s.identifiers[k]
      BY <1>2
    <2>4. DOMAIN codes = DOMAIN s.identifiers \cup {key} /\ codes[key] = variant
      OBVIOUS
    <2> HIDE DEF t, codes, key
    <2>5. CodesLead(s) => CodesLead(t)
      BY <2>2, <2>3, <2>4 DEF CodesLead
    <2>6. Extends(t)
      BY <2>2, <2>3, <2>4, <2>5 DEF Extends
    <2> QED
      BY <2>2, <2>6 DEF t
  <1> QED
    BY <1>1, <1>2

\* So does a product's record: the catalogue changes only behind a new record.
LEMMA ProductKeeps ==
    ASSUME NEW s, NEW r, NEW fails, Extends(s)
    PROVE  Extends(Mapping!commit_product_record(s, r, fails))
  <1> DEFINE t == Mapping!process_inbound_record(s, r, FALSE)
             c == r.content
             product == [name |-> c.name]
             variant == [code |-> c.code, name |-> c.name]
             u == [t EXCEPT !.products = @ \cup {product}, !.variants = @ \cup {variant}]
             v == Mapping!upsert_identifier(u, "sku", c.sku, variant)
             w == Mapping!upsert_identifier(v, "barcode", c.barcode, variant)
             x == [t EXCEPT !.raised = "error", !.failed = @ \cup {Mapping!inbound_key(r)}]
  <1>1. Extends(t)
    BY RecordKeeps
  <1>2. CASE t.statuses = s.statuses \/ Mapping!Last(t.statuses) # "recorded"
    BY <1>1, <1>2 DEF Mapping!commit_product_record
  <1>3. CASE t.statuses # s.statuses /\ Mapping!Last(t.statuses) = "recorded"
    <2>1. t.inbound # records
      BY <1>3, RecordKeeps
    <2> HIDE DEF t
    <2>2. Extends(x)
      BY <1>1 DEF Extends, Fields, CodesLead
    <2>3. /\ DOMAIN u = Fields /\ u.statuses = t.statuses /\ u.inbound = t.inbound
          /\ u.products = t.products \cup {product} /\ u.variants = t.variants \cup {variant}
          /\ u.identifiers = t.identifiers
      BY <1>1 DEF Extends, Fields
    <2>4. product = [name |-> variant.name]
      OBVIOUS
    <2> HIDE DEF u, product, variant
    <2>5. Extends(u)
      BY <1>1, <2>1, <2>3 DEF Extends, CodesLead
    <2>6. u.inbound # records /\ variant \in u.variants /\ [name |-> variant.name] \in u.products
      BY <2>1, <2>3, <2>4
    <2>7. /\ Extends(v) /\ v.inbound # records
          /\ variant \in v.variants /\ [name |-> variant.name] \in v.products
      BY <2>5, <2>6, CodeKeeps
    <2> HIDE DEF v
    <2>8. Extends(w)
      BY <2>7, CodeKeeps
    <2>9. Mapping!commit_product_record(s, r, fails) \in {x, t, w}
      BY <1>3 DEF Mapping!commit_product_record, t, u, v, product, variant
    <2> QED
      BY <1>1, <2>2, <2>8, <2>9
  <1> QED
    BY <1>2, <1>3

\* What a request leaves behind (Process).
LEMMA RequestExtends ==
    ASSUME NEW rs, NEW fault, NEW products_too, Len(rs) \in Nat
    PROVE  Extends(Mapping!Process(rs, fault, products_too))
  <1>1. PICK g : Chain(g, rs, fault, products_too)
               /\ Mapping!Process(rs, fault, products_too) = g[Len(rs)]
    BY ChainExists, ProcessIsChain
  <1> DEFINE Bad == {n \in 0 .. Len(rs) : ~ Extends(g[n])}
  <1>2. Bad = {}
    <2> SUFFICES ASSUME Bad # {} PROVE FALSE
      OBVIOUS
    <2>1. PICK n \in Bad : \A m \in Bad : n <= m
      <3>1. Bad \in SUBSET Nat
        OBVIOUS
      <3> HIDE DEF Bad
      <3> QED
        BY <3>1, LeastNumber
    <2>2. CASE n = 0
      BY <1>1, <2>1, <2>2, StateExtends DEF Chain
    <2>3. CASE n # 0
      <3>1. n - 1 \in 0 .. Len(rs) /\ n - 1 \notin Bad /\ n \in 0 .. Len(rs)
        BY <2>1, <2>3
      <3>2. Extends(g[n - 1])
        BY <3>1
      <3>3. g[n] = OneRecord(g[n - 1], rs[n], n = fault, products_too)
        BY <1>1, <2>3, <3>1 DEF Chain
      <3>4. Extends(OneRecord(g[n - 1], rs[n], n = fault, products_too))
        BY <3>2, RecordKeeps, ProductKeeps DEF OneRecord
      <3> QED
        BY <2>1, <3>3, <3>4
    <2> QED
      BY <2>2, <2>3
  <1>3. Len(rs) \in 0 .. Len(rs)
    OBVIOUS
  <1> QED
    BY <1>1, <1>2, <1>3

\* What a sequence is indexed by.
IsList(h) == \E n \in Nat : h = [i \in 1 .. n |-> h[i]]

\* A list has a length.
LEMMA ListsHaveLength ==
    ASSUME NEW h, IsList(h) PROVE Len(h) \in Nat /\ DOMAIN h = 1 .. Len(h)
  <1>1. PICK n \in Nat : h = [i \in 1 .. n |-> h[i]]
    BY DEF IsList
  <1>2. h \in Seq({h[i] : i \in 1 .. n})
    BY <1>1
  <1> QED
    BY <1>2

\* What is made line by line of a payload or a file is a list (map_for, build_records).
LEMMA MappedIsListed ==
    ASSUME NEW p, p.lines \in Seq(Mapping!ToSet(p.lines)), NEW system
    PROVE  IsList(Mapping!map_for(system, p).records)
  <1>1. \A h : DOMAIN h = DOMAIN p.lines /\ h = [i \in DOMAIN h |-> h[i]] => IsList(h)
    <2>1. DOMAIN p.lines = 1 .. Len(p.lines) /\ Len(p.lines) \in Nat
      OBVIOUS
    <2> QED
      BY <2>1 DEF IsList
  <1>2. \A r : IsList(<<r>>)
    BY DEF IsList
  <1>3. IsList(<<>>)
    <2>1. << >> = [i \in 1 .. 0 |-> << >>[i]]
      OBVIOUS
    <2> QED
      BY <2>1 DEF IsList
  <1>4. \A how : IsList(Mapping!Raise(how).records)
    BY <1>3 DEF Mapping!Raise
  <1>5. \A rs : Mapping!Return(rs).records = rs
    BY DEF Mapping!Return
  <1>6. IsList(Mapping!map_shopify_order(p).records)
    BY <1>1, <1>2, <1>4, <1>5 DEF Mapping!map_shopify_order
  <1>7. IsList(Mapping!map_lightspeed_sale(p).records)
    BY <1>1, <1>2, <1>4, <1>5 DEF Mapping!map_lightspeed_sale
  <1>8. IsList(Mapping!map_square_inventory(p).records)
    BY <1>1, <1>2, <1>4, <1>5 DEF Mapping!map_square_inventory
  <1>9. /\ IsList(Mapping!map_yoco_checkout(p).records)
        /\ IsList(Mapping!map_odoo_product(p).records)
    BY <1>2, <1>4, <1>5 DEF Mapping!map_yoco_checkout, Mapping!map_odoo_product
  <1>10. /\ IsList(Mapping!map_sap_inventory(p).records)
         /\ IsList(Mapping!map_syspro_inventory(p).records)
         /\ IsList(Mapping!map_dynamics_inventory(p).records)
    BY <1>2, <1>4, <1>5 DEF Mapping!map_sap_inventory, Mapping!map_syspro_inventory,
       Mapping!map_dynamics_inventory
  <1> QED
    BY <1>4, <1>6, <1>7, <1>8, <1>9, <1>10 DEF Mapping!map_for

\* So is what is made row by row of a file (build_records).
LEMMA BuiltIsListed ==
    ASSUME Mapping!MappingAssumption, NEW file \in Files
    PROVE  IsList(Mapping!build_records(file))
  <1> DEFINE rs == Mapping!build_records(file)
  <1>1. DOMAIN file.rows = 1 .. Len(file.rows) /\ Len(file.rows) \in Nat
    <2>1. file.rows \in Seq(Mapping!ToSet(file.rows))
      BY DEF Mapping!MappingAssumption
    <2> QED
      BY <2>1
  <1>2. rs = [i \in DOMAIN file.rows |-> rs[i]]
    BY DEF Mapping!build_records
  <1> HIDE DEF rs
  <1>3. IsList(rs)
    BY <1>1, <1>2 DEF IsList
  <1> QED
    BY <1>3 DEF rs

\* Every request either leaves the stores alone or ends in a state that extends them.
LEMMA RequestOutcome ==
    ASSUME Mapping!MappingAssumption, Mapping!Next
    PROVE  \/ UNCHANGED <<records, spine, products, variants, identifiers>>
           \/ \E s : /\ Extends(s)
                     /\ records' = s.inbound /\ spine' = s.spine /\ products' = s.products
                     /\ variants' = s.variants /\ identifiers' = s.identifiers
  <1>1. ASSUME NEW s, NEW what, Mapping!Store(s, what), Extends(s)
        PROVE  \E t : /\ Extends(t)
                      /\ records' = t.inbound /\ spine' = t.spine /\ products' = t.products
                      /\ variants' = t.variants /\ identifiers' = t.identifiers
    BY <1>1 DEF Mapping!Store
  <1>2. ASSUME NEW sub \in Submissions, Mapping!intake_connector_payload(sub)
        PROVE  \/ UNCHANGED <<records, spine, products, variants, identifiers>>
               \/ \E s : Extends(s) /\ Mapping!Store(s, sub)
    <2> DEFINE rs == Mapping!map_for(sub.system, sub.payload).records
    <2>1. Len(rs) \in Nat
      BY MappedIsListed, ListsHaveLength DEF Mapping!MappingAssumption
    <2>2. \A fault : Extends(Mapping!Process(rs, fault, FALSE))
      BY <2>1, RequestExtends
    <2>3. \/ UNCHANGED <<records, spine, products, variants, identifiers>>
          \/ \E fault : Mapping!Store(Mapping!Process(rs, fault, FALSE), sub)
      BY <1>2 DEF Mapping!intake_connector_payload
    <2> QED
      BY <2>2, <2>3
  <1>3. ASSUME NEW file \in Files, Mapping!commit_csv_intake(file)
        PROVE  \/ UNCHANGED <<records, spine, products, variants, identifiers>>
               \/ \E s : Extends(s) /\ Mapping!Store(s, file)
    <2> DEFINE rs == Mapping!build_records(file)
    <2>1. IsList(rs)
      BY BuiltIsListed
    <2>2. Len(rs) \in Nat
      BY <2>1, ListsHaveLength
    <2> HIDE DEF rs
    <2>3. \A fault, p : Extends(Mapping!Process(rs, fault, p))
      BY <2>2, RequestExtends
    <2>4. \/ UNCHANGED <<records, spine, products, variants, identifiers>>
          \/ \E fault : Mapping!Store(Mapping!Process(rs, fault, file.kind = "products"), file)
      BY <1>3 DEF Mapping!commit_csv_intake, rs
    <2> QED
      BY <2>3, <2>4
  <1>4. ASSUME NEW file \in Files, Mapping!preview_csv_intake(file)
        PROVE  UNCHANGED <<records, spine, products, variants, identifiers>>
    BY <1>4 DEF Mapping!preview_csv_intake
  <1> QED
    BY <1>1, <1>2, <1>3, <1>4 DEF Mapping!Next

\* A request that records nothing new changes nothing, and no request moves a code to another
\* variant, for any payloads, files, spellings and failing stores (commit_csv_intake,
\* upsert_identifier).
THEOREM ImportsAlwaysConverge ==
    ASSUME Mapping!MappingAssumption PROVE Mapping!Spec => ImportsConverge
  <1> DEFINE Converges ==
               /\ records' = records => UNCHANGED <<spine, products, variants, identifiers>>
               /\ \A k \in DOMAIN identifiers :
                     k \in DOMAIN identifiers' /\ identifiers'[k] = identifiers[k]
  <1>1. Mapping!Next => Converges
    BY RequestOutcome DEF Extends
  <1>2. [Mapping!Next]_(Mapping!vars) => [Converges]_(Mapping!vars)
    BY <1>1
  <1> QED
    BY <1>2, PTL DEF Mapping!Spec, ImportsConverge, Mapping!ImportsConverge

\* A code of the catalogue leads to a variant and a product that exist, the one that carries
\* it (_commit_product_record).
THEOREM CodesStayBacked ==
    ASSUME Mapping!MappingAssumption PROVE Mapping!Spec => []Mapping!CodesAreBacked
  <1>1. Mapping!Init => Mapping!CodesAreBacked
    BY DEF Mapping!Init, Mapping!CodesAreBacked
  <1>2. Mapping!CodesAreBacked /\ [Mapping!Next]_(Mapping!vars) => Mapping!CodesAreBacked'
    <2> SUFFICES ASSUME Mapping!CodesAreBacked, [Mapping!Next]_(Mapping!vars)
                 PROVE  Mapping!CodesAreBacked'
      OBVIOUS
    <2>1. CASE UNCHANGED <<products, variants, identifiers>>
      BY <2>1 DEF Mapping!CodesAreBacked
    <2>2. ASSUME NEW s, Extends(s), products' = s.products, variants' = s.variants,
                 identifiers' = s.identifiers
          PROVE  Mapping!CodesAreBacked'
      BY <2>2 DEF Extends, CodesLead, Mapping!CodesAreBacked
    <2> QED
      BY <2>1, <2>2, RequestOutcome DEF Mapping!vars
  <1> QED
    BY <1>1, <1>2, PTL DEF Mapping!Spec

\* What an event may say under its id (NothingIsInvented).
SoundEvent(e, said) ==
    LET c == said.content
    IN /\ c.quantity >= 0
       /\ e[2] = "sales_line" => c.sku # None /\ c.quantity > 0 /\ c.price >= 0
       /\ e[1] = "yoco" => 2 * said.raw.lines[1].price = c.price * c.quantity

\* A record that becomes an event becomes a sound one.
SoundRecord(r) ==
    r.ok /\ Mapping!record_to_event(r) # None
        => SoundEvent(Mapping!event_id(r), Mapping!record_to_event(r))

\* What a wrapped record says under its event id, if it becomes an event (record_to_event).
LEMMA WrappedSays ==
    ASSUME NEW system, NEW type, NEW object, NEW raw, NEW ok \in BOOLEAN, NEW content,
           ok /\ type \in {"inventory_state", "sales_line", "expiry_entry"} =>
               SoundEvent(<<system, type, object>>, [raw |-> raw, content |-> content])
    PROVE  SoundRecord(Mapping!wrap(system, type, object, raw, ok, content))
  <1> DEFINE r == Mapping!wrap(system, type, object, raw, ok, content)
             said == [raw |-> raw, content |-> content]
  <1>1. /\ r.type = type /\ r.raw = raw /\ r.content = content /\ r.system = system
        /\ r.object = object
    BY DEF Mapping!wrap
  <1>2. r.ok = ok
    BY DEF Mapping!wrap
  <1> HIDE DEF r
  <1>3. Mapping!event_id(r) = <<system, type, object>>
    BY <1>1 DEF Mapping!event_id
  <1>4. ~ ok \/ type \notin {"inventory_state", "sales_line", "expiry_entry"}
           => ~ r.ok \/ Mapping!record_to_event(r) = None
    BY <1>1, <1>2 DEF Mapping!record_to_event
  <1>5. ok /\ type \in {"inventory_state", "sales_line", "expiry_entry"}
           => Mapping!record_to_event(r) = said
    BY <1>1, <1>2 DEF Mapping!record_to_event
  <1> QED
    BY <1>3, <1>4, <1>5 DEF SoundRecord, r

\* A sale that is validated is sound, if a checkout's amount is the product (validate_sales).
LEMMA SaleIsSound ==
    ASSUME NEW system, NEW object, NEW raw, NEW sku, NEW quantity \in Int, NEW price,
           system = "yoco" => 2 * raw.lines[1].price = price * quantity
    PROVE  SoundRecord(Mapping!Sale(system, object, raw, sku, quantity, price))
  <1> DEFINE content == Mapping!Content(sku, quantity, price)
             ok == Mapping!validate_sales(sku, quantity, price)
             id == <<system, "sales_line", object>>
             said == [raw |-> raw, content |-> content]
  <1>1. content.sku = sku /\ content.quantity = quantity /\ content.price = price
    BY DEF Mapping!Content
  <1>2. ok \in BOOLEAN /\ (ok => sku # None /\ quantity > 0 /\ price >= 0)
    BY DEF Mapping!validate_sales
  <1> HIDE DEF content, ok
  <1>3. ok => SoundEvent(id, said)
    <2> SUFFICES ASSUME ok PROVE SoundEvent(id, said)
      OBVIOUS
    <2>1. said.raw = raw /\ said.content = content /\ id[1] = system /\ id[2] = "sales_line"
      OBVIOUS
    <2>2. quantity >= 0
      BY <1>2
    <2> HIDE DEF said, id
    <2> QED
      BY <1>1, <1>2, <2>1, <2>2 DEF SoundEvent
  <1>4. SoundRecord(Mapping!wrap(system, "sales_line", object, raw, ok, content))
    BY <1>2, <1>3, WrappedSays
  <1> QED
    BY <1>4 DEF Mapping!Sale, ok, content

\* What is validated is sound, whatever it was read from (validate_sales, validate_inventory).
LEMMA ValidatedIsSound ==
    /\ \A system, type, object, raw : SoundRecord(Mapping!Failed(system, type, object, raw))
    /\ \A system, object, raw, sku, quantity, price : system # "yoco" /\ quantity \in Int
          => SoundRecord(Mapping!Sale(system, object, raw, sku, quantity, price))
    /\ \A system, object, raw, sku, location, quantity :
          system # "yoco" => SoundRecord(Mapping!Stock(system, object, raw, sku, location, quantity))
    /\ \A object, raw, ok, content :
          /\ SoundRecord(Mapping!wrap("odoo", "product", object, raw, ok, content))
          /\ SoundRecord(Mapping!wrap("csv", "product_master", object, raw, ok, content))
  <1>1. \A system, type, object, raw : SoundRecord(Mapping!Failed(system, type, object, raw))
    BY DEF SoundRecord, Mapping!Failed, Mapping!wrap
  <1>2. \A system, object, raw, sku, quantity, price : system # "yoco" /\ quantity \in Int
           => SoundRecord(Mapping!Sale(system, object, raw, sku, quantity, price))
    BY SaleIsSound
  <1>3. ASSUME NEW system, NEW object, NEW raw, NEW sku, NEW location, NEW quantity, system # "yoco"
        PROVE  SoundRecord(Mapping!Stock(system, object, raw, sku, location, quantity))
    BY <1>3 DEF SoundRecord, Mapping!Stock, Mapping!wrap, Mapping!validate_inventory,
       Mapping!Content, Mapping!record_to_event, Mapping!event_id, SoundEvent
  <1>4. ASSUME NEW object, NEW raw, NEW ok, NEW content
        PROVE  /\ SoundRecord(Mapping!wrap("odoo", "product", object, raw, ok, content))
               /\ SoundRecord(Mapping!wrap("csv", "product_master", object, raw, ok, content))
    BY DEF SoundRecord, Mapping!wrap, Mapping!record_to_event
  <1> QED
    BY <1>1, <1>2, <1>3, <1>4

\* A checkout's amount is divided only where nothing is lost (_exact_unit_price_minor).
LEMMA ExactDivision ==
    ASSUME NEW a \in Int, NEW q \in Int, q > 0, a % q = 0 PROVE a = (a \div q) * q
  <1>1. a = q * (a \div q) + (a % q)
    OBVIOUS
  <1> QED
    BY <1>1

\* A quantity that can be read is a number (parse_quantity).
LEMMA ReadIsNumber == \A q : Mapping!Readable(q) => Mapping!parse_quantity(q) \in Int
  BY DEF Mapping!Readable, Mapping!parse_quantity

\* Whatever a system's mapper makes of a payload is sound (map_for).
LEMMA MappedIsSound ==
    ASSUME NEW p, NEW system,
           system = "yoco" => p.lines[1].price \in Int \cup {None, Unread, NaN}
    PROVE  LET rs == Mapping!map_for(system, p).records
           IN \A i \in DOMAIN rs : SoundRecord(rs[i])
  <1> DEFINE AllSound(rs) == \A i \in DOMAIN rs : SoundRecord(rs[i])
  <1>1. \A r : SoundRecord(r) => AllSound(<<r>>)
    OBVIOUS
  <1>2. \A how : AllSound(Mapping!Raise(how).records)
    BY DEF Mapping!Raise
  <1>3. \A rs : Mapping!Return(rs).records = rs
    BY DEF Mapping!Return
  <1>4. \A line, id, sku :
           /\ SoundRecord(Mapping!OrderLine("shopify", p, line, id, sku))
           /\ SoundRecord(Mapping!OrderLine("lightspeed", p, line, id, sku))
    BY ValidatedIsSound, ReadIsNumber DEF Mapping!OrderLine
  <1> HIDE DEF AllSound
  <1>5. AllSound(Mapping!map_shopify_order(p).records)
    <2>1. AllSound([i \in DOMAIN p.lines |->
             Mapping!OrderLine("shopify", p, p.lines[i], p.lines[i].id,
                 Mapping!Or(p.lines[i].sku, p.lines[i].product))])
      BY <1>4 DEF AllSound
    <2> QED
      BY <2>1, <1>1, <1>2, <1>3, ValidatedIsSound DEF Mapping!map_shopify_order
  <1>6. AllSound(Mapping!map_lightspeed_sale(p).records)
    <2>1. AllSound([i \in DOMAIN p.lines |->
             Mapping!OrderLine("lightspeed", p, p.lines[i],
                 Mapping!Or(p.lines[i].id, p.lines[i].product),
                 Mapping!Or(p.lines[i].sku, p.lines[i].product))])
      BY <1>4 DEF AllSound
    <2> QED
      BY <2>1, <1>1, <1>2, <1>3, ValidatedIsSound DEF Mapping!map_lightspeed_sale
  <1>7. AllSound(Mapping!map_square_inventory(p).records)
    <2> DEFINE rs == [i \in DOMAIN p.lines |->
                 LET l == p.lines[i]
                     sku == Mapping!Or(l.sku, "unknown")
                     location == Mapping!Or(l.location, "unknown")
                 IN IF Mapping!Readable(l.quantity)
                    THEN Mapping!Stock("square", <<sku, location>>, p, sku, location,
                                       Mapping!parse_quantity(l.quantity))
                    ELSE Mapping!Failed("square", "inventory_state", <<sku, location>>, p)]
    <2>1. AllSound(rs)
      <3> SUFFICES ASSUME NEW i \in DOMAIN rs PROVE SoundRecord(rs[i])
        BY DEF AllSound
      <3> QED
        BY ValidatedIsSound
    <2> QED
      BY <2>1, <1>1, <1>2, <1>3, ValidatedIsSound DEF Mapping!map_square_inventory
  <1>8. ASSUME system = "yoco" PROVE AllSound(Mapping!map_yoco_checkout(p).records)
    <2> DEFINE l == p.lines[1]
               quantity == IF l.quantity = None THEN 2 ELSE l.quantity
               object == <<Mapping!Or(p.order, "unknown")>>
               sale == Mapping!Sale("yoco", object, p, l.sku, quantity, (2 * l.price) \div quantity)
    <2>1. ASSUME l.price \notin {None, Unread, NaN}, Mapping!Readable(quantity), quantity > 0,
                 l.price >= 0, Mapping!ExactUnitPrice(l.price, quantity)
          PROVE  SoundRecord(sale)
      <3>1. l.price \in Int
        BY <1>8, <2>1
      <3>2. quantity \in Int
        BY <2>1 DEF Mapping!Readable
      <3>3. 2 * l.price = ((2 * l.price) \div quantity) * quantity
        BY <2>1, <3>1, <3>2, ExactDivision DEF Mapping!ExactUnitPrice
      <3> HIDE DEF quantity, object
      <3> QED
        BY <3>2, <3>3, SaleIsSound
    <2>2. \/ Mapping!map_yoco_checkout(p).records
               = <<Mapping!Failed("yoco", "sales_line", object, p)>>
          \/ /\ Mapping!map_yoco_checkout(p).records = <<sale>>
             /\ l.price \notin {None, Unread, NaN} /\ Mapping!Readable(quantity) /\ quantity > 0
             /\ l.price >= 0 /\ Mapping!ExactUnitPrice(l.price, quantity)
      BY <1>3 DEF Mapping!map_yoco_checkout
    <2> HIDE DEF sale, quantity, object, l
    <2> QED
      BY <2>1, <2>2, <1>1, ValidatedIsSound
  <1>9. AllSound(Mapping!map_odoo_product(p).records)
    BY <1>1, <1>2, <1>3, ValidatedIsSound DEF Mapping!map_odoo_product
  <1>10. AllSound(Mapping!map_sap_inventory(p).records)
    BY <1>1, <1>2, <1>3, ValidatedIsSound DEF Mapping!map_sap_inventory
  <1>11. AllSound(Mapping!map_syspro_inventory(p).records)
    BY <1>1, <1>2, <1>3, ValidatedIsSound DEF Mapping!map_syspro_inventory
  <1>12. AllSound(Mapping!map_dynamics_inventory(p).records)
    BY <1>1, <1>2, <1>3, ValidatedIsSound DEF Mapping!map_dynamics_inventory
  <1>13. AllSound(Mapping!map_for(system, p).records)
    BY <1>2, <1>5, <1>6, <1>7, <1>8, <1>9, <1>10, <1>11, <1>12 DEF Mapping!map_for
  <1> QED
    BY <1>13 DEF AllSound

\* So is whatever a row of a file becomes (build_csv_intake_records).
LEMMA BuiltIsSound ==
    ASSUME NEW file, NEW i, file.kind \in {"products", "stock", "expiry", "sales"}
    PROVE  SoundRecord(Mapping!build_record(file, i))
  <1>1. \A f, raw : SoundRecord(Mapping!build_product(f, raw))
    BY ValidatedIsSound DEF Mapping!build_product
  <1>2. \A f, raw : SoundRecord(Mapping!build_sale(f, raw))
    BY ValidatedIsSound, ReadIsNumber DEF Mapping!build_sale
  <1>3. ASSUME NEW f, NEW raw PROVE SoundRecord(Mapping!build_stock(f, raw))
    BY ValidatedIsSound DEF Mapping!build_stock, Mapping!Stock, Mapping!wrap, Mapping!Content,
       SoundRecord, Mapping!record_to_event, Mapping!event_id, SoundEvent,
       Mapping!validate_inventory, Mapping!Failed
  <1>4. ASSUME NEW f, NEW raw PROVE SoundRecord(Mapping!build_expiry(f, raw))
    BY ValidatedIsSound DEF Mapping!build_expiry, Mapping!Stock, Mapping!wrap, Mapping!Content,
       SoundRecord, Mapping!record_to_event, Mapping!event_id, SoundEvent,
       Mapping!validate_inventory, Mapping!Failed
  <1> QED
    BY <1>1, <1>2, <1>3, <1>4 DEF Mapping!build_record

\* What the event store holds in a state between two records.
SoundSpine(s) == DOMAIN s = Fields /\ \A e \in DOMAIN s.spine : SoundEvent(e, s.spine[e])

\* A sound record leaves the event store sound (_process_inbound_record).
LEMMA RecordIsSound ==
    ASSUME NEW s, NEW r, NEW fails, SoundSpine(s), SoundRecord(r)
    PROVE  SoundSpine(Mapping!process_inbound_record(s, r, fails))
  <1> DEFINE key == Mapping!inbound_key(r)
             t == Mapping!process_inbound_record(s, r, fails)
             known == Mapping!event_id(r)
             said == Mapping!record_to_event(r)
             grown == [e \in DOMAIN s.spine \cup {known} |-> IF e = known THEN said ELSE s.spine[e]]
             answered(word) == [s EXCEPT !.statuses = Append(s.statuses, word),
                                           !.inbound = s.inbound \cup {key}]
             stopped(how) == [s EXCEPT !.inbound = s.inbound \cup {key},
                                       !.failed = s.failed \cup {key}, !.raised = how]
             like(u) == DOMAIN u = Fields /\ u.spine = s.spine
  <1>1. (\A word : like(answered(word))) /\ (\A how : like(stopped(how)))
    BY DEF SoundSpine, Fields
  <1>2. \A u : like(u) => LET v == [u EXCEPT !.spine = grown]
                          IN DOMAIN v = Fields /\ v.spine = grown
    BY DEF Fields
  <1>3. \/ t = s
        \/ \E word \in {"duplicate", "invalid", "recorded"} : t = answered(word)
        \/ \E how : t = stopped(how)
        \/ \E u : /\ u = answered("accepted") /\ t = [u EXCEPT !.spine = grown]
                 /\ r.ok /\ said # None
    <2>1. CASE s.raised # None \/ key \in s.inbound \/ ~ r.ok \/ said = None
      <3>1. s.raised # None => t = s
        BY DEF Mapping!process_inbound_record
      <3>2. s.raised = None /\ key \in s.inbound => t = answered("duplicate")
        BY DEF Mapping!process_inbound_record
      <3>3. s.raised = None /\ key \notin s.inbound /\ ~ r.ok => t = answered("invalid")
        BY DEF Mapping!process_inbound_record
      <3>4. s.raised = None /\ key \notin s.inbound /\ r.ok /\ said = None
               => t = answered("recorded")
        BY DEF Mapping!process_inbound_record
      <3> HIDE DEF t, answered, said, key
      <3> QED
        BY <2>1, <3>1, <3>2, <3>3, <3>4
    <2>2. CASE ~ (s.raised # None \/ key \in s.inbound \/ ~ r.ok \/ said = None)
      <3>1. CASE fails \/ known \in DOMAIN s.spine
        BY <2>2, <3>1 DEF Mapping!process_inbound_record
      <3>2. CASE ~ (fails \/ known \in DOMAIN s.spine)
        <4> DEFINE u == answered("accepted")
        <4>1. u.spine = s.spine
          BY <1>1
        <4>2. t = [u EXCEPT !.spine = [e \in DOMAIN u.spine \cup {known} |->
                                         IF e = known THEN said ELSE u.spine[e]]]
          BY <2>2, <3>2 DEF Mapping!process_inbound_record
        <4>3. r.ok /\ said # None
          BY <2>2
        <4> HIDE DEF u, t, said, known
        <4>4. t = [u EXCEPT !.spine = grown]
          BY <4>1, <4>2
        <4> HIDE DEF grown
        <4> QED
          BY <4>3, <4>4 DEF u
      <3> QED
        BY <3>1, <3>2
    <2> QED
      BY <2>1, <2>2
  <1>4. r.ok /\ said # None => \A e \in DOMAIN grown : SoundEvent(e, grown[e])
    <2>1. r.ok /\ said # None => SoundEvent(known, said)
      BY DEF SoundRecord
    <2> HIDE DEF known, said
    <2> QED
      BY <2>1 DEF SoundSpine
  <1> HIDE DEF answered, stopped, grown, t
  <1>5. \/ like(t)
        \/ DOMAIN t = Fields /\ t.spine = grown /\ r.ok /\ said # None
    <2>1. like(s)
      BY DEF SoundSpine
    <2> HIDE DEF like
    <2>2. CASE \E u : u = answered("accepted") /\ t = [u EXCEPT !.spine = grown]
                     /\ r.ok /\ said # None
      BY <1>1, <1>2, <2>2
    <2> QED
      BY <1>1, <1>3, <2>1, <2>2
  <1> QED
    BY <1>4, <1>5 DEF SoundSpine, t

\* What is written to the catalogue is not written to the event store.
LEMMA CodeIsSound ==
    ASSUME NEW s, NEW kind, NEW value, NEW variant, SoundSpine(s)
    PROVE  SoundSpine(Mapping!upsert_identifier(s, kind, value, variant))
  <1> DEFINE t == Mapping!upsert_identifier(s, kind, value, variant)
  <1>1. t = s \/ \E codes : t = [s EXCEPT !.identifiers = codes]
    BY DEF Mapping!upsert_identifier
  <1>2. \A codes : LET u == [s EXCEPT !.identifiers = codes]
                  IN DOMAIN u = Fields /\ u.spine = s.spine
    BY DEF SoundSpine, Fields
  <1> HIDE DEF t
  <1>3. DOMAIN t = Fields /\ t.spine = s.spine
    BY <1>1, <1>2 DEF SoundSpine
  <1> QED
    BY <1>3 DEF SoundSpine, t

\* Nor is a product's record (_commit_product_record).
LEMMA ProductIsSound ==
    ASSUME NEW s, NEW r, NEW fails, SoundSpine(s), SoundRecord(r)
    PROVE  SoundSpine(Mapping!commit_product_record(s, r, fails))
  <1> DEFINE t == Mapping!process_inbound_record(s, r, FALSE)
             c == r.content
             product == [name |-> c.name]
             variant == [code |-> c.code, name |-> c.name]
             u == [t EXCEPT !.products = @ \cup {product}, !.variants = @ \cup {variant}]
             v == Mapping!upsert_identifier(u, "sku", c.sku, variant)
             w == Mapping!upsert_identifier(v, "barcode", c.barcode, variant)
             x == [t EXCEPT !.raised = "error", !.failed = @ \cup {Mapping!inbound_key(r)}]
  <1>1. SoundSpine(t)
    BY RecordIsSound
  <1>2. Mapping!commit_product_record(s, r, fails) \in {t, x, w}
    BY DEF Mapping!commit_product_record
  <1> HIDE DEF t
  <1>3. SoundSpine(x)
    <2>1. DOMAIN x = Fields /\ x.spine = t.spine
      BY <1>1 DEF SoundSpine, Fields
    <2> QED
      BY <1>1, <2>1 DEF SoundSpine
  <1>4. SoundSpine(u)
    <2>1. DOMAIN u = Fields /\ u.spine = t.spine
      BY <1>1 DEF SoundSpine, Fields
    <2> QED
      BY <1>1, <2>1 DEF SoundSpine
  <1> HIDE DEF u, x, variant
  <1>5. SoundSpine(w)
    BY <1>4, CodeIsSound
  <1> QED
    BY <1>1, <1>2, <1>3, <1>5

\* A request of sound records leaves the event store sound.
LEMMA RequestIsSound ==
    ASSUME NEW rs, NEW fault, NEW products_too, Len(rs) \in Nat,
           \A i \in 1 .. Len(rs) : SoundRecord(rs[i]), Mapping!NothingIsInvented
    PROVE  SoundSpine(Mapping!Process(rs, fault, products_too))
  <1>1. PICK g : Chain(g, rs, fault, products_too)
               /\ Mapping!Process(rs, fault, products_too) = g[Len(rs)]
    BY ChainExists, ProcessIsChain
  <1> DEFINE Unsound == {n \in 0 .. Len(rs) : ~ SoundSpine(g[n])}
  <1>2. Unsound = {}
    <2> SUFFICES ASSUME Unsound # {} PROVE FALSE
      OBVIOUS
    <2>1. PICK n \in Unsound : \A m \in Unsound : n <= m
      <3>1. Unsound \in SUBSET Nat
        OBVIOUS
      <3> HIDE DEF Unsound
      <3> QED
        BY <3>1, LeastNumber
    <2>2. CASE n = 0
      <3>1. DOMAIN Mapping!State = Fields /\ Mapping!State.spine = spine
        BY DEF Mapping!State, Fields
      <3>2. SoundSpine(Mapping!State)
        BY <3>1 DEF SoundSpine, SoundEvent, Mapping!NothingIsInvented
      <3> QED
        BY <1>1, <2>1, <2>2, <3>2 DEF Chain
    <2>3. CASE n # 0
      <3>1. n - 1 \in 0 .. Len(rs) /\ n - 1 \notin Unsound /\ n \in 1 .. Len(rs)
        BY <2>1, <2>3
      <3>2. SoundSpine(g[n - 1]) /\ SoundRecord(rs[n])
        BY <3>1
      <3>3. g[n] = OneRecord(g[n - 1], rs[n], n = fault, products_too)
        BY <1>1, <2>1, <2>3 DEF Chain
      <3>4. SoundSpine(OneRecord(g[n - 1], rs[n], n = fault, products_too))
        BY <3>2, RecordIsSound, ProductIsSound DEF OneRecord
      <3> QED
        BY <2>1, <3>3, <3>4
    <2> QED
      BY <2>2, <2>3
  <1>3. Len(rs) \in 0 .. Len(rs)
    OBVIOUS
  <1> QED
    BY <1>1, <1>2, <1>3

\* Nothing is sold that no line states: a sale in the event store has an article, a positive
\* quantity and a price, and a checkout's amount is neither rounded up nor down
\* (_exact_unit_price_minor, validate_sales, record_to_event).
THEOREM NothingIsEverInvented ==
    ASSUME Mapping!MappingAssumption PROVE Mapping!Spec => []Mapping!NothingIsInvented
  <1>1. Mapping!Init => Mapping!NothingIsInvented
    BY DEF Mapping!Init, Mapping!NothingIsInvented
  <1>2. Mapping!NothingIsInvented /\ [Mapping!Next]_(Mapping!vars) => Mapping!NothingIsInvented'
    <2> SUFFICES ASSUME Mapping!NothingIsInvented, [Mapping!Next]_(Mapping!vars)
                 PROVE  Mapping!NothingIsInvented'
      OBVIOUS
    <2>1. CASE spine' = spine
      BY <2>1 DEF Mapping!NothingIsInvented
    <2>2. ASSUME NEW s, NEW what, SoundSpine(s), Mapping!Store(s, what)
          PROVE  Mapping!NothingIsInvented'
      BY <2>2 DEF SoundSpine, SoundEvent, Mapping!Store, Mapping!NothingIsInvented
    <2>3. ASSUME NEW sub \in Submissions, Mapping!intake_connector_payload(sub)
          PROVE  spine' = spine \/ \E s : SoundSpine(s) /\ Mapping!Store(s, sub)
      <3> DEFINE rs == Mapping!map_for(sub.system, sub.payload).records
      <3>1. IsList(rs)
        BY MappedIsListed DEF Mapping!MappingAssumption
      <3>2. \A i \in DOMAIN rs : SoundRecord(rs[i])
        BY MappedIsSound DEF Mapping!MappingAssumption
      <3>3. spine' = spine \/ \E fault : Mapping!Store(Mapping!Process(rs, fault, FALSE), sub)
        BY <2>3 DEF Mapping!intake_connector_payload
      <3> HIDE DEF rs
      <3>4. Len(rs) \in Nat /\ \A i \in 1 .. Len(rs) : SoundRecord(rs[i])
        BY <3>1, <3>2, ListsHaveLength
      <3> QED
        BY <3>3, <3>4, RequestIsSound
    <2>4. ASSUME NEW file \in Files, Mapping!commit_csv_intake(file)
          PROVE  spine' = spine \/ \E s : SoundSpine(s) /\ Mapping!Store(s, file)
      <3> DEFINE rs == Mapping!build_records(file)
      <3>1. IsList(rs)
        BY BuiltIsListed
      <3>2. \A i \in DOMAIN rs : SoundRecord(rs[i])
        BY BuiltIsSound DEF Mapping!build_records, Mapping!MappingAssumption
      <3>3. spine' = spine
            \/ \E fault, p : Mapping!Store(Mapping!Process(rs, fault, p), file)
        BY <2>4 DEF Mapping!commit_csv_intake
      <3> HIDE DEF rs
      <3>4. Len(rs) \in Nat /\ \A i \in 1 .. Len(rs) : SoundRecord(rs[i])
        BY <3>1, <3>2, ListsHaveLength
      <3> QED
        BY <3>3, <3>4, RequestIsSound
    <2>5. ASSUME NEW file \in Files, Mapping!preview_csv_intake(file) PROVE spine' = spine
      BY <2>5 DEF Mapping!preview_csv_intake
    <2> QED
      BY <2>1, <2>2, <2>3, <2>4, <2>5 DEF Mapping!Next, Mapping!vars
  <1> QED
    BY <1>1, <1>2, PTL DEF Mapping!Spec
=============================================================================
