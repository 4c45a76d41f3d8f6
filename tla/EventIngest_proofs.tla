------------------------- MODULE EventIngest_proofs -------------------------
(***************************************************************************)
(* Proofs about the intake spine, for any number of events, contents,       *)
(* handlers and failures; and, in the last section, about the campaign that *)
(* drives it and the other parts and reports on them.                       *)
(***************************************************************************)
EXTENDS EventIngest, Integers, FiniteSets, Functions, SequenceTheorems,
        FiniteSetTheorems, TLAPS

\* Publishing keeps every message and adds the new one (event_bus.publish).
LEMMA AppendKeeps ==
    ASSUME NEW s \in Seq(Message), NEW m \in Message
    PROVE  /\ Append(s, m) \in Seq(Message)
           /\ Len(Append(s, m)) = Len(s) + 1
           /\ \A i \in 1..Len(s) : Append(s, m)[i] = s[i]
           /\ Append(s, m)[Len(s) + 1] = m
  OBVIOUS

\* The empty system satisfies the inductive invariant.
LEMMA InitInv == Init => IngestInv
  <1> SUFFICES ASSUME Init PROVE IngestInv
    OBVIOUS
  <1>1. TypeOK
    BY IngestAssumption DEF Init, TypeOK, At, Steps, Message
  <1> QED
    BY <1>1 DEF Init, IngestInv, HandlersBacked, OneContentPerEvent,
       PublishedIsComplete, AnswersSound, InventoryMovedOnce,
       CascadesAreOwed, At, Backed, Recorded, Observed, Projected, Enqueued

\* What a handler works on while it is not idle.
LEMMA RequestTypes ==
    ASSUME TypeOK, NEW r \in Requests, ~At(r, "idle")
    PROVE  req[r] \in Message /\ E(r) \in Events /\ C(r) \in Contents
  BY DEF TypeOK, Message, E, C

\* Moving on inside record_pipeline_event keeps the handler's types.
LEMMA GotoTypes ==
    ASSUME TypeOK, NEW r \in Requests, NEW step \in Steps \ {"idle"},
           ~At(r, "idle"), Goto(r, step), UNCHANGED <<answers, req>>
    PROVE  /\ pc' \in [Requests -> Steps]
           /\ req' \in [Requests -> Message \cup {None}]
           /\ \A q \in Requests : (At(q, "idle"))' <=> req'[q] = None
           /\ answers' \subseteq [event: Events, content: Contents, status: Status]
  BY DEF TypeOK, At, Goto

\* So does answering the client.
LEMMA AnswerTypes ==
    ASSUME TypeOK, NEW r \in Requests, NEW status \in Status,
           ~At(r, "idle"), Answer(r, status)
    PROVE  /\ pc' \in [Requests -> Steps]
           /\ req' \in [Requests -> Message \cup {None}]
           /\ \A q \in Requests : (At(q, "idle"))' <=> req'[q] = None
           /\ answers' \subseteq [event: Events, content: Contents, status: Status]
  BY RequestTypes DEF TypeOK, At, Goto, Answer, Steps

\* Each call of record_pipeline_event keeps the types.
LEMMA TypeStep == TypeOK /\ [Next]_vars => TypeOK'
  <1> SUFFICES ASSUME TypeOK, [Next]_vars PROVE TypeOK'
    OBVIOUS
  <1> USE IngestAssumption DEF storeVars, effectVars
  <1>s. \A s : s \in {"record", "compare", "is_published", "observe", "project",
                      "twin", "publish", "mark", "cascade"} => s \in Steps \ {"idle"}
    BY DEF Steps
  <1>a. {"accepted", "cascaded", "duplicate", "conflict", "error", "cascade_error"} \subseteq Status
    BY DEF Status
  <1>1. ASSUME NEW r \in Requests, NEW e \in Events, NEW c \in Contents, Submit(r, e, c)
        PROVE  TypeOK'
    BY <1>1 DEF Submit, TypeOK, Message, At, Goto, Steps
  <1>2. ASSUME NEW r \in Requests, Record(r) PROVE TypeOK'
    <2>1. ~At(r, "idle") /\ E(r) \in Events /\ C(r) \in Contents
      BY <1>2, RequestTypes DEF Record, At
    <2>2. \E step \in {"observe", "compare"} : Goto(r, step)
      BY <1>2 DEF Record
    <2> QED
      BY <1>2, <1>s, <2>1, <2>2, GotoTypes DEF Record, TypeOK
  <1>3. ASSUME NEW r \in Requests, Compare(r) PROVE TypeOK'
    <2>1. ~At(r, "idle") /\ E(r) \in Events /\ C(r) \in Contents
      BY <1>3, RequestTypes DEF Compare, At
    <2>2. CASE store[E(r)] = C(r)
      <3>1. Goto(r, "is_published") /\ UNCHANGED <<answers, req>>
        BY <1>3, <2>2, Zenon DEF Compare
      <3> QED
        BY <1>3, <1>s, <1>a, <2>1, <3>1, AnswerTypes, GotoTypes DEF Compare, TypeOK
    <2>3. CASE ~(store[E(r)] = C(r))
      <3>1. Answer(r, "conflict")
        BY <1>3, <2>3, Zenon DEF Compare
      <3> QED
        BY <1>3, <1>s, <1>a, <2>1, <3>1, AnswerTypes, GotoTypes DEF Compare, TypeOK
    <2> QED
      BY <2>2, <2>3
  <1>4. ASSUME NEW r \in Requests, CheckPublished(r) PROVE TypeOK'
    <2>1. ~At(r, "idle") /\ E(r) \in Events /\ C(r) \in Contents
      BY <1>4, RequestTypes DEF CheckPublished, At
    <2>2. CASE E(r) \in published
      <3>1. Answer(r, "duplicate")
        BY <1>4, <2>2, Zenon DEF CheckPublished
      <3> QED
        BY <1>4, <1>s, <1>a, <2>1, <3>1, AnswerTypes, GotoTypes DEF CheckPublished, TypeOK
    <2>3. CASE ~(E(r) \in published)
      <3>1. Goto(r, "observe") /\ UNCHANGED <<answers, req>>
        BY <1>4, <2>3, Zenon DEF CheckPublished
      <3> QED
        BY <1>4, <1>s, <1>a, <2>1, <3>1, AnswerTypes, GotoTypes DEF CheckPublished, TypeOK
    <2> QED
      BY <2>2, <2>3
  <1>5. ASSUME NEW r \in Requests, ObserveOrder(r) PROVE TypeOK'
    BY <1>5, <1>s, RequestTypes, GotoTypes DEF ObserveOrder, TypeOK, At
  <1>6. ASSUME NEW r \in Requests, ProjectInventory(r) PROVE TypeOK'
    <2>1. ~At(r, "idle") /\ E(r) \in Events
      BY <1>6, RequestTypes DEF ProjectInventory, At
    <2>2. applied' \in [Events -> Nat]
      BY <1>6, <2>1 DEF ProjectInventory, TypeOK
    <2> QED
      BY <1>6, <1>s, <2>1, <2>2, GotoTypes DEF ProjectInventory, TypeOK
  <1>7. ASSUME NEW r \in Requests, ProjectTwin(r) PROVE TypeOK'
    BY <1>7, <1>s, RequestTypes, GotoTypes DEF ProjectTwin, TypeOK, At
  <1>8. ASSUME NEW r \in Requests, Publish(r) PROVE TypeOK'
    BY <1>8, <1>s, RequestTypes, GotoTypes, AppendKeeps DEF Publish, TypeOK, At
  <1>9. ASSUME NEW r \in Requests, MarkPublished(r) PROVE TypeOK'
    <2>1. ~At(r, "idle") /\ E(r) \in Events /\ C(r) \in Contents
      BY <1>9, RequestTypes DEF MarkPublished, At
    <2>2. CASE r \in Queued
      <3>1. Answer(r, "accepted")
        BY <1>9, <2>2, Zenon DEF MarkPublished
      <3> QED
        BY <1>9, <1>s, <1>a, <2>1, <3>1, AnswerTypes, GotoTypes DEF MarkPublished, TypeOK
    <2>3. CASE r \notin Queued
      <3>1. Goto(r, "cascade") /\ UNCHANGED <<answers, req>>
        BY <1>9, <2>3, Zenon DEF MarkPublished
      <3> QED
        BY <1>9, <1>s, <1>a, <2>1, <3>1, AnswerTypes, GotoTypes DEF MarkPublished, TypeOK
    <2> QED
      BY <2>2, <2>3
  <1>10. ASSUME NEW r \in Requests, CascadeForEvent(r) PROVE TypeOK'
    BY <1>10, <1>a, RequestTypes, AnswerTypes DEF CascadeForEvent, TypeOK, At
  <1>11. ASSUME NEW r \in Requests, Abort(r) PROVE TypeOK'
    BY <1>11, <1>a, RequestTypes, AnswerTypes DEF Abort, TypeOK, At
  <1>12. CASE UNCHANGED vars
    BY <1>12 DEF vars, TypeOK, At
  <1> QED
    BY <1>1, <1>2, <1>3, <1>4, <1>5, <1>6, <1>7, <1>8, <1>9, <1>10, <1>11, <1>12
       DEF Next, RecordPipelineEvent

\* What the bus held it still holds.
LEMMA OnBusKept ==
    ASSUME TypeOK, NEW e, NEW c, OnBus(e, c),
           bus' = bus \/ \E m \in Message : bus' = Append(bus, m)
    PROVE  OnBus(e, c)'
  <1>1. PICK i \in 1..Len(bus) : bus[i] = [event |-> e, content |-> c]
    BY DEF OnBus
  <1>2. CASE bus' = bus
    BY <1>1, <1>2 DEF OnBus
  <1>3. ASSUME NEW m \in Message, bus' = Append(bus, m) PROVE OnBus(e, c)'
    <2>1. i \in 1..Len(bus') /\ bus'[i] = bus[i]
      BY <1>1, <1>3, AppendKeeps DEF TypeOK
    <2> QED
      BY <1>1, <2>1 DEF OnBus
  <1> QED
    BY <1>2, <1>3

\* Every action keeps what the other handlers' progress rests on: the store,
\* the effects, the bus and the flags only grow.
LEMMA Monotone ==
    ASSUME IngestInv, [Next]_vars
    PROVE  /\ \A e \in Events : store[e] # None => store'[e] = store[e]
           /\ published \subseteq published' /\ observed \subseteq observed'
           /\ receipts \subseteq receipts' /\ decisions \subseteq decisions'
           /\ bus' = bus \/ \E m \in Message : bus' = Append(bus, m)
  <1> USE DEF storeVars, effectVars
  <1>0. TypeOK
    BY DEF IngestInv
  <1>1. ASSUME NEW r \in Requests, Record(r)
        PROVE  \A e \in Events : store[e] # None => store'[e] = store[e]
    BY <1>0, <1>1 DEF Record, TypeOK
  <1>2. ASSUME NEW r \in Requests, Publish(r)
        PROVE  \E m \in Message : bus' = Append(bus, m)
    BY <1>0, <1>2, RequestTypes DEF Publish, At
  <1>3. CASE UNCHANGED vars
    BY <1>3 DEF vars
  <1>4. ASSUME NEW r \in Requests, NEW e, NEW c,
               Submit(r, e, c) \/ RecordPipelineEvent(r) \/ Abort(r)
        PROVE  /\ \A d \in Events : store[d] # None => store'[d] = store[d]
               /\ published \subseteq published' /\ observed \subseteq observed'
               /\ receipts \subseteq receipts' /\ decisions \subseteq decisions'
               /\ bus' = bus \/ \E m \in Message : bus' = Append(bus, m)
    BY <1>1, <1>2, <1>4
       DEF RecordPipelineEvent, Submit, Record, Compare, CheckPublished, ObserveOrder,
           ProjectInventory, ProjectTwin, Publish, MarkPublished, CascadeForEvent, Abort
  <1> QED
    BY <1>3, <1>4 DEF Next

\* Handlers stay backed by shared state when one of them, or another, steps.
LEMMA HandlersStep ==
    ASSUME IngestInv, [Next]_vars PROVE HandlersBacked'
  <1> USE IngestAssumption DEF storeVars, effectVars, At, Goto, Recorded, Observed, Projected, Enqueued
  <1>0. TypeOK /\ HandlersBacked /\ TypeOK'
    BY TypeStep DEF IngestInv
  \* A handler that does not step keeps its backing by monotonicity.
  <1>1. ASSUME NEW q \in Requests, pc'[q] = pc[q], req'[q] = req[q] PROVE Backed(q)'
    <2>1. CASE At(q, "idle")
      BY <1>1, <2>1 DEF Backed
    <2>2. CASE ~At(q, "idle")
      <3>1. E(q) \in Events /\ C(q) \in Contents /\ E(q)' = E(q) /\ C(q)' = C(q)
        BY <1>0, <1>1, <2>2, RequestTypes DEF E, C
      <3>2. OnBus(E(q), C(q)) => OnBus(E(q), C(q))'
        <4>1. \A e, c : OnBus(e, c) => OnBus(e, c)'
          BY <1>0, Monotone, OnBusKept
        <4> QED
          BY <3>1, <4>1 DEF OnBus
      <3> QED
        BY <1>0, <1>1, <2>2, <3>1, <3>2, Monotone DEF HandlersBacked, Backed
    <2> QED
      BY <2>1, <2>2
  \* A handler that answers is idle, and needs none.
  <1>2. ASSUME NEW r \in Requests, NEW status, Answer(r, status) PROVE HandlersBacked'
    <2>1. pc'[r] = "idle"
      BY <1>0, <1>2 DEF Answer, TypeOK
    <2>2. \A q \in Requests \ {r} : pc'[q] = pc[q] /\ req'[q] = req[q]
      BY <1>0, <1>2 DEF Answer, TypeOK
    <2> QED
      BY <1>1, <2>1, <2>2 DEF HandlersBacked, Backed
  \* A handler that moves on keeps its request, so only its own backing is new.
  <1>3. ASSUME NEW r \in Requests, NEW step \in Steps, Goto(r, step), UNCHANGED req,
               Backed(r)'
        PROVE  HandlersBacked'
    <2>1. \A q \in Requests \ {r} : pc'[q] = pc[q] /\ req'[q] = req[q]
      BY <1>0, <1>3 DEF TypeOK
    <2> QED
      BY <1>1, <1>3, <2>1 DEF HandlersBacked
  <1>4. ASSUME NEW r \in Requests, NEW e \in Events, NEW c \in Contents, Submit(r, e, c)
        PROVE  HandlersBacked'
    <2>1. pc'[r] = "record"
      BY <1>0, <1>4 DEF Submit, TypeOK
    <2>2. \A q \in Requests \ {r} : pc'[q] = pc[q] /\ req'[q] = req[q]
      BY <1>0, <1>4 DEF Submit, TypeOK
    <2> QED
      BY <1>1, <2>1, <2>2 DEF HandlersBacked, Backed
  <1>5. ASSUME NEW r \in Requests, Record(r) PROVE HandlersBacked'
    <2>1. E(r) \in Events /\ C(r) \in Contents /\ UNCHANGED req
      BY <1>0, <1>5, RequestTypes DEF Record
    <2>2. CASE store[E(r)] = None
      <3>1. Goto(r, "observe") /\ store' = [store EXCEPT ![E(r)] = C(r)]
        BY <1>5, <2>2 DEF Record
      <3>2. Backed(r)'
        BY <1>0, <2>1, <3>1 DEF Backed, TypeOK, E, C
      <3> QED
        BY <1>3, <2>1, <3>1, <3>2 DEF Steps
    <2>3. CASE store[E(r)] # None
      <3>1. Goto(r, "compare") /\ store' = store
        BY <1>5, <2>3 DEF Record
      <3>2. Backed(r)'
        BY <1>0, <2>1, <2>3, <3>1 DEF Backed, TypeOK, E, C
      <3> QED
        BY <1>3, <2>1, <3>1, <3>2 DEF Steps
    <2> QED
      BY <2>2, <2>3
  <1>6. ASSUME NEW r \in Requests, Compare(r) PROVE HandlersBacked'
    <2>1. E(r) \in Events /\ C(r) \in Contents /\ Backed(r)
      BY <1>0, <1>6, RequestTypes DEF Compare, HandlersBacked
    <2>2. CASE store[E(r)] # C(r)
      <3>1. \E status : Answer(r, status)
        BY <1>6, <2>2, Zenon DEF Compare
      <3> QED
        BY <1>2, <3>1
    <2>3. CASE store[E(r)] = C(r)
      <3>1. Goto(r, "is_published") /\ UNCHANGED req
        BY <1>6, <2>3, Zenon DEF Compare
      <3>2. Backed(r)'
        BY <1>0, <1>6, <2>1, <2>3, <3>1 DEF Compare, Backed, TypeOK, E, C, OnBus
      <3> QED
        BY <1>3, <3>1, <3>2 DEF Steps
    <2> QED
      BY <2>2, <2>3
  <1>7. ASSUME NEW r \in Requests, CheckPublished(r) PROVE HandlersBacked'
    <2>1. E(r) \in Events /\ C(r) \in Contents /\ Backed(r)
      BY <1>0, <1>7, RequestTypes DEF CheckPublished, HandlersBacked
    <2>2. CASE E(r) \in published
      <3>1. \E status : Answer(r, status)
        BY <1>7, <2>2, Zenon DEF CheckPublished
      <3> QED
        BY <1>2, <3>1
    <2>3. CASE E(r) \notin published
      <3>1. Goto(r, "observe") /\ UNCHANGED req
        BY <1>7, <2>3, Zenon DEF CheckPublished
      <3>2. Backed(r)'
        BY <1>0, <1>7, <2>1, <2>3, <3>1 DEF CheckPublished, Backed, TypeOK, E, C, OnBus
      <3> QED
        BY <1>3, <3>1, <3>2 DEF Steps
    <2> QED
      BY <2>2, <2>3
  <1>8. ASSUME NEW r \in Requests, ObserveOrder(r) PROVE HandlersBacked'
    <2>1. E(r) \in Events /\ C(r) \in Contents /\ Backed(r)
      BY <1>0, <1>8, RequestTypes DEF ObserveOrder, HandlersBacked
    <2>2. Goto(r, "project") /\ UNCHANGED req /\ pc'[r] = "project"
      BY <1>0, <1>8 DEF ObserveOrder, TypeOK
    <2>3. Backed(r)'
      BY <1>0, <1>8, <2>1, <2>2, Monotone DEF ObserveOrder, Backed, E, C, TypeOK, OnBus
    <2> QED
      BY <1>3, <2>2, <2>3 DEF Steps
  <1>9. ASSUME NEW r \in Requests, ProjectInventory(r) PROVE HandlersBacked'
    <2>1. E(r) \in Events /\ C(r) \in Contents /\ Backed(r)
      BY <1>0, <1>9, RequestTypes DEF ProjectInventory, HandlersBacked
    <2>2. Goto(r, "twin") /\ UNCHANGED req /\ pc'[r] = "twin"
      BY <1>0, <1>9 DEF ProjectInventory, TypeOK
    <2>3. Backed(r)'
      BY <1>0, <1>9, <2>1, <2>2, Monotone DEF ProjectInventory, Backed, E, C, TypeOK, OnBus
    <2> QED
      BY <1>3, <2>2, <2>3 DEF Steps
  <1>10. ASSUME NEW r \in Requests, ProjectTwin(r) PROVE HandlersBacked'
    <2>1. E(r) \in Events /\ C(r) \in Contents /\ Backed(r)
      BY <1>0, <1>10, RequestTypes DEF ProjectTwin, HandlersBacked
    <2>2. Goto(r, "publish") /\ UNCHANGED req /\ pc'[r] = "publish"
      BY <1>0, <1>10 DEF ProjectTwin, TypeOK
    <2>3. Backed(r)'
      BY <1>0, <1>10, <2>1, <2>2, Monotone DEF ProjectTwin, Backed, E, C, TypeOK, OnBus
    <2> QED
      BY <1>3, <2>2, <2>3 DEF Steps
  <1>11. ASSUME NEW r \in Requests, Publish(r) PROVE HandlersBacked'
    <2>1. E(r) \in Events /\ C(r) \in Contents /\ Backed(r)
      BY <1>0, <1>11, RequestTypes DEF Publish, HandlersBacked
    <2>2. Goto(r, "mark") /\ UNCHANGED req /\ pc'[r] = "mark"
      BY <1>0, <1>11 DEF Publish, TypeOK
    <2>a. OnBus(E(r), C(r))'
      <3>1. req[r] = [event |-> E(r), content |-> C(r)] /\ req[r] \in Message
        BY <1>0, <1>11, RequestTypes DEF Publish, Message, E, C
      <3>2. Len(bus') = Len(bus) + 1 /\ bus'[Len(bus) + 1] = req[r]
        BY <1>0, <1>11, <3>1, AppendKeeps DEF Publish, TypeOK
      <3>3. Len(bus) + 1 \in 1..Len(bus')
        BY <1>0, <3>2 DEF TypeOK
      <3>4. bus'[Len(bus) + 1] = [event |-> E(r)', content |-> C(r)']
        BY <2>2, <3>1, <3>2 DEF E, C
      <3> QED
        BY <3>3, <3>4 DEF OnBus
    <2>3. Backed(r)'
      BY <1>0, <1>11, <2>1, <2>2, <2>a, Monotone DEF Publish, Backed, E, C, TypeOK, OnBus
    <2> QED
      BY <1>3, <2>2, <2>3 DEF Steps
  <1>12. ASSUME NEW r \in Requests, MarkPublished(r) PROVE HandlersBacked'
    <2>1. E(r) \in Events /\ C(r) \in Contents /\ Backed(r)
      BY <1>0, <1>12, RequestTypes DEF MarkPublished, HandlersBacked
    <2>2. CASE r \in Queued
      <3>1. \E status : Answer(r, status)
        BY <1>12, <2>2, Zenon DEF MarkPublished
      <3> QED
        BY <1>2, <3>1
    <2>3. CASE r \notin Queued
      <3>1. Goto(r, "cascade") /\ UNCHANGED req
        BY <1>12, <2>3, Zenon DEF MarkPublished
      <3>2. Backed(r)'
        <4>1. /\ At(r, "mark") /\ published' = published \cup {E(r)}
              /\ UNCHANGED <<store, bus, observed, receipts>>
          BY <1>12, Zenon DEF MarkPublished
        <4> QED
          BY <1>0, <2>1, <3>1, <4>1 DEF Backed, TypeOK, E, C, OnBus
      <3> QED
        BY <1>3, <3>1, <3>2 DEF Steps
    <2> QED
      BY <2>2, <2>3
  <1>13. ASSUME NEW r \in Requests, CascadeForEvent(r) \/ Abort(r) PROVE HandlersBacked'
    BY <1>2, <1>13 DEF CascadeForEvent, Abort
  <1>14. CASE UNCHANGED vars
    BY <1>1, <1>14 DEF vars, HandlersBacked
  <1> QED
    BY <1>4, <1>5, <1>6, <1>7, <1>8, <1>9, <1>10, <1>11, <1>12, <1>13, <1>14
       DEF Next, RecordPipelineEvent

\* One content per id, also across Publish: the handler's content is the stored one.
LEMMA OneContentStep ==
    ASSUME IngestInv, [Next]_vars PROVE OneContentPerEvent'
  <1>0. TypeOK /\ HandlersBacked /\ OneContentPerEvent
    BY DEF IngestInv
  <1>1. CASE bus' = bus
    <2>1. \A i \in 1..Len(bus) : bus[i] \in Message /\ store[bus[i].event] # None
      <3>1. \A i \in 1..Len(bus) : bus[i] \in Message
        BY <1>0 DEF TypeOK
      <3>2. \A m \in Message : m.content \in Contents /\ m.content # None
        BY IngestAssumption DEF Message
      <3> QED
        BY <1>0, <3>1, <3>2 DEF OneContentPerEvent
    <2> QED
      <3>1. \A i \in 1..Len(bus) : bus[i].event \in Events
        BY <2>1 DEF Message
      <3>2. \A i \in 1..Len(bus) : store'[bus[i].event] = store[bus[i].event]
        BY <2>1, <3>1, Monotone
      <3> QED
        BY <1>0, <1>1, <3>2 DEF OneContentPerEvent
  <1>2. ASSUME NEW r \in Requests, Publish(r) PROVE OneContentPerEvent'
    <2>1. req[r] \in Message /\ store[req[r].event] = req[r].content /\ store' = store
      BY <1>0, <1>2, RequestTypes
         DEF Publish, At, HandlersBacked, Backed, Recorded, E, C, storeVars
    <2>2. /\ Len(bus') = Len(bus) + 1 /\ bus'[Len(bus) + 1] = req[r]
          /\ \A i \in 1..Len(bus) : bus'[i] = bus[i]
      BY <1>0, <1>2, <2>1, AppendKeeps DEF Publish, TypeOK
    <2>3. \A i \in 1..Len(bus') : i \in 1..Len(bus) \/ i = Len(bus) + 1
      BY <1>0, <2>2 DEF TypeOK
    <2> QED
      BY <1>0, <2>1, <2>2, <2>3 DEF OneContentPerEvent
  <1>3. bus' = bus \/ \E r \in Requests : Publish(r)
    BY DEF Next, RecordPipelineEvent, Submit, Record, Compare, CheckPublished, ObserveOrder,
       ProjectInventory, ProjectTwin, MarkPublished, CascadeForEvent, Abort, vars
  <1> QED
    BY <1>1, <1>2, <1>3

\* The flag is set only by a handler whose calls are all done.
LEMMA PublishedStep ==
    ASSUME IngestInv, [Next]_vars PROVE PublishedIsComplete'
  <1>0. TypeOK /\ HandlersBacked /\ PublishedIsComplete
    BY DEF IngestInv
  <1>1. ASSUME NEW e \in Events, OnBus(e, store[e]), e \in observed, e \in receipts
        PROVE  OnBus(e, store[e])' /\ e \in observed' /\ e \in receipts'
    <2>1. store[e] # None
      BY <1>0, <1>1, IngestAssumption DEF OnBus, TypeOK, Message
    <2>2. store'[e] = store[e]
      BY <1>1, <2>1, Monotone
    <2>3. \A c : OnBus(e, c) => OnBus(e, c)'
      BY <1>0, Monotone, OnBusKept
    <2> QED
      BY <1>1, <2>2, <2>3, Monotone DEF OnBus
  <1>2. ASSUME NEW e \in published' PROVE e \in Events /\ OnBus(e, store[e]) /\ e \in observed /\ e \in receipts
    <2>1. CASE e \in published
      BY <1>0, <2>1 DEF PublishedIsComplete, TypeOK
    <2>2. ASSUME NEW r \in Requests, MarkPublished(r), e = E(r)
          PROVE  e \in Events /\ OnBus(e, store[e]) /\ e \in observed /\ e \in receipts
      <3>1. At(r, "mark")
        BY <2>2, Zenon DEF MarkPublished
      <3> QED
        BY <1>0, <2>2, <3>1, RequestTypes
           DEF At, HandlersBacked, Backed, Recorded, Observed, Projected, Enqueued
    <2>3. e \in published \/ \E r \in Requests : MarkPublished(r) /\ e = E(r)
      BY <1>2, Zenon DEF Next, RecordPipelineEvent, Submit, Record, Compare, CheckPublished,
         ObserveOrder, ProjectInventory, ProjectTwin, Publish, MarkPublished,
         CascadeForEvent, Abort, vars, storeVars
    <2> QED
      BY <2>1, <2>2, <2>3
  <1> QED
    BY <1>1, <1>2 DEF PublishedIsComplete

\* Every answer given so far stays justified, and a new one is when it is given.
LEMMA AnswersStep ==
    ASSUME IngestInv, [Next]_vars PROVE AnswersSound'
  <1> DEFINE Just(a) == /\ a.status \in {"accepted", "cascaded", "duplicate"} =>
                             store'[a.event] = a.content /\ a.event \in published'
                        /\ a.status = "conflict" => store'[a.event] \in Contents \ {a.content}
  <1>0. TypeOK /\ HandlersBacked /\ AnswersSound
    BY DEF IngestInv
  <1>1. \A a \in answers : Just(a)
    <2>1. \A a \in answers : a.event \in Events /\ a.content \in Contents
      BY <1>0 DEF TypeOK
    <2>2. \A a \in answers : a.status \in {"accepted", "cascaded", "duplicate", "conflict"} => store[a.event] # None
      BY <1>0, <2>1, IngestAssumption DEF AnswersSound
    <2> QED
      BY <1>0, <2>1, <2>2, Monotone DEF AnswersSound
  <1>2. ASSUME NEW r \in Requests, NEW status, Answer(r, status), Just([event |-> E(r), content |-> C(r), status |-> status])
        PROVE  AnswersSound'
    BY <1>1, <1>2 DEF Answer, AnswersSound
  <1>3. ASSUME UNCHANGED answers PROVE AnswersSound'
    BY <1>1, <1>3 DEF AnswersSound
  <1> HIDE DEF Just
  <1>4. ASSUME NEW r \in Requests, Compare(r) PROVE AnswersSound'
    <2>1. CASE store[E(r)] = C(r)
      BY <1>3, <1>4, <2>1, Zenon DEF Compare
    <2>2. CASE store[E(r)] # C(r)
      <3>1. store[E(r)] \in Contents /\ store' = store
        BY <1>0, <1>4, RequestTypes, IngestAssumption
           DEF Compare, At, HandlersBacked, Backed, TypeOK, storeVars
      <3>2. Just([event |-> E(r), content |-> C(r), status |-> "conflict"])
        BY <2>2, <3>1 DEF Just
      <3>3. Answer(r, "conflict")
        BY <1>4, <2>2 DEF Compare
      <3> QED
        BY <1>2, <3>2, <3>3
    <2> QED
      BY <2>1, <2>2
  <1>5. ASSUME NEW r \in Requests, CheckPublished(r) PROVE AnswersSound'
    <2>1. CASE E(r) \notin published
      BY <1>3, <1>5, <2>1, Zenon DEF CheckPublished
    <2>2. CASE E(r) \in published
      <3>1. store[E(r)] = C(r) /\ store' = store /\ published' = published
        BY <1>0, <1>5 DEF CheckPublished, At, HandlersBacked, Backed, Recorded, storeVars
      <3>2. Just([event |-> E(r), content |-> C(r), status |-> "duplicate"])
        BY <2>2, <3>1 DEF Just
      <3>3. Answer(r, "duplicate")
        BY <1>5, <2>2 DEF CheckPublished
      <3> QED
        BY <1>2, <3>2, <3>3
    <2> QED
      BY <2>1, <2>2
  <1>6. ASSUME NEW r \in Requests, MarkPublished(r) PROVE AnswersSound'
    <2>1. CASE r \notin Queued
      BY <1>3, <1>6, <2>1, Zenon DEF MarkPublished
    <2>2. CASE r \in Queued
      <3>1. At(r, "mark") /\ store' = store /\ published' = published \cup {E(r)} /\ Answer(r, "accepted")
        BY <1>6, <2>2, Zenon DEF MarkPublished
      <3>2. Just([event |-> E(r), content |-> C(r), status |-> "accepted"])
        BY <1>0, <3>1 DEF Just, At, HandlersBacked, Backed, Recorded
      <3> QED
        BY <1>2, <3>1, <3>2
    <2> QED
      BY <2>1, <2>2
  <1>7. ASSUME NEW r \in Requests, CascadeForEvent(r) PROVE AnswersSound'
    <2>1. At(r, "cascade") /\ store' = store /\ published' = published /\ Answer(r, "cascaded")
      BY <1>7 DEF CascadeForEvent, storeVars
    <2>2. Just([event |-> E(r), content |-> C(r), status |-> "cascaded"])
      BY <1>0, <2>1 DEF Just, At, HandlersBacked, Backed, Recorded
    <2> QED
      BY <1>2, <2>1, <2>2
  <1>8. ASSUME NEW r \in Requests, Abort(r) PROVE AnswersSound'
    <2>1. \A s \in {"error", "cascade_error"} : Just([event |-> E(r), content |-> C(r), status |-> s])
      BY DEF Just
    <2>2. \E s \in {"error", "cascade_error"} : Answer(r, s)
      BY <1>8 DEF Abort
    <2> QED
      BY <1>2, <2>1, <2>2
  <1> QED
    BY <1>3, <1>4, <1>5, <1>6, <1>7, <1>8
       DEF Next, RecordPipelineEvent, Submit, Record, ObserveOrder,
           ProjectInventory, ProjectTwin, Publish, vars

\* The receipt makes the ledger move once.
LEMMA InventoryStep ==
    ASSUME IngestInv, [Next]_vars PROVE InventoryMovedOnce'
  <1>0. TypeOK /\ InventoryMovedOnce
    BY DEF IngestInv
  <1>1. InventoryMovedOnce'
    <2>1. ASSUME NEW r \in Requests, ProjectInventory(r) PROVE InventoryMovedOnce'
      BY <1>0, <2>1, RequestTypes DEF ProjectInventory, At, InventoryMovedOnce, TypeOK
    <2>2. ASSUME UNCHANGED <<receipts, applied>> PROVE InventoryMovedOnce'
      BY <1>0, <2>2 DEF InventoryMovedOnce
    <2> QED
      BY <2>1, <2>2 DEF Next, RecordPipelineEvent, Submit, Record, Compare, CheckPublished,
         ObserveOrder, ProjectTwin, Publish, MarkPublished, CascadeForEvent, Abort, vars,
         effectVars
  <1> QED
    BY <1>1

\* A debt moves with the handler that has it: to the worker or the client it answers, to
\* its decision, or to the error it ends in; nobody else can cancel it.
LEMMA OwedStep ==
    ASSUME IngestInv, [Next]_vars PROVE CascadesAreOwed'
  <1> USE DEF storeVars, effectVars
  <1> DEFINE Told(e) == \E a \in answers : a.event = e /\ a.status \in {"accepted", "cascade_error"}
             Due(e) == \E r \in Requests : At(r, "cascade") /\ E(r) = e
  <1>0. TypeOK /\ TypeOK' /\ CascadesAreOwed
    BY TypeStep DEF IngestInv
  <1>1. answers \subseteq answers'
    BY DEF Next, RecordPipelineEvent, Submit, Record, Compare, CheckPublished, ObserveOrder,
       ProjectInventory, ProjectTwin, Publish, MarkPublished, CascadeForEvent, Abort, vars, Answer
  <1>2. \A e : Told(e) => Told(e)'
    BY <1>1
  <1>3. \A e : e \in decisions => e \in decisions'
    BY Monotone
  <1>a. ASSUME NEW r \in Requests, NEW status \in {"accepted", "cascade_error"}, Answer(r, status),
               NEW e, E(r) = e
        PROVE  Told(e)'
    <2>1. PICK told : told = [event |-> e, content |-> C(r), status |-> status]
      OBVIOUS
    <2>2. told \in answers' /\ told.event = e /\ told.status = status
      BY <1>a, <2>1 DEF Answer
    <2> QED
      BY <2>2
  \* A handler that is at its cascade stays there, runs it, or fails in it.
  <1>4. ASSUME NEW e \in Actionable, Due(e) PROVE e \in decisions' \/ Due(e)' \/ Told(e)'
    <2>1. PICK r \in Requests : At(r, "cascade") /\ E(r) = e
      BY <1>4
    <2>2. CASE CascadeForEvent(r)
      BY <2>1, <2>2 DEF CascadeForEvent
    <2>3. CASE Abort(r)
      <3>1. Answer(r, "cascade_error")
        BY <2>1, <2>3 DEF Abort
      <3> QED
        BY <1>a, <2>1, <3>1
    <2>4. CASE pc'[r] = pc[r] /\ req'[r] = req[r]
      BY <2>1, <2>4 DEF At, E
    <2>5. (pc'[r] = pc[r] /\ req'[r] = req[r]) \/ CascadeForEvent(r) \/ Abort(r)
      <3>1. CASE UNCHANGED vars
        BY <3>1 DEF vars
      <3>2. ASSUME NEW q \in Requests, NEW d, NEW c, Submit(q, d, c)
            PROVE  pc'[r] = pc[r] /\ req'[r] = req[r]
        BY <1>0, <2>1, <3>2 DEF Submit, Goto, At, TypeOK
      <3>3. ASSUME NEW q \in Requests \ {r}, RecordPipelineEvent(q) \/ Abort(q)
            PROVE  pc'[r] = pc[r] /\ req'[r] = req[r]
        BY <1>0, <3>3 DEF RecordPipelineEvent, Record, Compare, CheckPublished, ObserveOrder,
           ProjectInventory, ProjectTwin, Publish, MarkPublished, CascadeForEvent, Abort, Answer, Goto, TypeOK
      <3>4. RecordPipelineEvent(r) => CascadeForEvent(r)
        BY <2>1 DEF RecordPipelineEvent, Record, Compare, CheckPublished, ObserveOrder,
           ProjectInventory, ProjectTwin, Publish, MarkPublished, At
      <3> QED
        BY <3>1, <3>2, <3>3, <3>4 DEF Next
    <2> QED
      BY <2>2, <2>3, <2>4, <2>5
  \* Whoever publishes an event either leaves it to a worker or goes on to its cascade.
  <1>5. ASSUME NEW e \in Actionable, e \in published', e \notin published PROVE Due(e)' \/ Told(e)'
    <2>1. PICK r \in Requests : MarkPublished(r) /\ e = E(r)
      BY <1>5, Zenon DEF Next, RecordPipelineEvent, Submit, Record, Compare, CheckPublished,
         ObserveOrder, ProjectInventory, ProjectTwin, Publish, MarkPublished,
         CascadeForEvent, Abort, vars
    <2>2. CASE r \in Queued
      <3>1. Answer(r, "accepted")
        BY <2>1, <2>2, Zenon DEF MarkPublished
      <3> QED
        BY <1>a, <2>1, <3>1
    <2>3. CASE r \notin Queued
      <3>1. Goto(r, "cascade") /\ UNCHANGED req
        BY <2>1, <2>3, Zenon DEF MarkPublished
      <3> QED
        BY <1>0, <2>1, <3>1 DEF Goto, At, E, TypeOK
    <2> QED
      BY <2>2, <2>3
  <1>6. ASSUME NEW e \in Actionable, e \in published' PROVE e \in decisions' \/ Due(e)' \/ Told(e)'
    <2>1. CASE e \in published
      <3>1. e \in decisions \/ Due(e) \/ Told(e)
        BY <1>0, <1>6, <2>1 DEF CascadesAreOwed
      <3> QED
        BY <1>2, <1>3, <1>4, <3>1
    <2> QED
      BY <1>5, <1>6, <2>1
  <1> QED
    BY <1>6 DEF CascadesAreOwed

-----------------------------------------------------------------------------
\* Type correctness of the intake spine.
THEOREM TypeCorrect == Spec => []TypeOK
  <1>1. Init => TypeOK
    BY InitInv DEF IngestInv
  <1> QED
    BY <1>1, TypeStep, PTL DEF Spec

\* The inductive invariant: handlers are backed by what they committed, and the
\* store, the bus, the flags, the ledgers and the clients' answers agree.
THEOREM IngestInvariant == Spec => []IngestInv
  <1>1. IngestInv /\ [Next]_vars => IngestInv'
    <2> SUFFICES ASSUME IngestInv, [Next]_vars PROVE IngestInv'
      OBVIOUS
    <2>1. TypeOK'
      BY TypeStep DEF IngestInv
    <2> QED
      BY <2>1, HandlersStep, OneContentStep, PublishedStep, AnswersStep, InventoryStep, OwedStep
         DEF IngestInv
  <1> QED
    BY <1>1, InitInv, PTL DEF Spec

\* A client told "accepted", "cascaded" or "duplicate" may forget its event, whatever other
\* handlers and crashes did meanwhile (record_pipeline_event's two returns).
THEOREM AnswersAreSound == Spec => []AnswersSound
  BY IngestInvariant, PTL DEF IngestInv

\* The published flag vouches for the bus and for both ledgers.
THEOREM PublishedComplete == Spec => []PublishedIsComplete
  BY IngestInvariant, PTL DEF IngestInv

\* Racing producers of one id put one content on the bus.
THEOREM OneContent == Spec => []OneContentPerEvent
  BY IngestInvariant, PTL DEF IngestInv

\* At-least-once submission moves the inventory ledger at most once.
THEOREM InventoryOnce == Spec => []InventoryMovedOnce
  BY IngestInvariant, PTL DEF IngestInv

\* No interleaving of requests loses a cascade: a published event is decided, about to be,
\* left to a worker, or its own request failed in the cascade (record_pipeline_event).
THEOREM CascadesStayOwed == Spec => []CascadesAreOwed
  BY IngestInvariant, PTL DEF IngestInv

\* event_store rows are written once and published flags are never taken back.
THEOREM StoreAppendOnly == Spec => StoreIsAppendOnly
  <1>1. IngestInv /\ [Next]_vars =>
           [ /\ \A e \in Events : store[e] # None => store'[e] = store[e]
             /\ published \subseteq published' ]_vars
    BY Monotone
  <1> QED
    BY <1>1, IngestInvariant, PTL DEF Spec, StoreIsAppendOnly


-----------------------------------------------------------------------------
(* The full-system campaign (FullSystemRun). *)

CONSTANTS Cycles, EventsPerCycle, FaultRate, RateUnit, ChatEvery, AgenticEvery, DissentEvery,
          LiveRequired, Blackout, Probes, Ids, MaxWrong
VARIABLES at, cycle, sample, faults, counts, chats, dark, captured, trail, pilot, features, failed,
          report, wrong

Campaign == INSTANCE FullSystemRun WITH event <- sample

\* The phases of a cycle, and those after the rotation.
InCycle == {"ingest", "chat", "periodic", "blackout"}
Rotated == {"demos", "probes", "agentic", "hitl", "writeback", "chat_feature", "report"}
Tracks == {"world", "deterministic", "agentic"}
Verdicts == {"approve", "reject", "hold", "duplicate"}

\* The variables have their types: a cycle is one of the rotation's, which is through when
\* the run goes on, and there is no report before the end.
CampaignTyped ==
    /\ Campaign!TypeOK
    /\ at \in {"worker", "cycle", "interrupted", "done"} \union InCycle \union Rotated
    /\ at \in InCycle => cycle < Cycles
    /\ at \in Rotated => cycle = Cycles
    /\ at = "agentic" => LiveRequired
    /\ at # "done" => report = "none"
    /\ at = "interrupted" => failed # {}
    /\ faults = [acc |-> faults.acc, turn |-> faults.turn, kinds |-> faults.kinds,
                 injected |-> faults.injected, rejected |-> faults.rejected,
                 original |-> faults.original]
    /\ faults.injected \in Nat /\ faults.rejected \in Nat
    /\ counts \in [submitted : Nat, accepted : Nat, ingested : Nat]
    /\ chats \in [calls : Nat, model : Nat, offline : Nat, errors : Nat]
    /\ chats.calls = chats.model + chats.offline + chats.errors
    /\ dark \in [done : BOOLEAN, since : Nat, pending : BOOLEAN]
    /\ pilot \in [approvable : Nat, dissent : Nat]
    /\ captured \in Seq([id : Ids, track : Tracks])
    /\ trail \in Seq([id : Ids, track : Tracks, action : Verdicts, matched : BOOLEAN])

\* The events of the cycle under way.
Sent == IF at = "ingest" THEN sample ELSE 0

\* As long as nothing failed, no cycle was given up: faults are their share of what was
\* sent, and what was accepted is no more than the rest.
SharesKept ==
    failed = {} =>
      /\ RateUnit * faults.injected + faults.acc = FaultRate * (counts.submitted + Sent)
      /\ counts.accepted + counts.ingested + faults.injected <= counts.submitted + Sent
      /\ at # "ingest" => counts.ingested = 0

\* The autopilot has dissented as often as it had to.
DissentShare ==
    DissentEvery > 0 =>
      /\ pilot.dissent * DissentEvery <= pilot.approvable
      /\ pilot.approvable < (pilot.dissent + 1) * DissentEvery

\* As long as nothing failed, a blackout that is not recovered from is of the cycle before,
\* and the next question is still to come, unless there is no cycle left.
DarkKept ==
    /\ dark.pending => dark.done
    /\ failed = {} =>
         /\ dark.done /\ ~dark.pending => <<"inference_blackout", TRUE>> \in features
         /\ dark.pending => /\ cycle = dark.since + 1
                            /\ at \in {"cycle", "ingest", "chat"} \/ cycle = Cycles

\* What was resolved is what was captured, in order, and the agentic decision is the last.
TrailKept ==
    /\ Len(trail) <= Len(captured)
    /\ \A i \in DOMAIN trail : trail[i].id = captured[i].id /\ trail[i].track = captured[i].track
    /\ \A i, j \in DOMAIN captured : i < j => captured[i].track # "agentic"
    /\ at \in {"worker", "cycle", "demos", "probes", "agentic"} \union InCycle =>
          \A i \in DOMAIN captured : captured[i].track # "agentic"
    /\ at \in {"writeback", "chat_feature", "report"} => Len(trail) = Len(captured)

\* A receipt that passed says what was so when it was written, and still is.
ReceiptsTrue ==
    /\ <<"world_event_stream", TRUE>> \in features =>
          /\ at \in Rotated \union {"interrupted", "done"}
          /\ counts.accepted = counts.submitted - faults.injected
    /\ <<"chat_inference", TRUE>> \in features =>
          at \in {"report", "interrupted", "done"} /\ chats.errors = 0
    /\ <<"agentic_workflows", TRUE>> \in features =>
          at \in {"hitl", "writeback", "chat_feature", "report", "interrupted", "done"}
    /\ <<"writeback", TRUE>> \in features =>
          at \in {"chat_feature", "report", "interrupted", "done"}
    /\ <<"worker_retry_dlq", TRUE>> \in features => at # "worker"

\* A probe failed, of which no receipt says that it passed.
ProbeFailed == \E f \in Probes : <<f, FALSE>> \in features /\ <<f, TRUE>> \notin features

\* What stays on record of a wrong answer that was no failure.
OnRecord ==
    \/ at # "worker" /\ <<"worker_retry_dlq", TRUE>> \notin features
    \/ counts.accepted + counts.ingested + faults.injected < counts.submitted + Sent
    \/ chats.errors > 0
    \/ LiveRequired /\ chats.model # chats.calls
    \/ ProbeFailed
    \/ /\ LiveRequired /\ at \in {"hitl", "writeback", "chat_feature", "report", "done"}
       /\ <<"agentic_workflows", TRUE>> \notin features
    \/ Campaign!Mismatched # {}
    \/ /\ at \in {"chat_feature", "report", "done"}
       /\ <<"writeback", TRUE>> \notin features

WrongsOnRecord == failed = {} /\ wrong # {} => OnRecord

\* A report that passed was made at the end of the run, by its audit.
ReportKept ==
    report = "passed" =>
      /\ failed = {} /\ Campaign!audit_full_system_integrity = {}
      /\ at = "done" /\ cycle = Cycles /\ Len(trail) = Len(captured)

\* The inductive invariant.
CampaignInv ==
    /\ CampaignTyped /\ SharesKept /\ DissentShare /\ DarkKept /\ TrailKept /\ ReceiptsTrue
    /\ WrongsOnRecord /\ ReportKept



\* What __post_init__ checks, constant by constant.
LEMMA CampaignNumbers ==
    ASSUME Campaign!ConfigAssumption
    PROVE  /\ Cycles \in Nat /\ Cycles > 0 /\ EventsPerCycle \in Nat /\ EventsPerCycle > 0
           /\ DissentEvery \in Nat /\ RateUnit \in Nat /\ RateUnit > 0
           /\ FaultRate \in 0 .. RateUnit
           /\ LiveRequired \in BOOLEAN
           /\ \A f \in Probes : f \notin Campaign!OwnReceipts
  BY DEF Campaign!ConfigAssumption

\* The counters of a run, and where its cycle stands in the rotation.
LEMMA CampaignCounts ==
    ASSUME Campaign!ConfigAssumption, CampaignInv
    PROVE  /\ cycle \in Nat /\ Cycles \in Nat /\ cycle <= Cycles
           /\ sample \in Nat /\ EventsPerCycle \in Nat /\ EventsPerCycle > 0
           /\ sample <= EventsPerCycle
           /\ at \in InCycle => cycle < Cycles
           /\ at \in Rotated => cycle = Cycles
           /\ RateUnit \in Nat /\ faults.acc \in 0 .. RateUnit
           /\ faults.injected \in Nat /\ faults.rejected \in Nat
           /\ faults.rejected <= faults.injected
           /\ counts.submitted \in Nat /\ counts.accepted \in Nat /\ counts.ingested \in Nat
           /\ chats.calls \in Nat /\ chats.model \in Nat /\ chats.offline \in Nat
           /\ chats.errors \in Nat /\ chats.calls = chats.model + chats.offline + chats.errors
  BY CampaignNumbers DEF CampaignInv, CampaignTyped, Campaign!TypeOK

\* The rate of one more event.
LEMMA RateNext ==
    ASSUME Campaign!ConfigAssumption, NEW n \in Nat
    PROVE  /\ FaultRate * (n + 1) = FaultRate * n + FaultRate
           /\ FaultRate * n \in Nat
  <1>1. FaultRate \in Nat
    BY CampaignNumbers
  <1> QED
    BY <1>1

\* One more fault accounts for one more whole.
LEMMA FaultNext ==
    ASSUME NEW unit \in Nat, NEW n \in Nat
    PROVE  unit * (n + 1) = unit * n + unit /\ unit * n \in Nat
  OBVIOUS

\* Division, as a number between two multiples.
LEMMA Division ==
    ASSUME NEW n \in Nat, NEW d \in Nat, d > 0
    PROVE  /\ n \div d \in Nat /\ n % d \in 0 .. d - 1
           /\ n = d * (n \div d) + (n % d)
  OBVIOUS

\* A quotient is the one number whose multiple is next below.
LEMMA Quotient ==
    ASSUME NEW n \in Nat, NEW d \in Nat, d > 0, NEW q \in Nat, q * d <= n, n < (q + 1) * d
    PROVE  n \div d = q
  <1> DEFINE p == n \div d
  <1>1. p \in Nat /\ d * p <= n /\ n < d * p + d
    BY Division
  <1> HIDE DEF p
  <1>2. CASE p < q
    <2>1. d * (p + 1) <= d * q
      BY <1>1, <1>2
    <2> QED
      BY <1>1, <2>1
  <1>3. CASE p > q
    <2>1. d * (q + 1) <= d * p
      BY <1>1, <1>3
    <2> QED
      BY <1>1, <2>1
  <1>4. p = q
    BY <1>1, <1>2, <1>3
  <1> QED
    BY <1>4 DEF p

\* A probe that failed stays so, whatever receipt of its own the run writes.
LEMMA OwnReceipt ==
    ASSUME Campaign!ConfigAssumption, NEW feature \in Campaign!OwnReceipts, NEW passed \in BOOLEAN,
           Campaign!Receipt(feature, passed), ProbeFailed
    PROVE  ProbeFailed'
  <1>1. PICK f \in Probes : <<f, FALSE>> \in features /\ <<f, TRUE>> \notin features
    BY DEF ProbeFailed
  <1>2. f # feature
    BY CampaignNumbers
  <1>3. features' = features \union {<<feature, passed>>}
    BY DEF Campaign!Receipt
  <1> QED
    BY <1>1, <1>2, <1>3 DEF ProbeFailed

\* The next number is a multiple of d only where the next multiple is.
LEMMA NextMultiple ==
    ASSUME NEW n \in Nat, NEW d \in Nat, d > 0, NEW q \in Nat, q * d <= n, n < (q + 1) * d
    PROVE  (n + 1) % d = 0 <=> n + 1 = (q + 1) * d
  <1> DEFINE p == (n + 1) \div d
             r == (n + 1) % d
  <1>1. p \in Nat /\ r \in 0 .. d - 1 /\ n + 1 = d * p + r
    BY Division
  <1> HIDE DEF p, r
  <1>2. (q + 1) * d = q * d + d /\ q * d \in Nat
    OBVIOUS
  <1>3. ASSUME r = 0 PROVE n + 1 = (q + 1) * d
    <2>1. p > q
      <3>1. CASE p <= q
        <4>1. d * p <= d * q
          BY <1>1, <3>1
        <4> QED
          BY <1>1, <1>3, <4>1
      <3> QED
        BY <1>1, <3>1
    <2>2. d * p >= d * (q + 1)
      BY <1>1, <2>1
    <2> QED
      BY <1>1, <1>2, <1>3, <2>2
  <1>4. ASSUME n + 1 = (q + 1) * d PROVE r = 0
    <2>1. p = q + 1
      BY <1>4, Quotient, <1>1, Division DEF p
    <2> QED
      BY <1>1, <1>4, <2>1
  <1> QED
    BY <1>3, <1>4 DEF r

\* The worker probe keeps the invariant (_probe_worker_retry_dlq).
LEMMA ProbeWorkerKeeps ==
    ASSUME Campaign!ConfigAssumption, CampaignInv, NEW good \in BOOLEAN,
           Campaign!ProbeWorker(good)
    PROVE  CampaignInv'
  <1>1. CampaignTyped'
    BY DEF CampaignInv, CampaignTyped, Campaign!TypeOK, InCycle, Rotated, Tracks, Verdicts,
       Campaign!ProbeWorker, Campaign!Go, Campaign!Blame, Campaign!Receipt, Campaign!worldVars,
       Campaign!humanVars, Campaign!ConfigAssumption
  <1>2. SharesKept'
    BY DEF CampaignInv, SharesKept, CampaignTyped, Campaign!TypeOK, Sent, Campaign!ProbeWorker,
       Campaign!Go, Campaign!Blame, Campaign!Receipt, Campaign!worldVars, Campaign!humanVars,
       Campaign!ConfigAssumption
  <1>3. DissentShare'
    BY DEF CampaignInv, DissentShare, Campaign!ProbeWorker, Campaign!Go, Campaign!Blame,
       Campaign!Receipt, Campaign!worldVars, Campaign!humanVars, Campaign!ConfigAssumption
  <1>4. DarkKept'
    BY DEF CampaignInv, DarkKept, CampaignTyped, InCycle, Rotated, Campaign!TypeOK,
       Campaign!OwnReceipts, Campaign!ProbeWorker, Campaign!Go, Campaign!Blame, Campaign!Receipt,
       Campaign!worldVars, Campaign!humanVars, Campaign!ConfigAssumption
  <1>5. TrailKept'
    BY DEF CampaignInv, TrailKept, CampaignTyped, InCycle, Campaign!ProbeWorker, Campaign!Go,
       Campaign!Blame, Campaign!Receipt, Campaign!worldVars, Campaign!humanVars,
       Campaign!ConfigAssumption
  <1>6. ReceiptsTrue'
    BY DEF CampaignInv, ReceiptsTrue, InCycle, Rotated, Campaign!OwnReceipts,
       Campaign!ProbeWorker, Campaign!Go, Campaign!Blame, Campaign!Receipt, Campaign!worldVars,
       Campaign!humanVars, Campaign!ConfigAssumption
  <1>7. WrongsOnRecord'
    <2>1. /\ at = "worker" /\ at' = "cycle" /\ failed' = failed
          /\ UNCHANGED <<sample, faults, counts, chats, trail>>
          /\ Campaign!Receipt("worker_retry_dlq", good) /\ (good => wrong' = wrong)
      BY DEF Campaign!ProbeWorker, Campaign!Go, Campaign!Blame, Campaign!Receipt,
         Campaign!worldVars, Campaign!humanVars
    <2>2. CASE OnRecord /\ good
      <3>1. ProbeFailed => ProbeFailed'
        BY <2>1, OwnReceipt DEF Campaign!OwnReceipts
      <3> QED
        BY <2>1, <2>2, <3>1 DEF OnRecord, WrongsOnRecord, Sent, Campaign!Mismatched
    <2>3. CASE ~good
      <3>1. <<"worker_retry_dlq", TRUE>> \notin features'
        BY <2>1, <2>3 DEF CampaignInv, ReceiptsTrue, Campaign!Receipt
      <3> QED
        BY <2>1, <3>1 DEF OnRecord, WrongsOnRecord
    <2> QED
      BY <2>1, <2>2, <2>3 DEF CampaignInv, WrongsOnRecord
  <1>8. ReportKept'
    BY DEF CampaignInv, ReportKept, CampaignTyped, Campaign!ProbeWorker, Campaign!Go,
       Campaign!Blame, Campaign!Receipt, Campaign!worldVars, Campaign!humanVars,
       Campaign!ConfigAssumption
  <1> QED
    BY <1>1, <1>2, <1>3, <1>4, <1>5, <1>6, <1>7, <1>8 DEF CampaignInv

\* So does the next world of the rotation (_drive_world_rotation).
LEMMA BeginCycleKeeps ==
    ASSUME Campaign!ConfigAssumption, CampaignInv,
           Campaign!BeginCycle
    PROVE  CampaignInv'
  <1>1. CampaignTyped'
    <2>1. /\ at' = "ingest" /\ sample' = 0 /\ cycle' = cycle /\ cycle < Cycles
          /\ counts' = [counts EXCEPT !.ingested = 0]
          /\ UNCHANGED <<faults, chats, dark, captured, trail, pilot, failed, report>>
      BY DEF Campaign!BeginCycle, Campaign!Go, Campaign!humanVars
    <2>2. counts' \in [submitted : Nat, accepted : Nat, ingested : Nat]
      BY <2>1 DEF CampaignInv, CampaignTyped
    <2>3. Campaign!TypeOK'
      BY <2>1, CampaignCounts DEF CampaignInv, CampaignTyped, Campaign!TypeOK
    <2>4. at # "done" /\ at' \in InCycle /\ at' \notin Rotated
      BY <2>1 DEF Campaign!BeginCycle, InCycle, Rotated
    <2> QED
      BY <2>1, <2>2, <2>3, <2>4 DEF CampaignInv, CampaignTyped
  <1>2. SharesKept'
    BY DEF CampaignInv, SharesKept, CampaignTyped, Campaign!TypeOK, Sent, Campaign!BeginCycle,
       Campaign!Go, Campaign!humanVars, Campaign!ConfigAssumption
  <1>3. DissentShare'
    BY DEF CampaignInv, DissentShare, Campaign!BeginCycle, Campaign!Go, Campaign!humanVars,
       Campaign!ConfigAssumption
  <1>4. DarkKept'
    BY DEF CampaignInv, DarkKept, CampaignTyped, InCycle, Rotated, Campaign!TypeOK,
       Campaign!OwnReceipts, Campaign!BeginCycle, Campaign!Go, Campaign!humanVars,
       Campaign!ConfigAssumption
  <1>5. TrailKept'
    BY DEF CampaignInv, TrailKept, CampaignTyped, InCycle, Campaign!BeginCycle, Campaign!Go,
       Campaign!humanVars, Campaign!ConfigAssumption
  <1>6. ReceiptsTrue'
    BY DEF CampaignInv, ReceiptsTrue, InCycle, Rotated, Campaign!OwnReceipts, Campaign!BeginCycle,
       Campaign!Go, Campaign!humanVars, Campaign!ConfigAssumption
  <1>7. WrongsOnRecord'
    <2>1. /\ at = "cycle" /\ at' = "ingest" /\ sample' = 0
          /\ counts' = [counts EXCEPT !.ingested = 0]
          /\ UNCHANGED <<faults, chats, trail, features, failed, wrong>>
      BY DEF Campaign!BeginCycle, Campaign!Go, Campaign!humanVars
    <2>2. counts \in [submitted : Nat, accepted : Nat, ingested : Nat]
      BY DEF CampaignInv, CampaignTyped
    <2>3. failed = {} => counts.ingested = 0
      BY <2>1 DEF CampaignInv, SharesKept
    <2>4. failed = {} /\ OnRecord => OnRecord'
      BY <2>1, <2>2, <2>3 DEF OnRecord, Sent, Campaign!Mismatched, ProbeFailed
    <2> QED
      BY <2>1, <2>4 DEF CampaignInv, WrongsOnRecord
  <1>8. ReportKept'
    BY DEF CampaignInv, ReportKept, CampaignTyped, Campaign!BeginCycle, Campaign!Go,
       Campaign!humanVars, Campaign!ConfigAssumption
  <1> QED
    BY <1>1, <1>2, <1>3, <1>4, <1>5, <1>6, <1>7, <1>8 DEF CampaignInv

\* An event of the sample adds its part of the rate to what is carried on (_ingest_world_sample).
LEMMA IngestEventKeeps ==
    ASSUME Campaign!ConfigAssumption, CampaignInv, NEW good \in BOOLEAN,
           Campaign!IngestEvent(good)
    PROVE  CampaignInv'
  <1> DEFINE one == IF good THEN 1 ELSE 0
             acc == faults.acc + FaultRate
             original == faults.original \/ good
  <1>1. /\ at = "ingest" /\ at' = at /\ sample < EventsPerCycle /\ sample' = sample + 1
        /\ acc < RateUnit \/ acc = RateUnit
        /\ UNCHANGED <<cycle, chats, dark, trail, pilot, features, failed, report>>
    BY DEF Campaign!IngestEvent, Campaign!MaySpare, Campaign!Accumulated, Campaign!Blame
  <1>2. /\ faults' = [faults EXCEPT !.acc = acc, !.original = original]
        /\ counts' = [counts EXCEPT !.ingested = counts.ingested + one]
        /\ wrong' = wrong \union (IF good THEN {} ELSE {"event"})
    BY DEF Campaign!IngestEvent, Campaign!Accumulated, Campaign!Blame
  <1>3. \/ captured' = captured
        \/ \E id \in Ids : captured = <<>> /\ captured' = <<[id |-> id, track |-> "world"]>>
    BY DEF Campaign!IngestEvent
  <1>4. one \in 0 .. 1 /\ (good <=> one = 1)
    OBVIOUS
  <1>5. acc = faults.acc + FaultRate /\ acc \in 0 .. RateUnit
    <2>1. faults.acc \in 0 .. RateUnit /\ FaultRate \in Nat /\ RateUnit \in Nat
      BY CampaignCounts, CampaignNumbers
    <2> QED
      BY <1>1, <2>1
  <1> HIDE DEF one, acc, original
  <1>6. /\ faults' = [acc |-> acc, turn |-> faults.turn, kinds |-> faults.kinds,
                      injected |-> faults.injected, rejected |-> faults.rejected,
                      original |-> original]
        /\ faults'.acc = acc /\ faults'.injected = faults.injected
        /\ faults'.rejected = faults.rejected
    BY <1>2 DEF CampaignInv, CampaignTyped
  <1>7. counts.ingested + one \in Nat
    BY <1>4, CampaignCounts
  <1>8. /\ counts' \in [submitted : Nat, accepted : Nat, ingested : Nat]
        /\ counts'.submitted = counts.submitted /\ counts'.accepted = counts.accepted
        /\ counts'.ingested = counts.ingested + one
    BY <1>2, <1>7 DEF CampaignInv, CampaignTyped
  <1>9. CampaignTyped'
    <2>1. captured' \in Seq([id : Ids, track : Tracks])
      <3>1. \A id \in Ids : [id |-> id, track |-> "world"] \in [id : Ids, track : Tracks]
        BY DEF Tracks
      <3>2. captured \in Seq([id : Ids, track : Tracks])
        BY DEF CampaignInv, CampaignTyped
      <3>3. \A e \in [id : Ids, track : Tracks] : <<e>> \in Seq([id : Ids, track : Tracks])
        OBVIOUS
      <3> QED
        BY <1>3, <3>1, <3>2, <3>3
    <2>2. Campaign!TypeOK'
      <3>1. cycle' \in 0 .. Cycles /\ sample' \in 0 .. EventsPerCycle
        BY <1>1, CampaignCounts
      <3>2. faults'.acc \in 0 .. RateUnit /\ faults'.rejected <= faults'.injected
        BY <1>5, <1>6, CampaignCounts
      <3>3. report' \in {"none", "passed", "failed"}
        BY <1>1 DEF CampaignInv, CampaignTyped, Campaign!TypeOK
      <3> QED
        BY <3>1, <3>2, <3>3 DEF Campaign!TypeOK
    <2> QED
      BY <1>1, <1>6, <1>8, <2>1, <2>2 DEF CampaignInv, CampaignTyped
  <1>10. SharesKept'
    <2>1. Sent = sample /\ Sent' = sample + 1
      BY <1>1 DEF Sent
    <2>2. /\ FaultRate * ((counts.submitted + sample) + 1)
               = FaultRate * (counts.submitted + sample) + FaultRate
          /\ FaultRate * (counts.submitted + sample) \in Nat /\ FaultRate \in Nat
      <3>1. counts.submitted + sample \in Nat /\ faults.acc \in 0 .. RateUnit /\ FaultRate \in Nat
        BY CampaignCounts, CampaignNumbers
      <3> QED
        BY <3>1, RateNext
    <2>3. counts.submitted + (sample + 1) = (counts.submitted + sample) + 1
      BY CampaignCounts
    <2>4. /\ at = "ingest" /\ at' = "ingest" /\ failed' = failed
          /\ faults'.acc = faults.acc + FaultRate /\ faults'.injected = faults.injected
          /\ counts'.submitted = counts.submitted /\ counts'.accepted = counts.accepted
          /\ counts'.ingested <= counts.ingested + 1 /\ counts'.ingested \in Nat
      BY <1>1, <1>4, <1>5, <1>6, <1>8, CampaignCounts
    <2> QED
      BY <2>1, <2>2, <2>3, <2>4, CampaignCounts DEF CampaignInv, SharesKept
  <1>11. DissentShare'
    BY DEF CampaignInv, DissentShare, Campaign!IngestEvent, Campaign!Blame,
       Campaign!ConfigAssumption
  <1>12. DarkKept'
    BY DEF CampaignInv, DarkKept, CampaignTyped, InCycle, Rotated, Campaign!TypeOK,
       Campaign!OwnReceipts, Campaign!IngestEvent, Campaign!Blame, Campaign!ConfigAssumption
  <1>13. TrailKept'
    <2>1. CASE captured' = captured
      BY <1>1, <2>1 DEF CampaignInv, TrailKept, InCycle
    <2>2. CASE captured = <<>> /\ \E id \in Ids : captured' = <<[id |-> id, track |-> "world"]>>
      <3>1. DOMAIN captured' = 1 .. 1 /\ Len(captured') = 1 /\ captured'[1].track = "world"
        BY <2>2
      <3>2. trail = <<>> /\ DOMAIN trail = {}
        BY <2>2 DEF CampaignInv, TrailKept, CampaignTyped
      <3> QED
        BY <1>1, <3>1, <3>2 DEF TrailKept, InCycle
    <2> QED
      BY <1>3, <2>1, <2>2
  <1>14. ReceiptsTrue'
    BY DEF CampaignInv, ReceiptsTrue, InCycle, Rotated, Campaign!OwnReceipts,
       Campaign!IngestEvent, Campaign!Blame, Campaign!ConfigAssumption
  <1>15. WrongsOnRecord'
    <2>1. Sent = sample /\ Sent' = sample + 1
      BY <1>1 DEF Sent
    <2>2. /\ faults'.injected = faults.injected /\ counts'.submitted = counts.submitted
          /\ counts'.accepted = counts.accepted /\ counts'.ingested = counts.ingested + one
      BY <1>6, <1>8
    <2>3. failed = {} /\ one = 0 => OnRecord'
      BY <2>1, <2>2, CampaignCounts DEF CampaignInv, SharesKept, OnRecord
    <2>4. at = "ingest" /\ at' = at /\ UNCHANGED <<chats, trail, features, failed>>
      BY <1>1
    <2>5. OnRecord /\ one = 1 => OnRecord'
      <3>1. Campaign!Mismatched' = Campaign!Mismatched /\ (ProbeFailed' <=> ProbeFailed)
        BY <2>4 DEF Campaign!Mismatched, ProbeFailed
      <3> QED
        BY <2>1, <2>2, <2>4, <3>1, CampaignCounts DEF OnRecord
    <2>6. one = 1 => wrong' = wrong
      BY <1>2, <1>4
    <2> QED
      BY <1>4, <2>3, <2>4, <2>5, <2>6 DEF CampaignInv, WrongsOnRecord
  <1>16. ReportKept'
    BY DEF CampaignInv, ReportKept, CampaignTyped, Campaign!IngestEvent, Campaign!Blame,
       Campaign!ConfigAssumption
  <1> QED
    BY <1>9, <1>10, <1>11, <1>12, <1>13, <1>14, <1>15, <1>16 DEF CampaignInv

\* A fault takes the place of an event, and one whole of what was carried on (_inject_fault).
LEMMA InjectFaultKeeps ==
    ASSUME Campaign!ConfigAssumption, CampaignInv, NEW good \in BOOLEAN,
           Campaign!InjectFault(good)
    PROVE  CampaignInv'
  <1> DEFINE one == IF good THEN 1 ELSE 0
             acc == (faults.acc + FaultRate) - RateUnit
  <1>1. /\ at = "ingest" /\ at' = at /\ sample < EventsPerCycle /\ sample' = sample + 1
        /\ faults.acc + FaultRate >= RateUnit
        /\ UNCHANGED <<cycle, counts, chats, dark, captured, trail, pilot, features, report>>
    BY DEF Campaign!InjectFault, Campaign!MayInject, Campaign!Accumulated, Campaign!Note,
       Campaign!Blame, Campaign!humanVars
  <1>2. /\ failed' = failed \union (IF good THEN {} ELSE {"fault_not_safely_rejected"})
        /\ wrong' = wrong \union (IF good THEN {} ELSE {"fault"})
    BY DEF Campaign!InjectFault, Campaign!Note, Campaign!Blame, Campaign!humanVars
  <1>3. \E turn, kinds : faults' = [acc |-> acc, turn |-> turn, kinds |-> kinds,
                                    injected |-> faults.injected + 1,
                                    rejected |-> faults.rejected + one,
                                    original |-> faults.original]
    <2> DEFINE turn == Campaign!next_fault_kind
               kind == Campaign!FAULT_KINDS[(turn % Len(Campaign!FAULT_KINDS)) + 1]
    <2>1. faults' = [acc |-> acc, turn |-> turn + 1, kinds |-> faults.kinds \union {kind},
                     injected |-> faults.injected + 1, rejected |-> faults.rejected + one,
                     original |-> faults.original]
      BY DEF Campaign!InjectFault, Campaign!Carried, Campaign!Accumulated
    <2> QED
      BY <2>1
  <1>4. one \in 0 .. 1
    OBVIOUS
  <1>5. acc = faults.acc + FaultRate - RateUnit /\ acc \in 0 .. RateUnit
    <2>1. faults.acc \in 0 .. RateUnit /\ FaultRate \in 0 .. RateUnit /\ RateUnit \in Nat
      BY CampaignCounts, CampaignNumbers
    <2> QED
      BY <1>1, <2>1
  <1> HIDE DEF one, acc
  <1>6. /\ faults'.acc = acc /\ faults'.injected = faults.injected + 1
        /\ faults'.rejected = faults.rejected + one
        /\ faults' = [acc |-> faults'.acc, turn |-> faults'.turn, kinds |-> faults'.kinds,
                      injected |-> faults'.injected, rejected |-> faults'.rejected,
                      original |-> faults'.original]
    BY <1>3
  <1>7. CampaignTyped'
    <2>1. Campaign!TypeOK'
      <3>1. cycle' \in 0 .. Cycles /\ sample' \in 0 .. EventsPerCycle
        BY <1>1, CampaignCounts
      <3>2. faults'.acc \in 0 .. RateUnit /\ faults'.rejected <= faults'.injected
        BY <1>4, <1>5, <1>6, CampaignCounts
      <3>3. report' \in {"none", "passed", "failed"}
        BY <1>1 DEF CampaignInv, CampaignTyped, Campaign!TypeOK
      <3> QED
        BY <3>1, <3>2, <3>3 DEF Campaign!TypeOK
    <2>2. faults'.injected \in Nat /\ faults'.rejected \in Nat
      BY <1>4, <1>6, CampaignCounts
    <2> QED
      BY <1>1, <1>6, <2>1, <2>2 DEF CampaignInv, CampaignTyped
  <1>8. SharesKept'
    <2>1. Sent = sample /\ Sent' = sample + 1
      BY <1>1 DEF Sent
    <2>2. /\ FaultRate * ((counts.submitted + sample) + 1)
               = FaultRate * (counts.submitted + sample) + FaultRate
          /\ FaultRate * (counts.submitted + sample) \in Nat /\ FaultRate \in Nat
      <3>1. counts.submitted + sample \in Nat /\ faults.acc \in 0 .. RateUnit /\ FaultRate \in Nat
        BY CampaignCounts, CampaignNumbers
      <3> QED
        BY <3>1, RateNext
    <2>3. counts.submitted + (sample + 1) = (counts.submitted + sample) + 1
      BY CampaignCounts
    <2>4. /\ at = "ingest" /\ at' = "ingest" /\ (failed' = {} => failed = {})
          /\ faults'.acc = faults.acc + FaultRate - RateUnit
          /\ faults'.injected = faults.injected + 1 /\ counts' = counts
      BY <1>1, <1>2, <1>5, <1>6
    <2>5. failed' = {} =>
            /\ RateUnit * faults.injected + faults.acc = FaultRate * (counts.submitted + sample)
            /\ counts.accepted + counts.ingested + faults.injected <= counts.submitted + sample
      BY <2>1, <2>4 DEF CampaignInv, SharesKept
    <2>6. failed' = {} =>
            RateUnit * faults'.injected + faults'.acc = FaultRate * (counts.submitted + sample) + FaultRate
      <3> DEFINE due == FaultRate * (counts.submitted + sample)
      <3>1. /\ faults.injected \in Nat /\ faults.acc \in Nat /\ due \in Nat
            /\ FaultRate \in Nat /\ RateUnit \in Nat
        BY <2>2, CampaignCounts
      <3>2. failed' = {} => RateUnit * faults.injected + faults.acc = due
        BY <2>5
      <3> HIDE DEF due
      <3>3. failed' = {} => RateUnit * faults'.injected + faults'.acc = due + FaultRate
        BY <2>4, <3>1, <3>2, FaultNext
      <3> QED
        BY <3>3 DEF due
    <2>7. failed' = {} =>
            RateUnit * faults'.injected + faults'.acc = FaultRate * (counts.submitted + (sample + 1))
      BY <2>2, <2>3, <2>6
    <2>8. failed' = {} =>
            counts.accepted + counts.ingested + faults'.injected
              <= counts.submitted + (sample + 1)
      BY <2>4, <2>5, CampaignCounts
    <2> QED
      BY <2>1, <2>4, <2>7, <2>8 DEF SharesKept
  <1>9. DissentShare'
    BY DEF CampaignInv, DissentShare, Campaign!InjectFault, Campaign!Note, Campaign!Blame,
       Campaign!humanVars, Campaign!ConfigAssumption
  <1>10. DarkKept'
    BY DEF CampaignInv, DarkKept, CampaignTyped, InCycle, Rotated, Campaign!TypeOK,
       Campaign!OwnReceipts, Campaign!InjectFault, Campaign!Note, Campaign!Blame,
       Campaign!humanVars, Campaign!ConfigAssumption
  <1>11. TrailKept'
    BY DEF CampaignInv, TrailKept, CampaignTyped, InCycle, Campaign!InjectFault, Campaign!Note,
       Campaign!Blame, Campaign!humanVars, Campaign!ConfigAssumption
  <1>12. ReceiptsTrue'
    BY DEF CampaignInv, ReceiptsTrue, InCycle, Rotated, Campaign!OwnReceipts,
       Campaign!InjectFault, Campaign!Note, Campaign!Blame, Campaign!humanVars,
       Campaign!ConfigAssumption
  <1>13. WrongsOnRecord'
    <2>1. Sent = sample /\ Sent' = sample + 1
      BY <1>1 DEF Sent
    <2>2. faults'.injected = faults.injected + 1 /\ counts' = counts
      BY <1>1, <1>6
    <2>3. /\ failed' = {} => failed = {} /\ wrong' = wrong
          /\ at' = at /\ at = "ingest" /\ UNCHANGED <<chats, trail, features>>
      BY <1>1, <1>2
    <2>4. Campaign!Mismatched' = Campaign!Mismatched /\ (ProbeFailed' <=> ProbeFailed)
      BY <2>3 DEF Campaign!Mismatched, ProbeFailed
    <2>5. OnRecord => OnRecord'
      BY <2>1, <2>2, <2>3, <2>4, CampaignCounts DEF OnRecord
    <2> QED
      BY <2>3, <2>5 DEF CampaignInv, WrongsOnRecord
  <1>14. ReportKept'
    BY DEF CampaignInv, ReportKept, CampaignTyped, Campaign!InjectFault, Campaign!Note,
       Campaign!Blame, Campaign!humanVars, Campaign!ConfigAssumption
  <1> QED
    BY <1>7, <1>8, <1>9, <1>10, <1>11, <1>12, <1>13, <1>14 DEF CampaignInv

\* The sample of a world is through: its events are counted (_drive_world_rotation).
LEMMA EndSampleKeeps ==
    ASSUME Campaign!ConfigAssumption, CampaignInv,
           Campaign!EndSample
    PROVE  CampaignInv'
  <1>1. /\ at = "ingest" /\ at' = "chat" /\ sample = EventsPerCycle
        /\ UNCHANGED <<cycle, sample, faults, chats, dark, captured, trail, pilot, features,
                       failed, report, wrong>>
    BY DEF Campaign!EndSample, Campaign!Go, Campaign!humanVars
  <1>2. counts' = [submitted |-> counts.submitted + EventsPerCycle,
                   accepted |-> counts.accepted + counts.ingested, ingested |-> 0]
    BY DEF Campaign!EndSample
  <1>3. Sent = EventsPerCycle /\ Sent' = 0
    BY <1>1 DEF Sent
  <1>4. CampaignTyped'
    <2>1. counts' \in [submitted : Nat, accepted : Nat, ingested : Nat]
      BY <1>2, CampaignCounts
    <2>2. Campaign!TypeOK'
      BY <1>1 DEF CampaignInv, CampaignTyped, Campaign!TypeOK
    <2>3. at' \in InCycle /\ at' \notin Rotated /\ at \in InCycle /\ at # "done"
      BY <1>1 DEF InCycle, Rotated
    <2> QED
      BY <1>1, <2>1, <2>2, <2>3 DEF CampaignInv, CampaignTyped
  <1>5. SharesKept'
    BY <1>1, <1>2, <1>3, CampaignCounts DEF CampaignInv, SharesKept
  <1>6. DissentShare'
    BY DEF CampaignInv, DissentShare, Campaign!EndSample, Campaign!Go, Campaign!humanVars,
       Campaign!ConfigAssumption
  <1>7. DarkKept'
    BY DEF CampaignInv, DarkKept, CampaignTyped, InCycle, Rotated, Campaign!TypeOK,
       Campaign!OwnReceipts, Campaign!EndSample, Campaign!Go, Campaign!humanVars,
       Campaign!ConfigAssumption
  <1>8. TrailKept'
    BY DEF CampaignInv, TrailKept, CampaignTyped, InCycle, Campaign!EndSample, Campaign!Go,
       Campaign!humanVars, Campaign!ConfigAssumption
  <1>9. ReceiptsTrue'
    BY DEF CampaignInv, ReceiptsTrue, InCycle, Rotated, Campaign!OwnReceipts, Campaign!EndSample,
       Campaign!Go, Campaign!humanVars, Campaign!ConfigAssumption
  <1>10. WrongsOnRecord'
    <2>1. Campaign!Mismatched' = Campaign!Mismatched /\ (ProbeFailed' <=> ProbeFailed)
      BY <1>1 DEF Campaign!Mismatched, ProbeFailed
    <2>2. OnRecord => OnRecord'
      BY <1>1, <1>2, <1>3, <2>1, CampaignCounts DEF OnRecord
    <2> QED
      BY <1>1, <2>2 DEF CampaignInv, WrongsOnRecord
  <1>11. ReportKept'
    BY DEF CampaignInv, ReportKept, CampaignTyped, Campaign!EndSample, Campaign!Go,
       Campaign!humanVars, Campaign!ConfigAssumption
  <1> QED
    BY <1>4, <1>5, <1>6, <1>7, <1>8, <1>9, <1>10, <1>11 DEF CampaignInv

\* A cycle that raises is on record as a failure (_drive_world_rotation).
LEMMA CycleRaisesKeeps ==
    ASSUME Campaign!ConfigAssumption, CampaignInv,
           Campaign!CycleRaises
    PROVE  CampaignInv'
  <1>1. CampaignTyped'
    <2>1. /\ at \in InCycle /\ at' = "cycle" /\ cycle' = cycle + 1
          /\ UNCHANGED <<sample, faults, counts, chats, dark, captured, trail, pilot, report>>
      BY DEF Campaign!CycleRaises, InCycle, Campaign!Go, Campaign!Note, Campaign!humanVars
    <2>2. cycle' \in 0 .. Cycles
      BY <2>1, CampaignCounts
    <2>3. Campaign!TypeOK'
      BY <2>1, <2>2 DEF CampaignInv, CampaignTyped, Campaign!TypeOK
    <2> QED
      BY <2>1, <2>3 DEF CampaignInv, CampaignTyped, InCycle, Rotated
  <1>2. SharesKept'
    BY DEF CampaignInv, SharesKept, CampaignTyped, Campaign!TypeOK, Sent, Campaign!CycleRaises,
       Campaign!Go, Campaign!Note, Campaign!humanVars, Campaign!ConfigAssumption
  <1>3. DissentShare'
    BY DEF CampaignInv, DissentShare, Campaign!CycleRaises, Campaign!Go, Campaign!Note,
       Campaign!humanVars, Campaign!ConfigAssumption
  <1>4. DarkKept'
    BY DEF CampaignInv, DarkKept, CampaignTyped, InCycle, Rotated, Campaign!TypeOK,
       Campaign!OwnReceipts, Campaign!CycleRaises, Campaign!Go, Campaign!Note, Campaign!humanVars,
       Campaign!ConfigAssumption
  <1>5. TrailKept'
    BY DEF CampaignInv, TrailKept, CampaignTyped, InCycle, Campaign!CycleRaises, Campaign!Go,
       Campaign!Note, Campaign!humanVars, Campaign!ConfigAssumption
  <1>6. ReceiptsTrue'
    BY DEF CampaignInv, ReceiptsTrue, InCycle, Rotated, Campaign!OwnReceipts,
       Campaign!CycleRaises, Campaign!Go, Campaign!Note, Campaign!humanVars,
       Campaign!ConfigAssumption
  <1>7. WrongsOnRecord'
    BY DEF CampaignInv, WrongsOnRecord, OnRecord, Campaign!Mismatched, Sent, CampaignTyped,
       Campaign!TypeOK, Campaign!OwnReceipts, Campaign!CycleRaises, Campaign!Go, Campaign!Note,
       Campaign!humanVars, Campaign!ConfigAssumption
  <1>8. ReportKept'
    BY DEF CampaignInv, ReportKept, CampaignTyped, Campaign!CycleRaises, Campaign!Go,
       Campaign!Note, Campaign!humanVars, Campaign!ConfigAssumption
  <1> QED
    BY <1>1, <1>2, <1>3, <1>4, <1>5, <1>6, <1>7, <1>8 DEF CampaignInv

\* A cycle in which no question is due (_drive_world_rotation).
LEMMA SkipChatKeeps ==
    ASSUME Campaign!ConfigAssumption, CampaignInv,
           Campaign!SkipChat
    PROVE  CampaignInv'
  <1>1. CampaignTyped'
    BY DEF CampaignInv, CampaignTyped, Campaign!TypeOK, InCycle, Rotated, Tracks, Verdicts,
       Campaign!SkipChat, Campaign!Go, Campaign!worldVars, Campaign!humanVars,
       Campaign!ConfigAssumption
  <1>2. SharesKept'
    BY DEF CampaignInv, SharesKept, CampaignTyped, Campaign!TypeOK, Sent, Campaign!SkipChat,
       Campaign!Go, Campaign!worldVars, Campaign!humanVars, Campaign!ConfigAssumption
  <1>3. DissentShare'
    BY DEF CampaignInv, DissentShare, Campaign!SkipChat, Campaign!Go, Campaign!worldVars,
       Campaign!humanVars, Campaign!ConfigAssumption
  <1>4. DarkKept'
    <2>1. /\ at = "chat" /\ at' = "periodic" /\ ~Campaign!ChatDue
          /\ UNCHANGED <<cycle, dark, features, failed>>
      BY DEF Campaign!SkipChat, Campaign!Go, Campaign!worldVars, Campaign!humanVars
    <2>2. ~dark.pending
      BY <2>1 DEF Campaign!ChatDue
    <2> QED
      BY <2>1, <2>2 DEF CampaignInv, DarkKept
  <1>5. TrailKept'
    BY DEF CampaignInv, TrailKept, CampaignTyped, InCycle, Campaign!SkipChat, Campaign!Go,
       Campaign!worldVars, Campaign!humanVars, Campaign!ConfigAssumption
  <1>6. ReceiptsTrue'
    BY DEF CampaignInv, ReceiptsTrue, InCycle, Rotated, Campaign!OwnReceipts, Campaign!SkipChat,
       Campaign!Go, Campaign!worldVars, Campaign!humanVars, Campaign!ConfigAssumption
  <1>7. WrongsOnRecord'
    <2>1. /\ at = "chat" /\ at' = "periodic"
          /\ UNCHANGED <<faults, counts, chats, trail, features, failed, wrong>>
      BY DEF Campaign!SkipChat, Campaign!Go, Campaign!worldVars, Campaign!humanVars
    <2>2. Campaign!Mismatched' = Campaign!Mismatched /\ (ProbeFailed' <=> ProbeFailed)
      BY <2>1 DEF Campaign!Mismatched, ProbeFailed
    <2>3. OnRecord => OnRecord'
      BY <2>1, <2>2 DEF OnRecord, Sent
    <2> QED
      BY <2>1, <2>3 DEF CampaignInv, WrongsOnRecord
  <1>8. ReportKept'
    BY DEF CampaignInv, ReportKept, CampaignTyped, Campaign!SkipChat, Campaign!Go,
       Campaign!worldVars, Campaign!humanVars, Campaign!ConfigAssumption
  <1> QED
    BY <1>1, <1>2, <1>3, <1>4, <1>5, <1>6, <1>7, <1>8 DEF CampaignInv

\* A question, the one that has to see the model again included (_ask_chat).
LEMMA AskChatKeeps ==
    ASSUME Campaign!ConfigAssumption, CampaignInv, NEW answer \in {"model", "offline", "errors"},
           Campaign!AskChat(answer)
    PROVE  CampaignInv'
  <1> DEFINE Owed == dark.pending
  <1>1. /\ at = "chat" /\ at' = "periodic"
        /\ UNCHANGED <<cycle, sample, faults, counts, captured, trail, pilot, report>>
    BY DEF Campaign!AskChat, Campaign!Go, Campaign!Note, Campaign!Blame, Campaign!Receipt,
       Campaign!humanVars
  <1>2. /\ chats' = [chats EXCEPT !.calls = @ + 1, ![answer] = @ + 1]
        /\ dark' = [dark EXCEPT !.pending = FALSE]
        /\ features' = features \/ Campaign!Receipt("inference_blackout", Campaign!Recovered(answer))
        /\ dark.pending => Campaign!Receipt("inference_blackout", Campaign!Recovered(answer))
        /\ failed' = failed \/ failed' # {}
        /\ dark.pending /\ ~Campaign!Recovered(answer) => failed' # {}
        /\ \/ wrong' = wrong
           \/ answer = "errors"
           \/ LiveRequired /\ answer # "model"
    BY DEF Campaign!AskChat, Campaign!Go, Campaign!Note, Campaign!Blame, Campaign!Receipt,
       Campaign!humanVars
  <1>3. chats \in [calls : Nat, model : Nat, offline : Nat, errors : Nat]
    BY DEF CampaignInv, CampaignTyped
  <1>4. chats.calls + 1 \in Nat /\ chats.model + 1 \in Nat /\ chats.offline + 1 \in Nat
        /\ chats.errors + 1 \in Nat
    BY <1>3
  <1>5. /\ chats' \in [calls : Nat, model : Nat, offline : Nat, errors : Nat]
        /\ chats'.calls = chats.calls + 1
        /\ answer = "model" =>
              chats'.model = chats.model + 1 /\ UNCHANGED <<chats.offline, chats.errors>>
        /\ answer = "offline" =>
              chats'.offline = chats.offline + 1 /\ UNCHANGED <<chats.model, chats.errors>>
        /\ answer = "errors" =>
              chats'.errors = chats.errors + 1 /\ UNCHANGED <<chats.model, chats.offline>>
    <2>1. CASE answer = "model"
      <3>1. chats' = [calls |-> chats.calls + 1, model |-> chats.model + 1,
                      offline |-> chats.offline, errors |-> chats.errors]
        BY <1>2, <1>3, <2>1
      <3> QED
        BY <1>3, <1>4, <2>1, <3>1
    <2>2. CASE answer = "offline"
      <3>1. chats' = [calls |-> chats.calls + 1, model |-> chats.model,
                      offline |-> chats.offline + 1, errors |-> chats.errors]
        BY <1>2, <1>3, <2>2
      <3> QED
        BY <1>3, <1>4, <2>2, <3>1
    <2>3. CASE answer = "errors"
      <3>1. chats' = [calls |-> chats.calls + 1, model |-> chats.model,
                      offline |-> chats.offline, errors |-> chats.errors + 1]
        BY <1>2, <1>3, <2>3
      <3> QED
        BY <1>3, <1>4, <2>3, <3>1
    <2> QED
      BY <2>1, <2>2, <2>3
  <1>6. CampaignTyped'
    <2>1. dark' \in [done : BOOLEAN, since : Nat, pending : BOOLEAN]
      BY <1>2 DEF CampaignInv, CampaignTyped
    <2>2. chats'.calls = chats'.model + chats'.offline + chats'.errors
      BY <1>5, CampaignCounts
    <2>3. Campaign!TypeOK'
      BY <1>1 DEF CampaignInv, CampaignTyped, Campaign!TypeOK
    <2>4. at' \in InCycle /\ at' \notin Rotated /\ at \in InCycle /\ at # "done"
      BY <1>1 DEF InCycle, Rotated
    <2> QED
      BY <1>1, <1>5, <2>1, <2>2, <2>3, <2>4 DEF CampaignInv, CampaignTyped
  <1>7. SharesKept'
    BY DEF CampaignInv, SharesKept, CampaignTyped, Campaign!TypeOK, Sent, Campaign!AskChat,
       Campaign!Go, Campaign!Note, Campaign!Blame, Campaign!Receipt, Campaign!humanVars,
       Campaign!ConfigAssumption
  <1>8. DissentShare'
    BY DEF CampaignInv, DissentShare, Campaign!AskChat, Campaign!Go, Campaign!Note,
       Campaign!Blame, Campaign!Receipt, Campaign!humanVars, Campaign!ConfigAssumption
  <1>9. DarkKept'
    BY DEF CampaignInv, DarkKept, CampaignTyped, InCycle, Rotated, Campaign!TypeOK,
       Campaign!OwnReceipts, Campaign!AskChat, Campaign!Go, Campaign!Note, Campaign!Blame,
       Campaign!Receipt, Campaign!humanVars, Campaign!ConfigAssumption
  <1>10. TrailKept'
    BY DEF CampaignInv, TrailKept, CampaignTyped, InCycle, Campaign!AskChat, Campaign!Go,
       Campaign!Note, Campaign!Blame, Campaign!Receipt, Campaign!humanVars,
       Campaign!ConfigAssumption
  <1>11. ReceiptsTrue'
    BY DEF CampaignInv, ReceiptsTrue, InCycle, Rotated, Campaign!OwnReceipts, Campaign!AskChat,
       Campaign!Go, Campaign!Note, Campaign!Blame, Campaign!Receipt, Campaign!humanVars,
       Campaign!ConfigAssumption
  <1>12. WrongsOnRecord'
    <2>1. ProbeFailed => ProbeFailed'
      BY <1>2, OwnReceipt DEF Campaign!OwnReceipts, ProbeFailed, Campaign!Recovered
    <2>2. Campaign!Mismatched' = Campaign!Mismatched
      BY <1>1 DEF Campaign!Mismatched
    <2>3. \A f : f # "inference_blackout" =>
             (<<f, TRUE>> \in features' <=> <<f, TRUE>> \in features)
      BY <1>2 DEF Campaign!Receipt
    <2>5. answer = "errors" => chats'.errors > 0
      BY <1>3, <1>5
    <2>6. /\ chats.model <= chats.calls
          /\ chats.model # chats.calls \/ answer # "model" => chats'.model # chats'.calls
      BY <1>3, <1>5, CampaignCounts
    <2>7. Sent' = Sent /\ UNCHANGED <<faults, counts>>
      BY <1>1 DEF Sent
    <2>8. chats.errors > 0 => chats'.errors > 0
      BY <1>3, <1>5
    <2>9. OnRecord => OnRecord'
      BY <1>1, <2>1, <2>2, <2>3, <2>6, <2>7, <2>8 DEF OnRecord
    <2>10. wrong' # wrong => OnRecord'
      BY <1>2, <2>5, <2>6 DEF OnRecord
    <2> QED
      BY <1>2, <2>9, <2>10 DEF CampaignInv, WrongsOnRecord
  <1>13. ReportKept'
    BY DEF CampaignInv, ReportKept, CampaignTyped, Campaign!AskChat, Campaign!Go, Campaign!Note,
       Campaign!Blame, Campaign!Receipt, Campaign!humanVars, Campaign!ConfigAssumption
  <1> QED
    BY <1>6, <1>7, <1>8, <1>9, <1>10, <1>11, <1>12, <1>13 DEF CampaignInv

\* The agentic workflow of every n-th cycle (_run_periodic_agentic_probe).
LEMMA PeriodicProbeKeeps ==
    ASSUME Campaign!ConfigAssumption, CampaignInv, NEW good \in BOOLEAN,
           Campaign!PeriodicProbe(good)
    PROVE  CampaignInv'
  <1>1. CampaignTyped'
    BY DEF CampaignInv, CampaignTyped, Campaign!TypeOK, InCycle, Rotated, Tracks, Verdicts,
       Campaign!PeriodicProbe, Campaign!Go, Campaign!Receipt, Campaign!worldVars,
       Campaign!humanVars, Campaign!ConfigAssumption
  <1>2. SharesKept'
    BY DEF CampaignInv, SharesKept, CampaignTyped, Campaign!TypeOK, Sent, Campaign!PeriodicProbe,
       Campaign!Go, Campaign!Receipt, Campaign!worldVars, Campaign!humanVars,
       Campaign!ConfigAssumption
  <1>3. DissentShare'
    BY DEF CampaignInv, DissentShare, Campaign!PeriodicProbe, Campaign!Go, Campaign!Receipt,
       Campaign!worldVars, Campaign!humanVars, Campaign!ConfigAssumption
  <1>4. DarkKept'
    BY DEF CampaignInv, DarkKept, CampaignTyped, InCycle, Rotated, Campaign!TypeOK,
       Campaign!OwnReceipts, Campaign!PeriodicProbe, Campaign!Go, Campaign!Receipt,
       Campaign!worldVars, Campaign!humanVars, Campaign!ConfigAssumption
  <1>5. TrailKept'
    BY DEF CampaignInv, TrailKept, CampaignTyped, InCycle, Campaign!PeriodicProbe, Campaign!Go,
       Campaign!Receipt, Campaign!worldVars, Campaign!humanVars, Campaign!ConfigAssumption
  <1>6. ReceiptsTrue'
    BY DEF CampaignInv, ReceiptsTrue, InCycle, Rotated, Campaign!OwnReceipts,
       Campaign!PeriodicProbe, Campaign!Go, Campaign!Receipt, Campaign!worldVars,
       Campaign!humanVars, Campaign!ConfigAssumption
  <1>7. WrongsOnRecord'
    <2>1. /\ at = "periodic" /\ at' = "blackout"
          /\ UNCHANGED <<faults, counts, chats, trail, failed, wrong>>
          /\ features' = features \/ Campaign!Receipt("agentic_periodic", good)
      BY DEF Campaign!PeriodicProbe, Campaign!Go, Campaign!Receipt, Campaign!worldVars,
         Campaign!humanVars
    <2>2. Campaign!Mismatched' = Campaign!Mismatched
      BY <2>1 DEF Campaign!Mismatched
    <2>3. ProbeFailed => ProbeFailed'
      BY <2>1, OwnReceipt DEF ProbeFailed, Campaign!OwnReceipts
    <2>4. \A f : f # "agentic_periodic" =>
             (<<f, TRUE>> \in features' <=> <<f, TRUE>> \in features)
      BY <2>1 DEF Campaign!Receipt
    <2>5. OnRecord => OnRecord'
      BY <2>1, <2>2, <2>3, <2>4 DEF OnRecord, Sent
    <2> QED
      BY <2>1, <2>5 DEF CampaignInv, WrongsOnRecord
  <1>8. ReportKept'
    BY DEF CampaignInv, ReportKept, CampaignTyped, Campaign!PeriodicProbe, Campaign!Go,
       Campaign!Receipt, Campaign!worldVars, Campaign!humanVars, Campaign!ConfigAssumption
  <1> QED
    BY <1>1, <1>2, <1>3, <1>4, <1>5, <1>6, <1>7, <1>8 DEF CampaignInv

\* A cycle without a blackout is through (_drive_world_rotation).
LEMMA EndCycleKeeps ==
    ASSUME Campaign!ConfigAssumption, CampaignInv,
           Campaign!EndCycle
    PROVE  CampaignInv'
  <1>1. /\ at = "blackout" /\ at' = "cycle" /\ cycle' = cycle + 1
        /\ UNCHANGED <<sample, faults, counts, chats, dark, captured, trail, pilot, features,
                       failed, report, wrong>>
    BY DEF Campaign!EndCycle, Campaign!Go, Campaign!humanVars
  <1>2. cycle \in Nat /\ Cycles \in Nat /\ cycle < Cycles
    BY <1>1, CampaignCounts DEF InCycle
  <1>3. CampaignTyped'
    <2>1. cycle' \in 0 .. Cycles
      BY <1>1, <1>2
    <2>2. Campaign!TypeOK'
      BY <1>1, <2>1 DEF CampaignInv, CampaignTyped, Campaign!TypeOK
    <2> QED
      BY <1>1, <2>2 DEF CampaignInv, CampaignTyped, InCycle, Rotated
  <1>4. SharesKept'
    BY DEF CampaignInv, SharesKept, CampaignTyped, Campaign!TypeOK, Sent, Campaign!EndCycle,
       Campaign!Go, Campaign!humanVars, Campaign!ConfigAssumption
  <1>5. DissentShare'
    BY DEF CampaignInv, DissentShare, Campaign!EndCycle, Campaign!Go, Campaign!humanVars,
       Campaign!ConfigAssumption
  <1>6. DarkKept'
    <2>1. DarkKept /\ (dark.pending <=> dark'.pending) /\ (dark.done <=> dark'.done)
      BY <1>1 DEF CampaignInv
    <2>2. failed = {} => ~dark.pending
      BY <1>1, <1>2, <2>1 DEF DarkKept
    <2>3. features' = features /\ failed' = failed
      BY <1>1
    <2> QED
      BY <2>1, <2>2, <2>3 DEF DarkKept
  <1>7. TrailKept'
    BY DEF CampaignInv, TrailKept, CampaignTyped, InCycle, Campaign!EndCycle, Campaign!Go,
       Campaign!humanVars, Campaign!ConfigAssumption
  <1>8. ReceiptsTrue'
    BY DEF CampaignInv, ReceiptsTrue, InCycle, Rotated, Campaign!OwnReceipts, Campaign!EndCycle,
       Campaign!Go, Campaign!humanVars, Campaign!ConfigAssumption
  <1>9. WrongsOnRecord'
    <2>1. Campaign!Mismatched' = Campaign!Mismatched /\ (ProbeFailed' <=> ProbeFailed)
      BY <1>1 DEF Campaign!Mismatched, ProbeFailed
    <2>2. OnRecord => OnRecord'
      BY <1>1, <2>1, CampaignCounts DEF OnRecord, Sent
    <2> QED
      BY <1>1, <2>2 DEF CampaignInv, WrongsOnRecord
  <1>10. ReportKept'
    BY DEF CampaignInv, ReportKept, CampaignTyped, Campaign!EndCycle, Campaign!Go,
       Campaign!humanVars, Campaign!ConfigAssumption
  <1> QED
    BY <1>3, <1>4, <1>5, <1>6, <1>7, <1>8, <1>9, <1>10 DEF CampaignInv

\* The model is cut off for a while (_probe_inference_blackout).
LEMMA ProbeBlackoutKeeps ==
    ASSUME Campaign!ConfigAssumption, CampaignInv, NEW good \in BOOLEAN,
           Campaign!ProbeBlackout(good)
    PROVE  CampaignInv'
  <1>1. CampaignTyped'
    <2>1. /\ at = "blackout" /\ at' = "cycle" /\ cycle' = cycle + 1
          /\ dark' = [done |-> TRUE, since |-> cycle, pending |-> TRUE]
          /\ UNCHANGED <<sample, faults, counts, chats, captured, trail, pilot, report>>
      BY DEF Campaign!ProbeBlackout, Campaign!Go, Campaign!Note, Campaign!Blame, Campaign!humanVars
    <2>2. cycle' \in 0 .. Cycles /\ cycle \in Nat
      BY <2>1, CampaignCounts DEF InCycle
    <2>3. Campaign!TypeOK'
      BY <2>1, <2>2 DEF CampaignInv, CampaignTyped, Campaign!TypeOK
    <2> QED
      BY <2>1, <2>2, <2>3 DEF CampaignInv, CampaignTyped, InCycle, Rotated
  <1>2. SharesKept'
    BY DEF CampaignInv, SharesKept, CampaignTyped, Campaign!TypeOK, Sent, Campaign!ProbeBlackout,
       Campaign!Go, Campaign!Note, Campaign!Blame, Campaign!humanVars, Campaign!ConfigAssumption
  <1>3. DissentShare'
    BY DEF CampaignInv, DissentShare, Campaign!ProbeBlackout, Campaign!Go, Campaign!Note,
       Campaign!Blame, Campaign!humanVars, Campaign!ConfigAssumption
  <1>4. DarkKept'
    BY DEF CampaignInv, DarkKept, CampaignTyped, InCycle, Rotated, Campaign!TypeOK,
       Campaign!OwnReceipts, Campaign!ProbeBlackout, Campaign!Go, Campaign!Note, Campaign!Blame,
       Campaign!humanVars, Campaign!ConfigAssumption
  <1>5. TrailKept'
    BY DEF CampaignInv, TrailKept, CampaignTyped, InCycle, Campaign!ProbeBlackout, Campaign!Go,
       Campaign!Note, Campaign!Blame, Campaign!humanVars, Campaign!ConfigAssumption
  <1>6. ReceiptsTrue'
    BY DEF CampaignInv, ReceiptsTrue, InCycle, Rotated, Campaign!OwnReceipts,
       Campaign!ProbeBlackout, Campaign!Go, Campaign!Note, Campaign!Blame, Campaign!humanVars,
       Campaign!ConfigAssumption
  <1>7. WrongsOnRecord'
    <2>1. /\ at = "blackout" /\ at' = "cycle"
          /\ failed' = {} => wrong' = wrong /\ failed = {}
          /\ UNCHANGED <<faults, counts, chats, trail, features>>
      BY DEF Campaign!ProbeBlackout, Campaign!Go, Campaign!Note, Campaign!Blame, Campaign!humanVars
    <2>2. Campaign!Mismatched' = Campaign!Mismatched /\ (ProbeFailed' <=> ProbeFailed)
      BY <2>1 DEF Campaign!Mismatched, ProbeFailed
    <2>3. OnRecord => OnRecord'
      BY <2>1, <2>2 DEF OnRecord, Sent
    <2> QED
      BY <2>1, <2>3 DEF CampaignInv, WrongsOnRecord
  <1>8. ReportKept'
    BY DEF CampaignInv, ReportKept, CampaignTyped, Campaign!ProbeBlackout, Campaign!Go,
       Campaign!Note, Campaign!Blame, Campaign!humanVars, Campaign!ConfigAssumption
  <1> QED
    BY <1>1, <1>2, <1>3, <1>4, <1>5, <1>6, <1>7, <1>8 DEF CampaignInv

\* The rotation is through: its sums are compared (_drive_world_rotation).
LEMMA EndRotationKeeps ==
    ASSUME Campaign!ConfigAssumption, CampaignInv,
           Campaign!EndRotation
    PROVE  CampaignInv'
  <1>1. /\ at = "cycle" /\ at' = "demos" /\ cycle >= Cycles
        /\ UNCHANGED <<cycle, sample, faults, counts, chats, dark, captured, trail, pilot, failed,
                       report, wrong>>
        /\ \E passed \in BOOLEAN : /\ Campaign!Receipt("world_event_stream", passed)
                                   /\ passed => Campaign!WorldBalances
    BY DEF Campaign!EndRotation, Campaign!Go, Campaign!Receipt, Campaign!worldVars,
       Campaign!humanVars
  <1>2. cycle = Cycles
    BY <1>1, CampaignCounts
  <1>3. \A f : f # "world_event_stream" =>
           (<<f, TRUE>> \in features' <=> <<f, TRUE>> \in features)
    BY <1>1 DEF Campaign!Receipt
  <1>4. CampaignTyped'
    <2>1. Campaign!TypeOK'
      BY <1>1 DEF CampaignInv, CampaignTyped, Campaign!TypeOK
    <2> QED
      BY <1>1, <1>2, <2>1 DEF CampaignInv, CampaignTyped, InCycle, Rotated
  <1>5. SharesKept'
    BY DEF CampaignInv, SharesKept, CampaignTyped, Campaign!TypeOK, Sent, Campaign!EndRotation,
       Campaign!Go, Campaign!Receipt, Campaign!worldVars, Campaign!humanVars,
       Campaign!ConfigAssumption
  <1>6. DissentShare'
    BY DEF CampaignInv, DissentShare, Campaign!EndRotation, Campaign!Go, Campaign!Receipt,
       Campaign!worldVars, Campaign!humanVars, Campaign!ConfigAssumption
  <1>7. DarkKept'
    <2>1. DarkKept /\ UNCHANGED <<cycle, dark, failed>>
      BY <1>1 DEF CampaignInv
    <2>2. <<"inference_blackout", TRUE>> \in features => <<"inference_blackout", TRUE>> \in features'
      BY <1>3
    <2> QED
      BY <1>2, <2>1, <2>2 DEF DarkKept
  <1>8. TrailKept'
    BY DEF CampaignInv, TrailKept, CampaignTyped, InCycle, Campaign!EndRotation, Campaign!Go,
       Campaign!Receipt, Campaign!worldVars, Campaign!humanVars, Campaign!ConfigAssumption
  <1>9. ReceiptsTrue'
    <2>1. <<"world_event_stream", TRUE>> \in features' =>
             counts.accepted = counts.submitted - faults.injected
      BY <1>1 DEF CampaignInv, ReceiptsTrue, Campaign!Receipt, Campaign!WorldBalances
    <2> QED
      BY <1>1, <1>3, <2>1 DEF CampaignInv, ReceiptsTrue, Rotated
  <1>10. WrongsOnRecord'
    <2>1. Campaign!Mismatched' = Campaign!Mismatched
      BY <1>1 DEF Campaign!Mismatched
    <2>2. ProbeFailed => ProbeFailed'
      BY <1>1, OwnReceipt DEF Campaign!OwnReceipts
    <2>3. OnRecord => OnRecord'
      BY <1>1, <1>3, <2>1, <2>2 DEF OnRecord, Sent
    <2> QED
      BY <1>1, <2>3 DEF CampaignInv, WrongsOnRecord
  <1>11. ReportKept'
    BY DEF CampaignInv, ReportKept, CampaignTyped, Campaign!EndRotation, Campaign!Go,
       Campaign!Receipt, Campaign!worldVars, Campaign!humanVars, Campaign!ConfigAssumption
  <1> QED
    BY <1>4, <1>5, <1>6, <1>7, <1>8, <1>9, <1>10, <1>11 DEF CampaignInv

\* A demonstration scenario captures its decision (_probe_demo_scenarios).
LEMMA DemoKeeps ==
    ASSUME Campaign!ConfigAssumption, CampaignInv, NEW good \in BOOLEAN,
           Campaign!Demo(good)
    PROVE  CampaignInv'
  <1>1. /\ at = "demos" /\ at' = "probes"
        /\ UNCHANGED <<cycle, sample, faults, counts, chats, dark, trail, pilot, report>>
        /\ Campaign!Receipt("demo", good)
    BY DEF Campaign!Demo, Campaign!Go, Campaign!Note, Campaign!Blame, Campaign!Receipt,
       Campaign!worldVars
  <1>2. /\ \/ captured' = captured
           \/ \E id \in Ids : captured' = Append(captured, [id |-> id, track |-> "deterministic"])
        /\ failed' = {} => good /\ failed = {} /\ wrong' = wrong
    BY DEF Campaign!Demo, Campaign!Go, Campaign!Note, Campaign!Blame, Campaign!Receipt,
       Campaign!worldVars
  <1>3. CampaignTyped'
    <2>1. captured \in Seq([id : Ids, track : Tracks])
      BY DEF CampaignInv, CampaignTyped
    <2>2. \A id \in Ids : [id |-> id, track |-> "deterministic"] \in [id : Ids, track : Tracks]
      BY DEF Tracks
    <2>3. captured' \in Seq([id : Ids, track : Tracks])
      <3>1. \A id \in Ids :
               Append(captured, [id |-> id, track |-> "deterministic"]) \in Seq([id : Ids, track : Tracks])
        BY <2>1, <2>2, AppendProperties
      <3> QED
        BY <1>2, <2>1, <3>1
    <2>4. Campaign!TypeOK'
      BY <1>1 DEF CampaignInv, CampaignTyped, Campaign!TypeOK
    <2>5. at' \in Rotated /\ at' \notin InCycle /\ at \in Rotated /\ at # "done"
      BY <1>1 DEF InCycle, Rotated
    <2> QED
      BY <1>1, <2>3, <2>4, <2>5 DEF CampaignInv, CampaignTyped
  <1>4. SharesKept'
    BY DEF CampaignInv, SharesKept, CampaignTyped, Campaign!TypeOK, Sent, Campaign!Demo,
       Campaign!Go, Campaign!Note, Campaign!Blame, Campaign!Receipt, Campaign!worldVars,
       Campaign!ConfigAssumption
  <1>5. DissentShare'
    BY DEF CampaignInv, DissentShare, Campaign!Demo, Campaign!Go, Campaign!Note, Campaign!Blame,
       Campaign!Receipt, Campaign!worldVars, Campaign!ConfigAssumption
  <1>6. DarkKept'
    BY DEF CampaignInv, DarkKept, CampaignTyped, InCycle, Rotated, Campaign!TypeOK,
       Campaign!OwnReceipts, Campaign!Demo, Campaign!Go, Campaign!Note, Campaign!Blame,
       Campaign!Receipt, Campaign!worldVars, Campaign!ConfigAssumption
  <1>7. TrailKept'
    <2>1. captured \in Seq([id : Ids, track : Tracks]) /\ TrailKept
      BY DEF CampaignInv, CampaignTyped
    <2>2. CASE captured' = captured
      BY <1>1, <2>1, <2>2 DEF TrailKept, InCycle
    <2>3. ASSUME NEW id \in Ids, captured' = Append(captured, [id |-> id, track |-> "deterministic"])
          PROVE  TrailKept'
      <3>1. /\ Len(captured') = Len(captured) + 1 /\ DOMAIN captured' = 1 .. Len(captured')
            /\ \A i \in DOMAIN captured : captured'[i] = captured[i]
            /\ captured'[Len(captured')].track = "deterministic"
            /\ DOMAIN captured = 1 .. Len(captured) /\ Len(captured) \in Nat
        BY <2>1, <2>3, AppendProperties
      <3>2. /\ trail' = trail /\ Len(trail) \in Nat /\ DOMAIN trail = 1 .. Len(trail)
            /\ Len(trail) <= Len(captured) /\ DOMAIN trail \subseteq DOMAIN captured
        <4>1. trail' = trail /\ Len(trail) <= Len(captured)
          BY <1>1, <2>1 DEF TrailKept
        <4>2. trail \in Seq([id : Ids, track : Tracks, action : Verdicts, matched : BOOLEAN])
          BY DEF CampaignInv, CampaignTyped
        <4>3. Len(trail) \in Nat /\ DOMAIN trail = 1 .. Len(trail)
          BY <4>2
        <4> QED
          BY <3>1, <4>1, <4>3
      <3>3. \A i \in DOMAIN captured : captured[i].track # "agentic"
        BY <1>1, <2>1 DEF TrailKept
      <3>4. \A i \in DOMAIN trail' :
               trail'[i].id = captured'[i].id /\ trail'[i].track = captured'[i].track
        BY <2>1, <3>1, <3>2 DEF TrailKept
      <3>5. \A i, j \in DOMAIN captured' : i < j => captured'[i].track # "agentic"
        BY <3>1, <3>3
      <3>6. \A i \in DOMAIN captured' : captured'[i].track = "agentic" => at' = "hitl"
        BY <1>1, <3>1, <3>3
      <3>7. Len(trail') <= Len(captured')
        BY <3>1, <3>2
      <3>8. at' \notin {"writeback", "chat_feature", "report"}
        BY <1>1
      <3> QED
        BY <3>4, <3>5, <3>6, <3>7, <3>8 DEF TrailKept, InCycle
    <2> QED
      BY <1>2, <2>2, <2>3
  <1>8. ReceiptsTrue'
    BY DEF CampaignInv, ReceiptsTrue, InCycle, Rotated, Campaign!OwnReceipts, Campaign!Demo,
       Campaign!Go, Campaign!Note, Campaign!Blame, Campaign!Receipt, Campaign!worldVars,
       Campaign!ConfigAssumption
  <1>9. WrongsOnRecord'
    <2>1. Campaign!Mismatched' = Campaign!Mismatched
      BY <1>1 DEF Campaign!Mismatched
    <2>2. ProbeFailed => ProbeFailed'
      BY <1>1, OwnReceipt DEF Campaign!OwnReceipts
    <2>3. \A f : f # "demo" => (<<f, TRUE>> \in features' <=> <<f, TRUE>> \in features)
      BY <1>1 DEF Campaign!Receipt
    <2>4. OnRecord => OnRecord'
      BY <1>1, <2>1, <2>2, <2>3 DEF OnRecord, Sent
    <2> QED
      BY <1>2, <2>4 DEF CampaignInv, WrongsOnRecord
  <1>10. ReportKept'
    BY DEF CampaignInv, ReportKept, CampaignTyped, Campaign!Demo, Campaign!Go, Campaign!Note,
       Campaign!Blame, Campaign!Receipt, Campaign!worldVars, Campaign!ConfigAssumption
  <1> QED
    BY <1>3, <1>4, <1>5, <1>6, <1>7, <1>8, <1>9, <1>10 DEF CampaignInv

\* A feature with a probe of its own writes one receipt (_probe_connectors).
LEMMA ProbeKeeps ==
    ASSUME Campaign!ConfigAssumption, CampaignInv, NEW f \in Probes, NEW good \in BOOLEAN,
           Campaign!Probe(f, good)
    PROVE  CampaignInv'
  <1>1. CampaignTyped'
    BY DEF CampaignInv, CampaignTyped, Campaign!TypeOK, InCycle, Rotated, Tracks, Verdicts,
       Campaign!Probe, Campaign!Blame, Campaign!Receipt, Campaign!worldVars, Campaign!humanVars,
       Campaign!ConfigAssumption
  <1>2. SharesKept'
    BY DEF CampaignInv, SharesKept, CampaignTyped, Campaign!TypeOK, Sent, Campaign!Probe,
       Campaign!Blame, Campaign!Receipt, Campaign!worldVars, Campaign!humanVars,
       Campaign!ConfigAssumption
  <1>3. DissentShare'
    BY DEF CampaignInv, DissentShare, Campaign!Probe, Campaign!Blame, Campaign!Receipt,
       Campaign!worldVars, Campaign!humanVars, Campaign!ConfigAssumption
  <1>4. DarkKept'
    BY DEF CampaignInv, DarkKept, CampaignTyped, InCycle, Rotated, Campaign!TypeOK,
       Campaign!OwnReceipts, Campaign!Probe, Campaign!Blame, Campaign!Receipt, Campaign!worldVars,
       Campaign!humanVars, Campaign!ConfigAssumption
  <1>5. TrailKept'
    BY DEF CampaignInv, TrailKept, CampaignTyped, InCycle, Campaign!Probe, Campaign!Blame,
       Campaign!Receipt, Campaign!worldVars, Campaign!humanVars, Campaign!ConfigAssumption
  <1>6. ReceiptsTrue'
    BY DEF CampaignInv, ReceiptsTrue, InCycle, Rotated, Campaign!OwnReceipts, Campaign!Probe,
       Campaign!Blame, Campaign!Receipt, Campaign!worldVars, Campaign!humanVars,
       Campaign!ConfigAssumption
  <1>7. WrongsOnRecord'
    <2>1. /\ at = "probes" /\ f \notin Campaign!Probed
          /\ features' = features \union {<<f, good>>} /\ (good => wrong' = wrong)
          /\ UNCHANGED <<at, sample, faults, counts, chats, trail, failed>>
      BY DEF Campaign!Probe, Campaign!Blame, Campaign!Receipt, Campaign!worldVars,
         Campaign!humanVars
    <2>2. Campaign!Mismatched' = Campaign!Mismatched /\ Sent' = Sent
      BY <2>1 DEF Campaign!Mismatched, Sent
    <2>3. \A passed \in BOOLEAN : <<f, passed>> \notin features
      BY <2>1 DEF Campaign!Probed
    <2>4. ProbeFailed => ProbeFailed'
      BY <2>1, <2>3 DEF ProbeFailed
    <2>5. ~good => ProbeFailed'
      BY <2>1, <2>3 DEF ProbeFailed
    <2>6. \A g \in Campaign!OwnReceipts : <<g, TRUE>> \in features' <=> <<g, TRUE>> \in features
      BY <2>1, CampaignNumbers
    <2>7. {"worker_retry_dlq", "agentic_workflows", "writeback"} \subseteq Campaign!OwnReceipts
      BY DEF Campaign!OwnReceipts
    <2>8. OnRecord => OnRecord'
      BY <2>1, <2>2, <2>4, <2>6, <2>7 DEF OnRecord
    <2> QED
      BY <2>1, <2>5, <2>8 DEF CampaignInv, WrongsOnRecord, OnRecord
  <1>8. ReportKept'
    BY DEF CampaignInv, ReportKept, CampaignTyped, Campaign!Probe, Campaign!Blame,
       Campaign!Receipt, Campaign!worldVars, Campaign!humanVars, Campaign!ConfigAssumption
  <1> QED
    BY <1>1, <1>2, <1>3, <1>4, <1>5, <1>6, <1>7, <1>8 DEF CampaignInv

\* The probes are through (run).
LEMMA EndProbesKeeps ==
    ASSUME Campaign!ConfigAssumption, CampaignInv,
           Campaign!EndProbes
    PROVE  CampaignInv'
  <1>1. CampaignTyped'
    BY DEF CampaignInv, CampaignTyped, Campaign!TypeOK, InCycle, Rotated, Tracks, Verdicts,
       Campaign!EndProbes, Campaign!Go, Campaign!worldVars, Campaign!humanVars,
       Campaign!ConfigAssumption
  <1>2. SharesKept'
    BY DEF CampaignInv, SharesKept, CampaignTyped, Campaign!TypeOK, Sent, Campaign!EndProbes,
       Campaign!Go, Campaign!worldVars, Campaign!humanVars, Campaign!ConfigAssumption
  <1>3. DissentShare'
    BY DEF CampaignInv, DissentShare, Campaign!EndProbes, Campaign!Go, Campaign!worldVars,
       Campaign!humanVars, Campaign!ConfigAssumption
  <1>4. DarkKept'
    BY DEF CampaignInv, DarkKept, CampaignTyped, InCycle, Rotated, Campaign!TypeOK,
       Campaign!OwnReceipts, Campaign!EndProbes, Campaign!Go, Campaign!worldVars,
       Campaign!humanVars, Campaign!ConfigAssumption
  <1>5. TrailKept'
    BY DEF CampaignInv, TrailKept, CampaignTyped, InCycle, Campaign!EndProbes, Campaign!Go,
       Campaign!worldVars, Campaign!humanVars, Campaign!ConfigAssumption
  <1>6. ReceiptsTrue'
    BY DEF CampaignInv, ReceiptsTrue, InCycle, Rotated, Campaign!OwnReceipts, Campaign!EndProbes,
       Campaign!Go, Campaign!worldVars, Campaign!humanVars, Campaign!ConfigAssumption
  <1>7. WrongsOnRecord'
    <2>1. /\ at = "probes" /\ at' \in {"agentic", "hitl"} /\ (at' = "hitl" => ~LiveRequired)
          /\ UNCHANGED <<faults, counts, chats, trail, features, failed, wrong>>
      BY CampaignNumbers DEF Campaign!EndProbes, Campaign!Go, Campaign!worldVars, Campaign!humanVars
    <2>2. Campaign!Mismatched' = Campaign!Mismatched /\ (ProbeFailed' <=> ProbeFailed)
      BY <2>1 DEF Campaign!Mismatched, ProbeFailed
    <2>3. OnRecord => OnRecord'
      BY <2>1, <2>2 DEF OnRecord, Sent
    <2> QED
      BY <2>1, <2>3 DEF CampaignInv, WrongsOnRecord
  <1>8. ReportKept'
    BY DEF CampaignInv, ReportKept, CampaignTyped, Campaign!EndProbes, Campaign!Go,
       Campaign!worldVars, Campaign!humanVars, Campaign!ConfigAssumption
  <1> QED
    BY <1>1, <1>2, <1>3, <1>4, <1>5, <1>6, <1>7, <1>8 DEF CampaignInv

\* The agentic workflow captures the last decision (_execute_agentic_workflow).
LEMMA ProbeAgenticKeeps ==
    ASSUME Campaign!ConfigAssumption, CampaignInv, NEW good \in BOOLEAN,
           Campaign!ProbeAgentic(good)
    PROVE  CampaignInv'
  <1>1. /\ at = "agentic" /\ at' = "hitl"
        /\ UNCHANGED <<cycle, sample, faults, counts, chats, dark, trail, pilot, failed, report>>
        /\ Campaign!Receipt("agentic_workflows", good)
    BY DEF Campaign!ProbeAgentic, Campaign!Go, Campaign!Blame, Campaign!Receipt, Campaign!worldVars
  <1>2. /\ \E id \in Ids : captured' = Append(captured, [id |-> id, track |-> "agentic"])
        /\ good => wrong' = wrong
    BY DEF Campaign!ProbeAgentic, Campaign!Go, Campaign!Blame, Campaign!Receipt, Campaign!worldVars
  <1>3. CampaignTyped'
    BY DEF CampaignInv, CampaignTyped, Campaign!TypeOK, InCycle, Rotated, Tracks, Verdicts,
       Campaign!ProbeAgentic, Campaign!Go, Campaign!Blame, Campaign!Receipt, Campaign!worldVars,
       Campaign!ConfigAssumption
  <1>4. SharesKept'
    BY DEF CampaignInv, SharesKept, CampaignTyped, Campaign!TypeOK, Sent, Campaign!ProbeAgentic,
       Campaign!Go, Campaign!Blame, Campaign!Receipt, Campaign!worldVars,
       Campaign!ConfigAssumption
  <1>5. DissentShare'
    BY DEF CampaignInv, DissentShare, Campaign!ProbeAgentic, Campaign!Go, Campaign!Blame,
       Campaign!Receipt, Campaign!worldVars, Campaign!ConfigAssumption
  <1>6. DarkKept'
    BY DEF CampaignInv, DarkKept, CampaignTyped, InCycle, Rotated, Campaign!TypeOK,
       Campaign!OwnReceipts, Campaign!ProbeAgentic, Campaign!Go, Campaign!Blame, Campaign!Receipt,
       Campaign!worldVars, Campaign!ConfigAssumption
  <1>7. TrailKept'
    <2>1. captured \in Seq([id : Ids, track : Tracks]) /\ TrailKept
      BY DEF CampaignInv, CampaignTyped
    <2>2. ASSUME NEW id \in Ids, captured' = Append(captured, [id |-> id, track |-> "agentic"])
          PROVE  TrailKept'
      <3>1. /\ Len(captured') = Len(captured) + 1 /\ DOMAIN captured' = 1 .. Len(captured')
            /\ \A i \in DOMAIN captured : captured'[i] = captured[i]
            /\ captured'[Len(captured')].track = "agentic"
            /\ DOMAIN captured = 1 .. Len(captured) /\ Len(captured) \in Nat
        BY <2>1, <2>2, AppendProperties
      <3>2. /\ trail' = trail /\ Len(trail) \in Nat /\ DOMAIN trail = 1 .. Len(trail)
            /\ Len(trail) <= Len(captured) /\ DOMAIN trail \subseteq DOMAIN captured
        <4>1. trail' = trail /\ Len(trail) <= Len(captured)
          BY <1>1, <2>1 DEF TrailKept
        <4>2. trail \in Seq([id : Ids, track : Tracks, action : Verdicts, matched : BOOLEAN])
          BY DEF CampaignInv, CampaignTyped
        <4>3. Len(trail) \in Nat /\ DOMAIN trail = 1 .. Len(trail)
          BY <4>2
        <4> QED
          BY <3>1, <4>1, <4>3
      <3>3. \A i \in DOMAIN captured : captured[i].track # "agentic"
        BY <1>1, <2>1 DEF TrailKept
      <3>4. \A i \in DOMAIN trail' :
               trail'[i].id = captured'[i].id /\ trail'[i].track = captured'[i].track
        BY <2>1, <3>1, <3>2 DEF TrailKept
      <3>5. \A i, j \in DOMAIN captured' : i < j => captured'[i].track # "agentic"
        BY <3>1, <3>3
      <3>6. \A i \in DOMAIN captured' : captured'[i].track = "agentic" => at' = "hitl"
        BY <1>1, <3>1, <3>3
      <3>7. Len(trail') <= Len(captured')
        BY <3>1, <3>2
      <3>8. at' \notin {"writeback", "chat_feature", "report"}
        BY <1>1
      <3> QED
        BY <3>4, <3>5, <3>6, <3>7, <3>8 DEF TrailKept, InCycle
    <2> QED
      BY <1>2, <2>2
  <1>8. ReceiptsTrue'
    BY DEF CampaignInv, ReceiptsTrue, InCycle, Rotated, Campaign!OwnReceipts,
       Campaign!ProbeAgentic, Campaign!Go, Campaign!Blame, Campaign!Receipt, Campaign!worldVars,
       Campaign!ConfigAssumption
  <1>9. WrongsOnRecord'
    <2>1. Campaign!Mismatched' = Campaign!Mismatched
      BY <1>1 DEF Campaign!Mismatched
    <2>2. ProbeFailed => ProbeFailed'
      BY <1>1, OwnReceipt DEF Campaign!OwnReceipts
    <2>3. \A f : f # "agentic_workflows" =>
             (<<f, TRUE>> \in features' <=> <<f, TRUE>> \in features)
      BY <1>1 DEF Campaign!Receipt
    <2>4. OnRecord => OnRecord'
      BY <1>1, <2>1, <2>2, <2>3 DEF OnRecord, Sent
    <2>5. ~good => OnRecord'
      <3>1. <<"agentic_workflows", TRUE>> \notin features
        BY <1>1 DEF CampaignInv, ReceiptsTrue
      <3>2. ~good => <<"agentic_workflows", TRUE>> \notin features'
        BY <1>1, <3>1 DEF Campaign!Receipt
      <3>3. LiveRequired
        BY <1>1 DEF CampaignInv, CampaignTyped
      <3> QED
        BY <1>1, <3>2, <3>3 DEF OnRecord
    <2> QED
      BY <1>1, <1>2, <2>4, <2>5 DEF CampaignInv, WrongsOnRecord
  <1>10. ReportKept'
    BY DEF CampaignInv, ReportKept, CampaignTyped, Campaign!ProbeAgentic, Campaign!Go,
       Campaign!Blame, Campaign!Receipt, Campaign!worldVars, Campaign!ConfigAssumption
  <1> QED
    BY <1>3, <1>4, <1>5, <1>6, <1>7, <1>8, <1>9, <1>10 DEF CampaignInv

\* The autopilot resolves the next decision, or sees that it was resolved (_resolve_hitl).
LEMMA ResolveKeeps ==
    ASSUME Campaign!ConfigAssumption, CampaignInv, NEW verdict \in {"approve", "reject", "hold"},
           NEW good \in BOOLEAN,
           Campaign!Resolve(verdict, good)
    PROVE  CampaignInv'
  <1> DEFINE this == captured[Len(trail) + 1]
             seen == \E i \in DOMAIN trail : trail[i].id = this.id
             more == IF ~seen /\ verdict = "approve" THEN 1 ELSE 0
             dissent == ~seen /\ verdict = "approve" /\ Campaign!Dissents(pilot.approvable + more)
             action == IF seen THEN "duplicate" ELSE IF dissent THEN "reject" ELSE verdict
             row == [id |-> this.id, track |-> this.track, action |-> action,
                     matched |-> good /\ ~seen]
  <1>1. /\ at = "hitl" /\ at' = at /\ Len(trail) < Len(captured)
        /\ UNCHANGED <<cycle, sample, faults, counts, chats, dark, captured, features, failed,
                       report>>
    BY DEF Campaign!Resolve, Campaign!Blame, Campaign!worldVars
  <1>2. /\ trail' = Append(trail, row)
        /\ pilot' = [approvable |-> pilot.approvable + more,
                     dissent |-> pilot.dissent + (IF dissent THEN 1 ELSE 0)]
        /\ action \notin {"approve", "reject"} => good
        /\ good => wrong' = wrong
    BY DEF Campaign!Resolve, Campaign!Blame, Campaign!worldVars
  <1>3. /\ captured \in Seq([id : Ids, track : Tracks])
        /\ trail \in Seq([id : Ids, track : Tracks, action : Verdicts, matched : BOOLEAN])
        /\ pilot.approvable \in Nat /\ pilot.dissent \in Nat
    BY DEF CampaignInv, CampaignTyped
  <1>4. Len(trail) + 1 \in DOMAIN captured /\ this \in [id : Ids, track : Tracks]
    <2>1. Len(trail) \in Nat /\ Len(captured) \in Nat /\ DOMAIN captured = 1 .. Len(captured)
      BY <1>3
    <2>2. Len(trail) + 1 \in DOMAIN captured
      BY <1>1, <2>1
    <2>3. \A i \in DOMAIN captured : captured[i] \in [id : Ids, track : Tracks]
      BY <1>3, <2>1, ElementOfSeq
    <2> QED
      BY <2>2, <2>3
  <1>5. action \in Verdicts /\ (good /\ ~seen) \in BOOLEAN
    BY DEF Verdicts
  <1>6. row \in [id : Ids, track : Tracks, action : Verdicts, matched : BOOLEAN]
    BY <1>4, <1>5
  <1>7. /\ trail' \in Seq([id : Ids, track : Tracks, action : Verdicts, matched : BOOLEAN])
        /\ Len(trail') = Len(trail) + 1 /\ trail'[Len(trail) + 1] = row
        /\ \A i \in 1 .. Len(trail) : trail'[i] = trail[i]
        /\ DOMAIN trail = 1 .. Len(trail) /\ DOMAIN trail' = 1 .. Len(trail) + 1
        /\ Len(trail) \in Nat
    <2> HIDE DEF row
    <2> QED
      BY <1>2, <1>3, <1>6, AppendProperties
  <1>8. CampaignTyped'
    <2>1. more \in Nat /\ (IF dissent THEN 1 ELSE 0) \in Nat
      OBVIOUS
    <2>2. pilot' \in [approvable : Nat, dissent : Nat]
      <3> HIDE DEF more, dissent
      <3> QED
        BY <1>2, <1>3, <2>1
    <2>3. Campaign!TypeOK'
      BY <1>1 DEF CampaignInv, CampaignTyped, Campaign!TypeOK
    <2> HIDE DEF row
    <2> QED
      BY <1>1, <1>7, <2>2, <2>3 DEF CampaignInv, CampaignTyped
  <1>9. SharesKept'
    BY DEF CampaignInv, SharesKept, CampaignTyped, Campaign!TypeOK, Sent, Campaign!Resolve,
       Campaign!Blame, Campaign!worldVars, Campaign!ConfigAssumption
  <1>10. DissentShare'
    <2> SUFFICES ASSUME DissentEvery > 0
                 PROVE  /\ pilot'.dissent * DissentEvery <= pilot'.approvable
                        /\ pilot'.approvable < (pilot'.dissent + 1) * DissentEvery
      BY DEF DissentShare
    <2> DEFINE n == pilot.approvable
               q == pilot.dissent
    <2>1. /\ n \in Nat /\ q \in Nat /\ DissentEvery \in Nat
          /\ q * DissentEvery <= n /\ n < (q + 1) * DissentEvery
      BY <1>3, CampaignNumbers DEF CampaignInv, DissentShare
    <2>2. CASE more = 0
      <3>1. ~dissent /\ pilot'.approvable = n /\ pilot'.dissent = q
        <4>1. ~dissent
          BY <2>2
        <4> HIDE DEF more, dissent
        <4> QED
          BY <1>2, <2>1, <2>2, <4>1
      <3> HIDE DEF n, q
      <3> QED
        BY <2>1, <3>1
    <2>3. CASE more = 1
      <3>1. dissent <=> (n + 1) % DissentEvery = 0
        BY <2>3 DEF Campaign!Dissents
      <3>2. pilot'.approvable = n + 1 /\ pilot'.dissent = IF dissent THEN q + 1 ELSE q
        <4> HIDE DEF more, dissent
        <4> QED
          BY <1>2, <2>1, <2>3
      <3> HIDE DEF n, q, dissent
      <3>3. CASE dissent
        <4>1. n + 1 = (q + 1) * DissentEvery
          BY <2>1, <3>1, <3>3, NextMultiple
        <4>2. (q + 1 + 1) * DissentEvery = (q + 1) * DissentEvery + DissentEvery
          BY <2>1
        <4> QED
          BY <2>1, <3>2, <3>3, <4>1, <4>2
      <3>4. CASE ~dissent
        <4>1. n + 1 # (q + 1) * DissentEvery
          BY <2>1, <3>1, <3>4, NextMultiple
        <4>2. (q + 1) * DissentEvery \in Nat
          BY <2>1
        <4> QED
          BY <2>1, <3>2, <3>4, <4>1, <4>2
      <3> QED
        BY <3>3, <3>4
    <2>4. more \in {0, 1}
      OBVIOUS
    <2> QED
      BY <2>2, <2>3, <2>4
  <1>11. DarkKept'
    BY DEF CampaignInv, DarkKept, CampaignTyped, InCycle, Rotated, Campaign!TypeOK,
       Campaign!OwnReceipts, Campaign!Resolve, Campaign!Blame, Campaign!worldVars,
       Campaign!ConfigAssumption
  <1>12. TrailKept'
    <2>1. row.id = this.id /\ row.track = this.track
      OBVIOUS
    <2> HIDE DEF row
    <2>2. TrailKept
      BY DEF CampaignInv
    <2>3. \A i \in DOMAIN trail' :
             trail'[i].id = captured'[i].id /\ trail'[i].track = captured'[i].track
      BY <1>1, <1>7, <2>1, <2>2 DEF TrailKept
    <2>4. Len(trail') <= Len(captured')
      BY <1>1, <1>3, <1>7
    <2> QED
      BY <1>1, <2>2, <2>3, <2>4 DEF TrailKept, InCycle
  <1>13. ReceiptsTrue'
    BY DEF CampaignInv, ReceiptsTrue, InCycle, Rotated, Campaign!OwnReceipts, Campaign!Resolve,
       Campaign!Blame, Campaign!worldVars, Campaign!ConfigAssumption
  <1>14. WrongsOnRecord'
    <2>1. good \/ action \in {"approve", "reject"}
      BY <1>2
    <2>2. row.action = action /\ (~good => ~row.matched)
      OBVIOUS
    <2> HIDE DEF row, action
    <2>3. \A i \in Campaign!Mismatched : i \in Campaign!Mismatched'
      BY <1>7 DEF Campaign!Mismatched
    <2>4. ~good => Len(trail) + 1 \in Campaign!Mismatched'
      BY <1>7, <2>1, <2>2 DEF Campaign!Mismatched
    <2>5. OnRecord => OnRecord'
      BY <1>1, <2>3 DEF OnRecord, ProbeFailed, Sent
    <2>6. ~good => OnRecord'
      BY <2>4 DEF OnRecord
    <2> QED
      BY <1>1, <1>2, <2>5, <2>6 DEF CampaignInv, WrongsOnRecord
  <1>15. ReportKept'
    BY DEF CampaignInv, ReportKept, CampaignTyped, Campaign!Resolve, Campaign!Blame,
       Campaign!worldVars, Campaign!ConfigAssumption
  <1> QED
    BY <1>8, <1>9, <1>10, <1>11, <1>12, <1>13, <1>14, <1>15 DEF CampaignInv

\* Every captured decision was gone through (_resolve_hitl).
LEMMA EndResolveKeeps ==
    ASSUME Campaign!ConfigAssumption, CampaignInv,
           Campaign!EndResolve
    PROVE  CampaignInv'
  <1>1. CampaignTyped'
    BY DEF CampaignInv, CampaignTyped, Campaign!TypeOK, InCycle, Rotated, Tracks, Verdicts,
       Campaign!EndResolve, Campaign!Go, Campaign!Receipt, Campaign!worldVars, Campaign!humanVars,
       Campaign!ConfigAssumption
  <1>2. SharesKept'
    BY DEF CampaignInv, SharesKept, CampaignTyped, Campaign!TypeOK, Sent, Campaign!EndResolve,
       Campaign!Go, Campaign!Receipt, Campaign!worldVars, Campaign!humanVars,
       Campaign!ConfigAssumption
  <1>3. DissentShare'
    BY DEF CampaignInv, DissentShare, Campaign!EndResolve, Campaign!Go, Campaign!Receipt,
       Campaign!worldVars, Campaign!humanVars, Campaign!ConfigAssumption
  <1>4. DarkKept'
    BY DEF CampaignInv, DarkKept, CampaignTyped, InCycle, Rotated, Campaign!TypeOK,
       Campaign!OwnReceipts, Campaign!EndResolve, Campaign!Go, Campaign!Receipt,
       Campaign!worldVars, Campaign!humanVars, Campaign!ConfigAssumption
  <1>5. TrailKept'
    BY DEF CampaignInv, TrailKept, CampaignTyped, InCycle, Campaign!EndResolve, Campaign!Go,
       Campaign!Receipt, Campaign!worldVars, Campaign!humanVars, Campaign!ConfigAssumption
  <1>6. ReceiptsTrue'
    BY DEF CampaignInv, ReceiptsTrue, InCycle, Rotated, Campaign!OwnReceipts, Campaign!EndResolve,
       Campaign!Go, Campaign!Receipt, Campaign!worldVars, Campaign!humanVars,
       Campaign!ConfigAssumption
  <1>7. WrongsOnRecord'
    <2>1. /\ at = "hitl" /\ at' = "writeback"
          /\ UNCHANGED <<faults, counts, chats, trail, failed, wrong>>
          /\ \E passed \in BOOLEAN : Campaign!Receipt("hitl_approval_rejection", passed)
      BY DEF Campaign!EndResolve, Campaign!Go, Campaign!Receipt, Campaign!worldVars,
         Campaign!humanVars
    <2>2. Campaign!Mismatched' = Campaign!Mismatched
      BY <2>1 DEF Campaign!Mismatched
    <2>3. ProbeFailed => ProbeFailed'
      BY <2>1, OwnReceipt DEF Campaign!OwnReceipts
    <2>4. \A f : f # "hitl_approval_rejection" =>
             (<<f, TRUE>> \in features' <=> <<f, TRUE>> \in features)
      BY <2>1 DEF Campaign!Receipt
    <2>5. OnRecord => OnRecord'
      BY <2>1, <2>2, <2>3, <2>4 DEF OnRecord, Sent
    <2> QED
      BY <2>1, <2>5 DEF CampaignInv, WrongsOnRecord
  <1>8. ReportKept'
    BY DEF CampaignInv, ReportKept, CampaignTyped, Campaign!EndResolve, Campaign!Go,
       Campaign!Receipt, Campaign!worldVars, Campaign!humanVars, Campaign!ConfigAssumption
  <1> QED
    BY <1>1, <1>2, <1>3, <1>4, <1>5, <1>6, <1>7, <1>8 DEF CampaignInv

\* The tasks of the write-back are compared with the trail (_probe_writeback_and_learning).
LEMMA ProbeWritebackKeeps ==
    ASSUME Campaign!ConfigAssumption, CampaignInv, NEW good \in BOOLEAN,
           Campaign!ProbeWriteback(good)
    PROVE  CampaignInv'
  <1>1. CampaignTyped'
    BY DEF CampaignInv, CampaignTyped, Campaign!TypeOK, InCycle, Rotated, Tracks, Verdicts,
       Campaign!ProbeWriteback, Campaign!Go, Campaign!Blame, Campaign!Receipt, Campaign!worldVars,
       Campaign!humanVars, Campaign!ConfigAssumption
  <1>2. SharesKept'
    BY DEF CampaignInv, SharesKept, CampaignTyped, Campaign!TypeOK, Sent, Campaign!ProbeWriteback,
       Campaign!Go, Campaign!Blame, Campaign!Receipt, Campaign!worldVars, Campaign!humanVars,
       Campaign!ConfigAssumption
  <1>3. DissentShare'
    BY DEF CampaignInv, DissentShare, Campaign!ProbeWriteback, Campaign!Go, Campaign!Blame,
       Campaign!Receipt, Campaign!worldVars, Campaign!humanVars, Campaign!ConfigAssumption
  <1>4. DarkKept'
    BY DEF CampaignInv, DarkKept, CampaignTyped, InCycle, Rotated, Campaign!TypeOK,
       Campaign!OwnReceipts, Campaign!ProbeWriteback, Campaign!Go, Campaign!Blame,
       Campaign!Receipt, Campaign!worldVars, Campaign!humanVars, Campaign!ConfigAssumption
  <1>5. TrailKept'
    BY DEF CampaignInv, TrailKept, CampaignTyped, InCycle, Campaign!ProbeWriteback, Campaign!Go,
       Campaign!Blame, Campaign!Receipt, Campaign!worldVars, Campaign!humanVars,
       Campaign!ConfigAssumption
  <1>6. ReceiptsTrue'
    BY DEF CampaignInv, ReceiptsTrue, InCycle, Rotated, Campaign!OwnReceipts,
       Campaign!ProbeWriteback, Campaign!Go, Campaign!Blame, Campaign!Receipt, Campaign!worldVars,
       Campaign!humanVars, Campaign!ConfigAssumption
  <1>7. WrongsOnRecord'
    <2>1. /\ at = "writeback" /\ at' = "chat_feature" /\ (good => wrong' = wrong)
          /\ UNCHANGED <<sample, faults, counts, chats, trail, failed>>
          /\ \E passed \in BOOLEAN : /\ passed => good
                                     /\ Campaign!Receipt("writeback", passed)
      BY DEF Campaign!ProbeWriteback, Campaign!Go, Campaign!Blame, Campaign!Receipt,
         Campaign!worldVars, Campaign!humanVars
    <2>2. Campaign!Mismatched' = Campaign!Mismatched
      BY <2>1 DEF Campaign!Mismatched
    <2>3. ProbeFailed => ProbeFailed'
      BY <2>1, OwnReceipt DEF Campaign!OwnReceipts
    <2>4. \A f : f # "writeback" => (<<f, TRUE>> \in features' <=> <<f, TRUE>> \in features)
      BY <2>1 DEF Campaign!Receipt
    <2>5. OnRecord => OnRecord'
      BY <2>1, <2>2, <2>3, <2>4 DEF OnRecord, Sent
    <2>6. ~good => <<"writeback", TRUE>> \notin features'
      BY <2>1 DEF Campaign!Receipt, CampaignInv, ReceiptsTrue
    <2> QED
      BY <2>1, <2>5, <2>6 DEF CampaignInv, WrongsOnRecord, OnRecord
  <1>8. ReportKept'
    BY DEF CampaignInv, ReportKept, CampaignTyped, Campaign!ProbeWriteback, Campaign!Go,
       Campaign!Blame, Campaign!Receipt, Campaign!worldVars, Campaign!humanVars,
       Campaign!ConfigAssumption
  <1> QED
    BY <1>1, <1>2, <1>3, <1>4, <1>5, <1>6, <1>7, <1>8 DEF CampaignInv

\* The questions become a receipt (_record_chat_feature).
LEMMA RecordChatFeatureKeeps ==
    ASSUME Campaign!ConfigAssumption, CampaignInv,
           Campaign!RecordChatFeature
    PROVE  CampaignInv'
  <1>1. CampaignTyped'
    BY DEF CampaignInv, CampaignTyped, Campaign!TypeOK, InCycle, Rotated, Tracks, Verdicts,
       Campaign!RecordChatFeature, Campaign!Go, Campaign!Receipt, Campaign!worldVars,
       Campaign!humanVars, Campaign!ConfigAssumption
  <1>2. SharesKept'
    BY DEF CampaignInv, SharesKept, CampaignTyped, Campaign!TypeOK, Sent,
       Campaign!RecordChatFeature, Campaign!Go, Campaign!Receipt, Campaign!worldVars,
       Campaign!humanVars, Campaign!ConfigAssumption
  <1>3. DissentShare'
    BY DEF CampaignInv, DissentShare, Campaign!RecordChatFeature, Campaign!Go, Campaign!Receipt,
       Campaign!worldVars, Campaign!humanVars, Campaign!ConfigAssumption
  <1>4. DarkKept'
    BY DEF CampaignInv, DarkKept, CampaignTyped, InCycle, Rotated, Campaign!TypeOK,
       Campaign!OwnReceipts, Campaign!RecordChatFeature, Campaign!Go, Campaign!Receipt,
       Campaign!worldVars, Campaign!humanVars, Campaign!ConfigAssumption
  <1>5. TrailKept'
    BY DEF CampaignInv, TrailKept, CampaignTyped, InCycle, Campaign!RecordChatFeature,
       Campaign!Go, Campaign!Receipt, Campaign!worldVars, Campaign!humanVars,
       Campaign!ConfigAssumption
  <1>6. ReceiptsTrue'
    BY DEF CampaignInv, ReceiptsTrue, InCycle, Rotated, Campaign!OwnReceipts,
       Campaign!RecordChatFeature, Campaign!Go, Campaign!Receipt, Campaign!worldVars,
       Campaign!humanVars, Campaign!ConfigAssumption
  <1>7. WrongsOnRecord'
    <2>1. /\ at = "chat_feature" /\ at' = "report"
          /\ UNCHANGED <<faults, counts, chats, trail, failed, wrong>>
          /\ \E passed \in BOOLEAN : Campaign!Receipt("chat_inference", passed)
      BY CampaignNumbers DEF Campaign!RecordChatFeature, Campaign!Go, Campaign!Receipt,
         Campaign!worldVars, Campaign!humanVars
    <2>2. Campaign!Mismatched' = Campaign!Mismatched
      BY <2>1 DEF Campaign!Mismatched
    <2>3. ProbeFailed => ProbeFailed'
      BY <2>1, OwnReceipt DEF Campaign!OwnReceipts
    <2>4. \A f : f # "chat_inference" => (<<f, TRUE>> \in features' <=> <<f, TRUE>> \in features)
      BY <2>1 DEF Campaign!Receipt
    <2>5. OnRecord => OnRecord'
      BY <2>1, <2>2, <2>3, <2>4 DEF OnRecord, Sent
    <2> QED
      BY <2>1, <2>5 DEF CampaignInv, WrongsOnRecord
  <1>8. ReportKept'
    BY DEF CampaignInv, ReportKept, CampaignTyped, Campaign!RecordChatFeature, Campaign!Go,
       Campaign!Receipt, Campaign!worldVars, Campaign!humanVars, Campaign!ConfigAssumption
  <1> QED
    BY <1>1, <1>2, <1>3, <1>4, <1>5, <1>6, <1>7, <1>8 DEF CampaignInv

\* A run that raises, or is interrupted, still reports (run).
LEMMA InterruptedKeeps ==
    ASSUME Campaign!ConfigAssumption, CampaignInv,
           Campaign!Interrupted
    PROVE  CampaignInv'
  <1>1. CampaignTyped'
    BY DEF CampaignInv, CampaignTyped, Campaign!TypeOK, InCycle, Rotated, Tracks, Verdicts,
       Campaign!Interrupted, Campaign!Go, Campaign!Note, Campaign!worldVars, Campaign!humanVars,
       Campaign!ConfigAssumption
  <1>2. SharesKept'
    BY DEF CampaignInv, SharesKept, CampaignTyped, Campaign!TypeOK, Sent, Campaign!Interrupted,
       Campaign!Go, Campaign!Note, Campaign!worldVars, Campaign!humanVars,
       Campaign!ConfigAssumption
  <1>3. DissentShare'
    BY DEF CampaignInv, DissentShare, Campaign!Interrupted, Campaign!Go, Campaign!Note,
       Campaign!worldVars, Campaign!humanVars, Campaign!ConfigAssumption
  <1>4. DarkKept'
    BY DEF CampaignInv, DarkKept, CampaignTyped, InCycle, Rotated, Campaign!TypeOK,
       Campaign!OwnReceipts, Campaign!Interrupted, Campaign!Go, Campaign!Note, Campaign!worldVars,
       Campaign!humanVars, Campaign!ConfigAssumption
  <1>5. TrailKept'
    BY DEF CampaignInv, TrailKept, CampaignTyped, InCycle, Campaign!Interrupted, Campaign!Go,
       Campaign!Note, Campaign!worldVars, Campaign!humanVars, Campaign!ConfigAssumption
  <1>6. ReceiptsTrue'
    BY DEF CampaignInv, ReceiptsTrue, InCycle, Rotated, Campaign!OwnReceipts,
       Campaign!Interrupted, Campaign!Go, Campaign!Note, Campaign!worldVars, Campaign!humanVars,
       Campaign!ConfigAssumption
  <1>7. WrongsOnRecord'
    BY DEF CampaignInv, WrongsOnRecord, OnRecord, Campaign!Mismatched, Sent, CampaignTyped,
       Campaign!TypeOK, Campaign!OwnReceipts, Campaign!Interrupted, Campaign!Go, Campaign!Note,
       Campaign!worldVars, Campaign!humanVars, Campaign!ConfigAssumption
  <1>8. ReportKept'
    BY DEF CampaignInv, ReportKept, CampaignTyped, Campaign!Interrupted, Campaign!Go,
       Campaign!Note, Campaign!worldVars, Campaign!humanVars, Campaign!ConfigAssumption
  <1> QED
    BY <1>1, <1>2, <1>3, <1>4, <1>5, <1>6, <1>7, <1>8 DEF CampaignInv

\* The report is what the audit made of the receipts (_build_report).
LEMMA BuildReportKeeps ==
    ASSUME Campaign!ConfigAssumption, CampaignInv,
           Campaign!BuildReport
    PROVE  CampaignInv'
  <1>1. CampaignTyped'
    BY DEF CampaignInv, CampaignTyped, Campaign!TypeOK, InCycle, Rotated, Tracks, Verdicts,
       Campaign!BuildReport, Campaign!Go, Campaign!worldVars, Campaign!humanVars,
       Campaign!ConfigAssumption
  <1>2. SharesKept'
    BY DEF CampaignInv, SharesKept, CampaignTyped, Campaign!TypeOK, Sent, Campaign!BuildReport,
       Campaign!Go, Campaign!worldVars, Campaign!humanVars, Campaign!ConfigAssumption
  <1>3. DissentShare'
    BY DEF CampaignInv, DissentShare, Campaign!BuildReport, Campaign!Go, Campaign!worldVars,
       Campaign!humanVars, Campaign!ConfigAssumption
  <1>4. DarkKept'
    BY DEF CampaignInv, DarkKept, CampaignTyped, InCycle, Rotated, Campaign!TypeOK,
       Campaign!OwnReceipts, Campaign!BuildReport, Campaign!Go, Campaign!worldVars,
       Campaign!humanVars, Campaign!ConfigAssumption
  <1>5. TrailKept'
    BY DEF CampaignInv, TrailKept, CampaignTyped, InCycle, Campaign!BuildReport, Campaign!Go,
       Campaign!worldVars, Campaign!humanVars, Campaign!ConfigAssumption
  <1>6. ReceiptsTrue'
    BY DEF CampaignInv, ReceiptsTrue, InCycle, Rotated, Campaign!OwnReceipts,
       Campaign!BuildReport, Campaign!Go, Campaign!worldVars, Campaign!humanVars,
       Campaign!ConfigAssumption
  <1>7. WrongsOnRecord'
    <2>1. /\ at \in {"report", "interrupted"} /\ at' = "done"
          /\ UNCHANGED <<faults, counts, chats, trail, features, failed, wrong>>
      BY DEF Campaign!BuildReport, Campaign!Go, Campaign!worldVars, Campaign!humanVars
    <2>2. Campaign!Mismatched' = Campaign!Mismatched /\ (ProbeFailed' <=> ProbeFailed)
      BY <2>1 DEF Campaign!Mismatched, ProbeFailed
    <2>3. OnRecord => OnRecord'
      BY <2>1, <2>2 DEF OnRecord, Sent
    <2> QED
      BY <2>1, <2>3 DEF CampaignInv, WrongsOnRecord
  <1>8. ReportKept'
    <2>1. /\ at \in {"report", "interrupted"} /\ at' = "done"
          /\ report' = IF failed \cup Campaign!audit_full_system_integrity = {}
                       THEN "passed" ELSE "failed"
          /\ UNCHANGED <<cycle, chats, captured, trail, features, failed>>
      BY DEF Campaign!BuildReport, Campaign!Go, Campaign!worldVars, Campaign!humanVars
    <2>2. Campaign!audit_full_system_integrity' = Campaign!audit_full_system_integrity
      BY <2>1 DEF Campaign!audit_full_system_integrity, Campaign!Mismatched, Campaign!Rows,
                  Campaign!ExpectedReuse, Campaign!Required, Campaign!FeaturePassed
    <2>3. report' = "passed" => failed = {} /\ Campaign!audit_full_system_integrity = {}
      BY <2>1
    <2>4. failed = {} => at = "report"
      BY <2>1 DEF CampaignInv, CampaignTyped
    <2>5. at = "report" => cycle = Cycles /\ Len(trail) = Len(captured)
      BY DEF CampaignInv, CampaignTyped, Rotated, TrailKept
    <2> QED
      BY <2>1, <2>2, <2>3, <2>4, <2>5 DEF ReportKept
  <1> QED
    BY <1>1, <1>2, <1>3, <1>4, <1>5, <1>6, <1>7, <1>8 DEF CampaignInv


\* The beginning of a campaign.
LEMMA CampaignBegins ==
    ASSUME Campaign!ConfigAssumption, Campaign!Init
    PROVE  CampaignInv
  <1>1. CampaignTyped
    BY CampaignNumbers DEF CampaignTyped, Campaign!TypeOK, Campaign!Init, InCycle, Rotated
  <1>2. SharesKept
    <2>1. FaultRate * (0 + 0) = 0 /\ RateUnit * 0 + 0 = 0
      BY CampaignNumbers
    <2> QED
      BY <2>1 DEF SharesKept, Sent, Campaign!Init
  <1>3. DissentShare
    BY CampaignNumbers DEF DissentShare, Campaign!Init
  <1>4. DarkKept /\ TrailKept /\ ReceiptsTrue /\ WrongsOnRecord /\ ReportKept
    BY DEF DarkKept, TrailKept, ReceiptsTrue, WrongsOnRecord, ReportKept, Campaign!Init
  <1> QED
    BY <1>1, <1>2, <1>3, <1>4 DEF CampaignInv

\* Every step keeps the invariant.
LEMMA CampaignSteps ==
    ASSUME Campaign!ConfigAssumption, CampaignInv, [Campaign!Next]_Campaign!vars
    PROVE  CampaignInv'
  <1>1. CASE Campaign!Step
    BY <1>1, ProbeWorkerKeeps, BeginCycleKeeps, IngestEventKeeps, InjectFaultKeeps, EndSampleKeeps,
       CycleRaisesKeeps, SkipChatKeeps, AskChatKeeps, PeriodicProbeKeeps, EndCycleKeeps,
       ProbeBlackoutKeeps, EndRotationKeeps, DemoKeeps, ProbeKeeps, EndProbesKeeps,
       ProbeAgenticKeeps, ResolveKeeps, EndResolveKeeps, ProbeWritebackKeeps,
       RecordChatFeatureKeeps, InterruptedKeeps, BuildReportKeeps
       DEF Campaign!Step
  <1>2. CASE UNCHANGED Campaign!vars
    <2>1. UNCHANGED <<at, cycle, sample, faults, counts, chats, dark, captured, trail, pilot,
                      features, failed, report, wrong>>
      BY <1>2 DEF Campaign!vars
    <2>2. CampaignTyped' /\ SharesKept' /\ DissentShare'
      BY <2>1 DEF CampaignInv, CampaignTyped, Campaign!TypeOK, SharesKept, Sent, DissentShare
    <2>3. DarkKept' /\ TrailKept' /\ ReceiptsTrue'
      BY <2>1 DEF CampaignInv, DarkKept, TrailKept, ReceiptsTrue
    <2>4. WrongsOnRecord'
      BY <2>1 DEF CampaignInv, WrongsOnRecord, OnRecord, Sent, ProbeFailed, Campaign!Mismatched
    <2>5. Campaign!audit_full_system_integrity' = Campaign!audit_full_system_integrity
      BY <2>1 DEF Campaign!audit_full_system_integrity, Campaign!Mismatched, Campaign!Rows,
                  Campaign!ExpectedReuse, Campaign!Required, Campaign!FeaturePassed
    <2>6. ReportKept'
      BY <2>1, <2>5 DEF CampaignInv, ReportKept
    <2> QED
      BY <2>2, <2>3, <2>4, <2>6 DEF CampaignInv
  <1> QED
    BY <1>1, <1>2 DEF Campaign!Next

\* The campaign counts with the same Cardinality.
LEMMA CampaignCardinality == \A S : Campaign!Cardinality(S) = Cardinality(S)
  BY DEF Campaign!Cardinality, Cardinality

\* What an audit that finds nothing says of the run.
LEMMA NothingFound ==
    ASSUME Campaign!audit_full_system_integrity = {}
    PROVE  /\ \A d \in Ids : Cardinality(Campaign!Rows(d)) > 1 =>
                 Campaign!ExpectedReuse(Campaign!Rows(d))
           /\ Campaign!Mismatched = {}
           /\ \A f \in Campaign!Required : <<f, TRUE>> \in features
           /\ LiveRequired => chats.model = chats.calls
  <1> DEFINE Reused == {d \in Ids : Campaign!Cardinality(Campaign!Rows(d)) > 1
                                    /\ ~Campaign!ExpectedReuse(Campaign!Rows(d))}
             Unpassed == {g \in Campaign!Required : ~Campaign!FeaturePassed(g)}
             Silent == IF LiveRequired /\ (chats.calls = 0 \/ chats.model # chats.calls)
                       THEN {"live_chat"} ELSE {}
  <1>1. /\ {"decision_reuse" : id \in Reused} = {}
        /\ {"hitl_request_result_mismatch" : i \in Campaign!Mismatched} = {}
        /\ {"feature_receipt" : f \in Unpassed} = {}
        /\ Silent = {}
    BY DEF Campaign!audit_full_system_integrity
  <1>2. Silent = {} => (LiveRequired => chats.model = chats.calls)
    OBVIOUS
  <1>3. Unpassed = {} => \A f \in Campaign!Required : <<f, TRUE>> \in features
    BY DEF Campaign!FeaturePassed
  <1>4. Reused = {} => \A d \in Ids : Cardinality(Campaign!Rows(d)) > 1 =>
                          Campaign!ExpectedReuse(Campaign!Rows(d))
    BY CampaignCardinality
  <1> HIDE DEF Reused, Unpassed, Silent
  <1>5. Reused = {} /\ Unpassed = {} /\ Campaign!Mismatched = {}
    BY <1>1
  <1> QED
    BY <1>1, <1>2, <1>3, <1>4, <1>5

\* A campaign that passed saw nothing wrong: whatever it would have been is on record.
LEMMA PassedUnblamed ==
    ASSUME Campaign!ConfigAssumption, CampaignInv, report = "passed"
    PROVE  wrong = {}
  <1>1. /\ failed = {} /\ Campaign!audit_full_system_integrity = {} /\ at = "done"
        /\ WrongsOnRecord /\ ReceiptsTrue
    BY DEF CampaignInv, ReportKept
  <1>2. /\ Campaign!Mismatched = {} /\ (LiveRequired => chats.model = chats.calls)
        /\ \A f \in Campaign!Required : <<f, TRUE>> \in features
    BY <1>1, NothingFound
  <1>3. /\ {"worker_retry_dlq", "world_event_stream", "chat_inference", "writeback"} \union Probes
               \subseteq Campaign!Required
        /\ LiveRequired => "agentic_workflows" \in Campaign!Required
    BY DEF Campaign!Required
  <1>4. ~ProbeFailed
    BY <1>2, <1>3 DEF ProbeFailed
  <1>5. chats.errors = 0 /\ counts.accepted = counts.submitted - faults.injected
    BY <1>1, <1>2, <1>3 DEF ReceiptsTrue
  <1>6. ~(counts.accepted + counts.ingested + faults.injected < counts.submitted + Sent)
    BY <1>1, <1>5, CampaignCounts DEF Sent
  <1>7. /\ {<<"worker_retry_dlq", TRUE>>, <<"writeback", TRUE>>} \subseteq features
        /\ LiveRequired => <<"agentic_workflows", TRUE>> \in features
    BY <1>2, <1>3
  <1>8. ~OnRecord
    BY <1>2, <1>4, <1>5, <1>6, <1>7 DEF OnRecord
  <1> QED
    BY <1>1, <1>8 DEF WrongsOnRecord

\* Two of a pair are all of it.
LEMMA PairOf ==
    ASSUME NEW S, IsFiniteSet(S), NEW i \in S, NEW j \in S, i # j
    PROVE  Cardinality(S) > 1 /\ (Cardinality(S) = 2 => S = {i, j})
  <1>1. IsFiniteSet(S \ {i}) /\ Cardinality(S \ {i}) = Cardinality(S) - 1 /\ Cardinality(S) \in Nat
    BY FS_RemoveElement, FS_CardinalityType
  <1>2. /\ IsFiniteSet((S \ {i}) \ {j})
        /\ Cardinality((S \ {i}) \ {j}) = Cardinality(S \ {i}) - 1
        /\ Cardinality((S \ {i}) \ {j}) \in Nat
    BY <1>1, FS_RemoveElement, FS_CardinalityType
  <1>3. Cardinality(S) = 2 => (S \ {i}) \ {j} = {}
    BY <1>1, <1>2, FS_EmptySet
  <1> QED
    BY <1>1, <1>2, <1>3

\* Two decisions of one id, in a campaign that passed.
LEMMA PassedReuse ==
    ASSUME Campaign!ConfigAssumption, CampaignInv, report = "passed",
           NEW i \in DOMAIN trail, NEW j \in DOMAIN trail, i < j, trail[i].id = trail[j].id
    PROVE  trail[i].track = "deterministic" /\ trail[j].track = "agentic"
  <1> DEFINE rows == Campaign!Rows(trail[i].id)
  <1>1. /\ trail \in Seq([id : Ids, track : Tracks, action : Verdicts, matched : BOOLEAN])
        /\ captured \in Seq([id : Ids, track : Tracks])
    BY DEF CampaignInv, CampaignTyped
  <1>2. /\ DOMAIN trail = 1 .. Len(trail) /\ Len(trail) \in Nat
        /\ DOMAIN captured = 1 .. Len(captured) /\ Len(captured) \in Nat
    BY <1>1
  <1>3. trail[i].id \in Ids
    <2>1. trail[i] \in [id : Ids, track : Tracks, action : Verdicts, matched : BOOLEAN]
      BY <1>1, <1>2, ElementOfSeq
    <2> QED
      BY <2>1
  <1>4. i \in rows /\ j \in rows /\ rows \subseteq 1 .. Len(trail) /\ i # j
    BY <1>2 DEF Campaign!Rows
  <1>5. IsFiniteSet(rows)
    <2>1. IsFiniteSet(1 .. Len(trail))
      BY <1>2, FS_Interval
    <2> HIDE DEF rows
    <2> QED
      BY <1>4, <2>1, FS_Subset
  <1>6. Campaign!ExpectedReuse(rows)
    <2>1. Cardinality(rows) > 1
      BY <1>4, <1>5, PairOf
    <2>2. Campaign!audit_full_system_integrity = {}
      BY DEF CampaignInv, ReportKept
    <2> QED
      BY <1>3, <2>1, <2>2, NothingFound
  <1>7. Cardinality(rows) = 2 /\ {trail[k].track : k \in rows} = {"deterministic", "agentic"}
    <2> HIDE DEF rows
    <2> QED
      BY <1>6, CampaignCardinality DEF Campaign!ExpectedReuse
  <1>8. rows = {i, j}
    BY <1>4, <1>5, <1>7, PairOf
  <1>9. trail[i].track # "agentic"
    <2>1. TrailKept
      BY DEF CampaignInv
    <2>2. Len(trail) <= Len(captured) /\ trail[i].track = captured[i].track
      BY <2>1 DEF TrailKept
    <2>3. i \in DOMAIN captured /\ j \in DOMAIN captured
      BY <1>2, <2>2
    <2> QED
      BY <2>1, <2>2, <2>3 DEF TrailKept
  <1>10. /\ trail[i].track \in {"deterministic", "agentic"}
         /\ \E k \in {i, j} : trail[k].track = "agentic"
    <2> HIDE DEF rows
    <2> QED
      BY <1>4, <1>7, <1>8
  <1> QED
    BY <1>9, <1>10

\* What the invariant says of a report.
LEMMA CampaignIsHonest ==
    ASSUME Campaign!ConfigAssumption, CampaignInv
    PROVE  Campaign!PassIsHonest /\ Campaign!BlackoutRecovers /\ Campaign!SharesAreKept
  <1>1. Campaign!PassIsHonest
    <2> SUFFICES ASSUME report = "passed"
                 PROVE  /\ wrong = {} /\ failed = {} /\ cycle = Cycles
                        /\ Len(trail) = Len(captured)
                        /\ \A i \in DOMAIN trail, j \in DOMAIN trail :
                              i < j /\ trail[i].id = trail[j].id =>
                                 trail[i].track = "deterministic" /\ trail[j].track = "agentic"
      BY DEF Campaign!PassIsHonest
    <2>1. failed = {} /\ cycle = Cycles /\ Len(trail) = Len(captured)
      BY DEF CampaignInv, ReportKept
    <2> QED
      BY <2>1, PassedUnblamed, PassedReuse
  <1>2. Campaign!BlackoutRecovers
    <2> SUFFICES ASSUME report = "passed", dark.done, dark.since < Cycles - 1
                 PROVE  ~dark.pending /\ <<"inference_blackout", TRUE>> \in features
      BY DEF Campaign!BlackoutRecovers
    <2>1. failed = {} /\ cycle = Cycles /\ at = "done" /\ DarkKept
      BY DEF CampaignInv, ReportKept
    <2>2. dark.since \in Nat /\ Cycles \in Nat
      BY CampaignCounts DEF CampaignInv, CampaignTyped
    <2>3. cycle # dark.since + 1
      BY <2>1, <2>2
    <2> QED
      BY <2>1, <2>3 DEF DarkKept
  <1>3. Campaign!SharesAreKept
    <2>1. at \in {"ingest", "chat"} /\ failed = {} =>
             RateUnit * faults.injected + faults.acc
                = FaultRate * (counts.submitted + (IF at = "ingest" THEN sample ELSE 0))
      BY DEF CampaignInv, SharesKept, Sent
    <2>2. DissentEvery > 0 => pilot.dissent = pilot.approvable \div DissentEvery
      BY CampaignNumbers, Quotient DEF CampaignInv, CampaignTyped, DissentShare
    <2> QED
      BY <2>1, <2>2 DEF Campaign!SharesAreKept
  <1> QED
    BY <1>1, <1>2, <1>3

\* The inductive invariant holds in every state (full_system.py).
THEOREM CampaignInvariance ==
    ASSUME Campaign!ConfigAssumption
    PROVE  Campaign!Spec => []CampaignInv
  <1>1. Campaign!Init => CampaignInv
    BY CampaignBegins
  <1>2. CampaignInv /\ [Campaign!Next]_Campaign!vars => CampaignInv'
    BY CampaignSteps
  <1> QED
    BY <1>1, <1>2, PTL DEF Campaign!Spec

\* For any number of cycles, events, probes and captured decisions, any rate of faults and
\* of dissent, and whatever the system answers: a report that passed saw nothing wrong, a
\* blackout is recovered from, and the shares are kept (FullSystemRunner.run,
\* audit_full_system_integrity, _should_inject_fault, _resolve_hitl).
THEOREM CampaignsAreHonest ==
    ASSUME Campaign!ConfigAssumption
    PROVE  Campaign!Spec => [](Campaign!PassIsHonest /\ Campaign!BlackoutRecovers
                               /\ Campaign!SharesAreKept)
  <1>1. CampaignInv => Campaign!PassIsHonest /\ Campaign!BlackoutRecovers /\ Campaign!SharesAreKept
    BY CampaignIsHonest
  <1> QED
    BY <1>1, CampaignInvariance, PTL
=============================================================================
