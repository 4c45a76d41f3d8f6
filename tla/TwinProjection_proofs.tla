----------------------- MODULE TwinProjection_proofs -----------------------
(***************************************************************************)
(* Proofs about the digital twin's projection, for any events, batches and  *)
(* manifest, any number of pool threads, raising calls and kills: what the  *)
(* twin shows is the strongest observation of its ledger, whoever was told  *)
(* that something is done may rely on it, and a bootstrap that answers has  *)
(* restored the manifest and the events it read.                            *)
(***************************************************************************)
EXTENDS TwinProjection, TLAPS

Jobs  == {"idle", "inline", "twin", "edge", "onboard", "bootstrap"}
Pcs   == {"root", "replay", "seed", "seedlink", "entity", "link", "record", "read", "write", "end"}
Kinds == {None, "event", "observed", "manifest"}

\* The observations of an event that is in hand: the ones before are on record.
InTodo == {"entity", "link", "record", "read", "write"}

Order == [seeded : BOOLEAN, events : SUBSET Events]
Thread == [job : Jobs, of : Events \cup Batches \cup {None} \cup Order, pc : Pcs,
           seeds : Seq(Twins \ {Root}), todo : Seq(Observation), rest : SUBSET Events]

\* What a thread was begun for, and what is left of it: a batch has its observations
\* and nothing else, an onboarding its entities.
Job(r) ==
    /\ r.job \in {"inline", "twin"} => r.of \in Events
    /\ r.job = "edge" => r.of \in Batches /\ r.seeds = <<>> /\ r.rest = {}
    /\ r.job = "onboard" => r.todo = <<>> /\ r.rest = {}
    /\ r.job = "bootstrap" => r.of \in Order

\* Where a thread is, there is something left to do.
Place(r) ==
    /\ r.job = "edge" => r.pc \in {"entity", "record", "read", "write", "end"}
    /\ r.pc \in {"seed", "seedlink"} => r.seeds # <<>>
    /\ r.pc \in InTodo => r.todo # <<>> /\ r.seeds = <<>>
    /\ r.pc = "replay" => r.rest # {} /\ r.todo = <<>> /\ r.seeds = <<>>
    /\ r.pc = "end" => r.rest = {} /\ r.todo = <<>> /\ r.seeds = <<>>

\* What it may rely on: the entity, the link and the record its earlier calls made.
Behind(r) ==
    /\ r.pc \in {"seed", "seedlink"} \cup InTodo /\ r.job # "edge" => entity[Root] # None
    /\ r.pc = "seedlink" => entity[Head(r.seeds)] # None
    /\ r.pc \in {"link", "record", "read", "write"} => entity[TwinOf[Head(r.todo).prop]] # None
    /\ r.pc \in {"record", "read", "write"} /\ r.job # "edge" => TwinOf[Head(r.todo).prop] \in linked
    /\ r.pc \in {"read", "write"} => Head(r.todo) \in recorded

\* The observation is on record, and for an event of an entity the store contains.
Kept(o) == o \in recorded /\ TwinOf[o.prop] \in linked

\* Nothing of what it was begun for is passed over.
Covers(r) ==
    /\ r.job \in {"inline", "twin"} => \A o \in Range(ObsOf[r.of]) : o \in Range(r.todo) \/ Kept(o)
    /\ r.job = "edge" => \A o \in Range(ObsOf[r.of]) : o \in Range(r.todo) \/ o \in recorded
    /\ r.job = "bootstrap" =>
          /\ r.of.seeded => Range(Seeds) \subseteq linked \cup Range(r.seeds)
          /\ \A e \in r.of.events : e \in r.rest \/
                 \A o \in Range(ObsOf[e]) : o \in Range(r.todo) \/ Kept(o)

Good(r) == r \in Thread /\ Job(r) /\ Place(r) /\ Behind(r) /\ Covers(r)

\* The stores, apart from the threads.
Ledgers ==
    /\ recorded \subseteq Observation /\ linked \subseteq Twins
    /\ property \in [Props -> Observation \cup {None}]
    /\ \A p \in Props : property[p] # None => property[p] \in recorded
    /\ entity \in [Twins -> Kinds]
    /\ manifest \in BOOLEAN /\ stored \subseteq Events
    /\ bus \in [Events -> {None, "ready", "acked", "dead"}]
    /\ delivered \in [Events -> 0 .. MaxDeliveries]
    /\ claim \in [Batches -> {None, "claimed", "completed"}]
    /\ answered \subseteq Batches /\ disturbed \subseteq Props
    /\ tFaults \in 0 .. MaxFaults /\ tCalls \in 0 .. MaxCalls

\* What is done is on record, and what is on record is of entities there are.
Done ==
    /\ \A o \in recorded : entity[TwinOf[o.prop]] # None
    /\ \A w \in linked : entity[w] # None /\ entity[Root] # None
    /\ \A b \in Batches : b \in answered \/ claim[b] = "completed" => Range(ObsOf[b]) \subseteq recorded
    /\ \A e \in Events : bus[e] = "acked" => \A o \in Range(ObsOf[e]) : Kept(o)

\* A thread about to write a property nobody disturbed is the only one, and what
\* it read has not changed.
Undisturbed ==
    /\ \A t \in Threads : At(t, "write") /\ Obs(t).prop \notin disturbed => Wins(Obs(t))
    /\ \A t, u \in Threads :
          (/\ At(t, "write") /\ At(u, "write") /\ Obs(t).prop = Obs(u).prop
           /\ Obs(t).prop \notin disturbed) => t = u

\* The inductive invariant.
TwinInv ==
    /\ Ledgers /\ DOMAIN thread = Threads /\ \A t \in Threads : Good(thread[t])
    /\ Done /\ StrongestShown /\ Undisturbed

----------------------------------------------------------------------------
\* The first of the observations or seeds left, and the others.
LEMMA HeadAndTail ==
    ASSUME NEW S, NEW s \in Seq(S), s # <<>>
    PROVE  Head(s) \in S /\ Tail(s) \in Seq(S) /\ Range(s) = {Head(s)} \cup Range(Tail(s))
  <1>1. Len(s) \in Nat \ {0} /\ DOMAIN s = 1 .. Len(s) /\ Head(s) = s[1] /\ Tail(s) \in Seq(S)
    OBVIOUS
  <1>2. /\ DOMAIN Tail(s) = 1 .. (Len(s) - 1)
        /\ \A i \in 1 .. (Len(s) - 1) : Tail(s)[i] = s[i + 1]
    BY <1>1
  <1>3. \A i \in 1 .. Len(s) : i = 1 \/ (i - 1 \in 1 .. (Len(s) - 1) /\ s[i] = Tail(s)[i - 1])
    BY <1>1, <1>2
  <1>4. \A i \in 1 .. (Len(s) - 1) : i + 1 \in 1 .. Len(s) /\ Tail(s)[i] = s[i + 1]
    BY <1>1, <1>2
  <1>5. Head(s) \in S
    BY <1>1
  <1>6. ASSUME NEW x \in Range(s) PROVE x \in {Head(s)} \cup Range(Tail(s))
    <2>1. PICK i \in 1 .. Len(s) : x = s[i]
      BY <1>1 DEF Range
    <2>2. CASE i = 1
      BY <1>1, <2>1, <2>2
    <2>3. CASE i # 1
      BY <1>2, <1>3, <2>1, <2>3 DEF Range
    <2> QED
      BY <2>2, <2>3
  <1>7. {Head(s)} \cup Range(Tail(s)) \subseteq Range(s)
    BY <1>1, <1>2, <1>4 DEF Range
  <1> QED
    BY <1>1, <1>5, <1>6, <1>7

\* Nothing is in an empty sequence.
LEMMA NothingLeft == Range(<<>>) = {}
  BY DEF Range

\* The ledger, the links and the entities only grow.
Grows ==
    /\ recorded \subseteq recorded' /\ linked \subseteq linked'
    /\ \A w \in Twins : entity[w] # None => entity'[w] # None

\* What a thread relies on is never taken away by another.
LEMMA GoodKept ==
    ASSUME TwinAssumption, NEW r, Good(r), Grows PROVE Good(r)'
  <1>1. r \in Thread /\ Job(r) /\ Place(r)
    BY DEF Good
  <1>2. \A o \in Observation : TwinOf[o.prop] \in Twins
    BY DEF TwinAssumption, Observation
  <1>3. Behind(r)'
    <2>1. r.pc \in InTodo => Head(r.todo) \in Observation
      BY <1>1, HeadAndTail DEF Thread, Place
    <2>2. r.pc = "seedlink" => Head(r.seeds) \in Twins \ {Root}
      BY <1>1, HeadAndTail DEF Thread, Place
    <2>3. Root \in Twins
      BY DEF Twins
    <2> QED
      BY <1>2, <2>1, <2>2, <2>3 DEF Good, Behind, Grows, InTodo
  <1>4. Covers(r)'
    BY DEF Good, Covers, Kept, Grows
  <1> QED
    BY <1>1, <1>3, <1>4 DEF Good, Job, Place

\* A step of one thread leaves the others as they were.
LEMMA ThreadStep ==
    ASSUME TwinAssumption, TwinInv, Grows, NEW t \in Threads, NEW r,
           thread' = [thread EXCEPT ![t] = r], Good(r)'
    PROVE  DOMAIN thread' = Threads /\ (\A u \in Threads : Good(thread[u]))'
  <1>1. ASSUME NEW u \in Threads PROVE Good(thread[u])'
    <2>1. PICK q : q = thread'[u]
      OBVIOUS
    <2>2. CASE u = t
      BY <2>1, <2>2 DEF TwinInv
    <2>3. CASE u # t
      <3>1. q = thread[u] /\ Good(thread[u])
        BY <2>1, <2>3 DEF TwinInv
      <3>2. Good(q)'
        BY <3>1, GoodKept
      <3> QED
        BY <2>1, <3>2
    <2> QED
      BY <2>2, <2>3
  <1> QED
    BY <1>1 DEF TwinInv

\* A thread that goes on where Following says relies on the store's entity only.
LEMMA GoesOn ==
    ASSUME TwinAssumption, NEW r \in Thread, NEW q, q = [r EXCEPT !.pc = Following(r)],
           Job(r), Covers(r)',
           r.job = "edge" \/ (r.seeds = <<>> /\ r.todo = <<>>) \/ entity'[Root] # None
    PROVE  Good(q)' /\ q.pc = Following(r) /\ q.pc \in {"seed", "entity", "replay", "end"}
  <1>1. Following(r) \in {"seed", "entity", "replay", "end"}
    BY DEF Following
  <1>2. q \in Thread /\ q.pc = Following(r)
    BY <1>1 DEF Thread, Pcs
  <1>3. /\ q.job = r.job /\ q.of = r.of /\ q.seeds = r.seeds /\ q.todo = r.todo /\ q.rest = r.rest
    BY DEF Thread
  <1>4. Job(q) /\ Covers(q)'
    BY <1>3 DEF Job, Covers
  <1>5. Place(q)
    BY <1>2, <1>3 DEF Place, Following, Job, InTodo
  <1>6. Behind(q)'
    BY <1>2, <1>3 DEF Behind, Following, InTodo
  <1> QED
    BY <1>1, <1>2, <1>4, <1>5, <1>6 DEF Good, Job, Place

\* What is done stays done when nothing more is called done or put on record.
LEMMA DoneKept ==
    ASSUME TwinAssumption, TwinInv, Grows, recorded' = recorded, answered' = answered,
           \A b \in Batches : claim'[b] = "completed" => claim[b] = "completed",
           \A e \in Events : bus'[e] = "acked" => bus[e] = "acked",
           \A w \in linked' : entity'[w] # None /\ entity'[Root] # None
    PROVE  Done'
  <1>1. \A o \in recorded : TwinOf[o.prop] \in Twins
    BY DEF TwinAssumption, Observation, TwinInv, Ledgers
  <1> QED
    BY <1>1 DEF Done, TwinInv, Grows, Kept

\* Who writes a property is told by the threads' places.
Writer(r) == r.job # "idle" /\ r.pc = "write"
Holder(r) == r.job # "idle" /\ r.pc \in {"read", "write"}

\* A step of a thread that has nothing in hand before and after it leaves the
\* properties and the races for them as they were.
LEMMA HandsKept ==
    ASSUME TwinInv, NEW t \in Threads, NEW q, thread' = [thread EXCEPT ![t] = q],
           ~ Holder(thread[t]), ~ Holder(q), UNCHANGED <<recorded, property, disturbed>>
    PROVE  StrongestShown' /\ Undisturbed'
  <1>1. /\ thread'[t] = q /\ \A u \in Threads \ {t} : thread'[u] = thread[u]
        /\ StrongestShown /\ Undisturbed
    BY DEF TwinInv
  <1>2. \A u \in Threads : (At(u, "read") \/ At(u, "write"))' =>
            u # t /\ thread'[u] = thread[u] /\ (At(u, "read") \/ At(u, "write"))
    BY <1>1 DEF At, Busy, Holder
  <1>3. \A u \in Threads : At(u, "read") \/ At(u, "write") =>
            u # t /\ thread'[u] = thread[u] /\ (At(u, "read") \/ At(u, "write"))'
    BY <1>1 DEF At, Busy, Holder
  <1>4. InHand' = InHand
    BY <1>2, <1>3 DEF InHand, Obs
  <1>5. StrongestShown'
    BY <1>1, <1>4 DEF StrongestShown
  <1>6. \A u \in Threads : At(u, "write")' => At(u, "write") /\ Obs(u)' = Obs(u)
    BY <1>1, <1>2 DEF At, Busy, Holder, Obs
  <1>7. Undisturbed'
    <2>1. ASSUME NEW u \in Threads, At(u, "write")', (Obs(u).prop \notin disturbed)' PROVE Wins(Obs(u))'
      BY <1>1, <1>6, <2>1 DEF Undisturbed, Wins
    <2>2. ASSUME NEW u \in Threads, NEW v \in Threads, At(u, "write")', At(v, "write")',
                 (Obs(u).prop = Obs(v).prop)', (Obs(u).prop \notin disturbed)'
          PROVE  u = v
      BY <1>1, <1>6, <2>2 DEF Undisturbed
    <2> QED
      BY <2>1, <2>2 DEF Undisturbed
  <1> QED
    BY <1>5, <1>7

\* Such a step preserves the invariant if the stores and the thread are well.
LEMMA TopologyStep ==
    ASSUME TwinAssumption, TwinInv, Grows, NEW t \in Threads, NEW q,
           thread' = [thread EXCEPT ![t] = q], Good(q)', ~ Holder(thread[t]), ~ Holder(q),
           UNCHANGED <<recorded, property, disturbed>>, Ledgers', Done'
    PROVE  TwinInv'
  <1>1. DOMAIN thread' = Threads /\ (\A u \in Threads : Good(thread[u]))'
    BY ThreadStep
  <1>2. StrongestShown' /\ Undisturbed'
    BY HandsKept
  <1> QED
    BY <1>1, <1>2 DEF TwinInv

----------------------------------------------------------------------------
\* A thread that is begun with what its job asks for is well.
LEMMA Begun ==
    ASSUME TwinAssumption, NEW r \in Thread, NEW q, q = [r EXCEPT !.pc = Start(r)],
           Job(r), Covers(r)', r.job # "idle",
           r.job = "edge" => r.todo # <<>>,
           r.job = "bootstrap" => r.todo = <<>> /\ (~ r.of.seeded => r.seeds = <<>>)
    PROVE  Good(q)' /\ ~ Holder(q)
  <1>1. CASE r.job = "bootstrap" /\ ~ r.of.seeded
    <2>1. Start(r) = Following(r)
      BY <1>1 DEF Start
    <2>2. Good(q)' /\ q.pc \in {"seed", "entity", "replay", "end"}
      BY <1>1, <2>1, GoesOn
    <2> QED
      BY <2>2 DEF Holder
  <1>2. CASE ~ (r.job = "bootstrap" /\ ~ r.of.seeded)
    <2>1. Start(r) = IF r.job = "edge" THEN "entity" ELSE "root"
      BY <1>2 DEF Start, Thread, Jobs
    <2>2. q \in Thread /\ q.pc = Start(r)
      BY <2>1 DEF Thread, Pcs
    <2>3. q.job = r.job /\ q.of = r.of /\ q.seeds = r.seeds /\ q.todo = r.todo /\ q.rest = r.rest
      BY DEF Thread
    <2>4. Job(q) /\ Covers(q)'
      BY <2>3 DEF Job, Covers
    <2>5. Place(q) /\ ~ Holder(q)
      BY <2>1, <2>2, <2>3 DEF Place, Job, InTodo, Holder
    <2>6. Behind(q)'
      BY <2>1, <2>2, <2>3 DEF Behind, InTodo
    <2> QED
      BY <2>2, <2>4, <2>5, <2>6 DEF Good, Job, Place
  <1> QED
    BY <1>1, <1>2

\* A thread is begun, and no store but the queue and the claims is touched.
LEMMA BeginStep ==
    ASSUME TwinAssumption, TwinInv, NEW t \in Threads,
           NEW job \in Jobs \ {"idle"}, NEW of \in Events \cup Batches \cup {None} \cup Order,
           NEW seeds \in Seq(Twins \ {Root}), NEW todo \in Seq(Observation),
           NEW rest \in SUBSET Events, NEW r,
           r = [job |-> job, of |-> of, pc |-> "end", seeds |-> seeds, todo |-> todo, rest |-> rest],
           Begin(t, job, of, seeds, todo, rest), Job(r), Covers(r),
           job = "edge" => todo # <<>>,
           job = "bootstrap" => todo = <<>> /\ (~ of.seeded => seeds = <<>>),
           UNCHANGED <<recorded, property, entity, linked, answered, disturbed>>, Ledgers',
           \A b \in Batches : claim'[b] = "completed" => claim[b] = "completed",
           \A e \in Events : bus'[e] = "acked" => bus[e] = "acked"
    PROVE  TwinInv'
  <1>1. r \in Thread
    BY DEF Thread, Pcs
  <1>3. PICK q : q = [r EXCEPT !.pc = Start(r)]
    OBVIOUS
  <1>4. thread' = [thread EXCEPT ![t] = q] /\ ~ Holder(thread[t])
    BY <1>3 DEF Begin, Busy, Holder
  <1>5. Covers(r)'
    BY DEF Covers, Kept
  <1>6. r.job = job /\ r.todo = todo /\ r.of = of /\ r.seeds = seeds
    OBVIOUS
  <1>7. Good(q)' /\ ~ Holder(q)
    BY <1>1, <1>3, <1>5, <1>6, Begun
  <1>8. Grows
    BY DEF Grows
  <1>9. Done'
    BY <1>8, DoneKept DEF TwinInv, Done
  <1> QED
    BY <1>4, <1>7, <1>8, <1>9, TopologyStep

\* The projection of an event the pipeline has stored.
LEMMA InlineStep ==
    ASSUME TwinAssumption, TwinInv, NEW t \in Pool, NEW e \in Events, Inline(t, e) PROVE TwinInv'
  <1>1. PICK r : r = [job |-> "inline", of |-> e, pc |-> "end", seeds |-> <<>>, todo |-> ObsOf[e],
                      rest |-> {}]
    OBVIOUS
  <1>2. t \in Threads /\ ObsOf[e] \in Seq(Observation) /\ <<>> \in Seq(Twins \ {Root})
    BY DEF Threads, TwinAssumption, Sources
  <1>3. Job(r) /\ Covers(r)
    BY <1>1 DEF Job, Covers
  <1>4. /\ Begin(t, "inline", e, <<>>, ObsOf[e], {})
        /\ UNCHANGED <<recorded, property, entity, linked, manifest, bus, delivered, claim, answered,
                       disturbed, tFaults>>
        /\ stored' = stored \cup {e} /\ tCalls < MaxCalls /\ tCalls' = tCalls + 1
    BY DEF Inline, Call, ledgers, edge, Begin
  <1>5. Ledgers'
    BY <1>4 DEF TwinInv, Ledgers, TwinAssumption
  <1>6. "inline" \in Jobs \ {"idle"} /\ {} \in SUBSET Events
    BY DEF Jobs
  <1> QED
    BY <1>1, <1>2, <1>3, <1>4, <1>5, <1>6, BeginStep

\* The recovery worker takes a message of its group.
LEMMA DeliverStep ==
    ASSUME TwinAssumption, TwinInv, NEW e \in Events, Deliver(e) PROVE TwinInv'
  <1>1. PICK r : r = [job |-> "twin", of |-> e, pc |-> "end", seeds |-> <<>>, todo |-> ObsOf[e],
                      rest |-> {}]
    OBVIOUS
  <1>2. "twin" \in Threads /\ ObsOf[e] \in Seq(Observation) /\ <<>> \in Seq(Twins \ {Root})
    BY DEF Threads, TwinAssumption, Sources
  <1>3. Job(r) /\ Covers(r)
    BY <1>1 DEF Job, Covers
  <1>4. /\ Begin("twin", "twin", e, <<>>, ObsOf[e], {})
        /\ UNCHANGED <<recorded, property, entity, linked, manifest, stored, bus, claim, answered,
                       disturbed, tFaults, tCalls>>
        /\ delivered' = [delivered EXCEPT ![e] = IF @ < MaxDeliveries THEN @ + 1 ELSE @]
    BY DEF Deliver, ledgers, edge, Begin
  <1>5. delivered' \in [Events -> 0 .. MaxDeliveries]
    BY <1>4 DEF TwinInv, Ledgers, TwinAssumption
  <1>6. Ledgers'
    BY <1>4, <1>5 DEF TwinInv, Ledgers
  <1>7. "twin" \in Jobs \ {"idle"} /\ {} \in SUBSET Events
    BY DEF Jobs
  <1> QED
    BY <1>1, <1>2, <1>3, <1>4, <1>6, <1>7, BeginStep

\* A batch nobody has claimed is claimed and projected.
LEMMA EdgeBatchStep ==
    ASSUME TwinAssumption, TwinInv, NEW b \in Batches, EdgeBatch(b) PROVE TwinInv'
  <1>1. PICK r : r = [job |-> "edge", of |-> b, pc |-> "end", seeds |-> <<>>, todo |-> ObsOf[b],
                      rest |-> {}]
    OBVIOUS
  <1>2. /\ "loop" \in Threads /\ ObsOf[b] \in Seq(Observation) /\ <<>> \in Seq(Twins \ {Root})
        /\ ObsOf[b] # <<>>
    BY DEF Threads, TwinAssumption, Sources
  <1>3. Job(r) /\ Covers(r)
    BY <1>1 DEF Job, Covers
  <1>4. /\ Begin("loop", "edge", b, <<>>, ObsOf[b], {})
        /\ UNCHANGED <<recorded, property, entity, linked, manifest, stored, bus, delivered, answered,
                       disturbed, tFaults>>
        /\ claim' = [claim EXCEPT ![b] = "claimed"] /\ tCalls < MaxCalls /\ tCalls' = tCalls + 1
    BY DEF EdgeBatch, Call, ledgers, queue, Begin
  <1>5. Ledgers'
    BY <1>4 DEF TwinInv, Ledgers, TwinAssumption
  <1>6. \A c \in Batches : claim'[c] = "completed" => claim[c] = "completed"
    BY <1>4 DEF TwinInv, Ledgers
  <1>7. "edge" \in Jobs \ {"idle"} /\ {} \in SUBSET Events
    BY DEF Jobs
  <1> QED
    BY <1>1, <1>2, <1>3, <1>4, <1>5, <1>6, <1>7, BeginStep

\* The manifest is saved and its entities are to be made.
LEMMA OnboardStep ==
    ASSUME TwinAssumption, TwinInv, NEW t \in Pool, Onboard(t) PROVE TwinInv'
  <1>1. PICK r : r = [job |-> "onboard", of |-> None, pc |-> "end", seeds |-> Seeds, todo |-> <<>>,
                      rest |-> {}]
    OBVIOUS
  <1>2. t \in Threads /\ Seeds \in Seq(Twins \ {Root}) /\ <<>> \in Seq(Observation)
    BY DEF Threads, TwinAssumption
  <1>3. Job(r) /\ Covers(r)
    BY <1>1 DEF Job, Covers
  <1>4. /\ Begin(t, "onboard", None, Seeds, <<>>, {})
        /\ UNCHANGED <<recorded, property, entity, linked, stored, bus, delivered, claim, answered,
                       disturbed, tFaults>>
        /\ manifest' = TRUE /\ tCalls < MaxCalls /\ tCalls' = tCalls + 1
    BY DEF Onboard, Call, queue, edge, Begin
  <1>5. Ledgers'
    BY <1>4 DEF TwinInv, Ledgers, TwinAssumption
  <1>6. "onboard" \in Jobs \ {"idle"} /\ {} \in SUBSET Events
    BY DEF Jobs
  <1> QED
    BY <1>1, <1>2, <1>3, <1>4, <1>5, <1>6, BeginStep

\* The saved manifest and the stored events are to be replayed.
LEMMA BootstrapStep ==
    ASSUME TwinAssumption, TwinInv, NEW t \in Pool, Bootstrap(t) PROVE TwinInv'
  <1>1. PICK seeds : seeds = IF manifest THEN Seeds ELSE <<>>
    OBVIOUS
  <1>2. PICK rest \in SUBSET stored :
           Begin(t, "bootstrap", [seeded |-> manifest, events |-> rest], seeds, <<>>, rest)
    BY <1>1 DEF Bootstrap
  <1>3. PICK of : of = [seeded |-> manifest, events |-> rest]
    OBVIOUS
  <1>4. PICK r : r = [job |-> "bootstrap", of |-> of, pc |-> "end", seeds |-> seeds, todo |-> <<>>,
                      rest |-> rest]
    OBVIOUS
  <1>5. /\ t \in Threads /\ seeds \in Seq(Twins \ {Root}) /\ <<>> \in Seq(Observation)
        /\ rest \in SUBSET Events /\ of \in Order
    BY <1>1, <1>2, <1>3 DEF Threads, TwinAssumption, TwinInv, Ledgers, Order
  <1>6. Job(r) /\ Covers(r)
    BY <1>1, <1>2, <1>3, <1>4, <1>5 DEF Job, Covers
  <1>7. /\ Begin(t, "bootstrap", of, seeds, <<>>, rest)
        /\ UNCHANGED <<recorded, property, entity, linked, manifest, stored, bus, delivered, claim,
                       answered, disturbed, tFaults>>
        /\ tCalls < MaxCalls /\ tCalls' = tCalls + 1
    BY <1>1, <1>2, <1>3 DEF Bootstrap, Call, ledgers, queue, edge, Begin
  <1>8. Ledgers'
    BY <1>7 DEF TwinInv, Ledgers, TwinAssumption
  <1>9. "bootstrap" \in Jobs \ {"idle"} /\ (~ of.seeded => seeds = <<>>)
    BY <1>1, <1>3 DEF Jobs
  <1> QED
    BY <1>4, <1>5, <1>6, <1>7, <1>8, <1>9, BeginStep

\* A device that sends a completed batch again is answered: it is on record.
LEMMA EdgeDuplicateStep ==
    ASSUME TwinAssumption, TwinInv, NEW b \in Batches, EdgeDuplicate(b) PROVE TwinInv'
  <1>1. /\ answered' = answered \cup {b} /\ claim[b] = "completed"
        /\ UNCHANGED <<recorded, property, entity, linked, manifest, stored, bus, delivered, claim,
                       thread, disturbed, tFaults>>
        /\ tCalls < MaxCalls /\ tCalls' = tCalls + 1
    BY DEF EdgeDuplicate, Call, ledgers, queue
  <1>2. Ledgers'
    BY <1>1 DEF TwinInv, Ledgers, TwinAssumption
  <1>3. Done'
    BY <1>1 DEF TwinInv, Done, Kept
  <1>4. DOMAIN thread' = Threads /\ (\A t \in Threads : Good(thread[t]))'
    BY <1>1 DEF TwinInv, Good, Job, Place, Behind, Covers, Kept
  <1>5. StrongestShown' /\ Undisturbed'
    BY <1>1 DEF TwinInv, StrongestShown, Undisturbed, InHand, At, Busy, Obs, Wins
  <1> QED
    BY <1>2, <1>3, <1>4, <1>5 DEF TwinInv

----------------------------------------------------------------------------
\* ensure_entity leaves every entity that exists, and the one it was asked for exists.
LEMMA Ensured ==
    ASSUME TwinAssumption, TwinInv, NEW w \in Twins, NEW kind \in Kinds \ {None}, Ensure(w, kind)
    PROVE  /\ entity' \in [Twins -> Kinds] /\ entity'[w] # None
           /\ \A x \in Twins : entity[x] # None => entity'[x] # None
  BY DEF Ensure, TwinInv, Ledgers

\* The thread that is at a place holds what Good says.
LEMMA Located ==
    ASSUME TwinInv, NEW t \in Threads, NEW pc, At(t, pc)
    PROVE  Good(thread[t]) /\ thread[t] \in Thread /\ thread[t].pc = pc /\ thread[t].job # "idle"
  BY DEF TwinInv, At, Busy, Good

\* Going to another place changes nothing else of the thread.
LEMMA Gone ==
    ASSUME NEW r \in Thread, NEW pc \in Pcs, NEW q, q = [r EXCEPT !.pc = pc]
    PROVE  /\ q \in Thread /\ q.pc = pc /\ q.job = r.job /\ q.of = r.of /\ q.seeds = r.seeds
           /\ q.todo = r.todo /\ q.rest = r.rest
  <1>1. q \in Thread
    BY DEF Thread
  <1>2. q.pc = pc /\ q.job = r.job /\ q.of = r.of
    BY DEF Thread
  <1>3. q.seeds = r.seeds /\ q.todo = r.todo /\ q.rest = r.rest
    BY DEF Thread
  <1> QED
    BY <1>1, <1>2, <1>3

\* The store's own entity.
LEMMA EnsureRootStep ==
    ASSUME TwinAssumption, TwinInv, NEW t \in Threads, EnsureRoot(t) PROVE TwinInv'
  <1>1. PICK r : r = thread[t]
    OBVIOUS
  <1>2. Good(r) /\ r \in Thread /\ r.pc = "root"
    BY <1>1, Located DEF EnsureRoot
  <1>3. PICK q : q = [r EXCEPT !.pc = Following(r)]
    OBVIOUS
  <1>4. /\ thread' = [thread EXCEPT ![t] = q]
        /\ UNCHANGED <<recorded, property, linked, manifest, stored, bus, delivered, claim, answered,
                       disturbed, tFaults, tCalls>>
    BY <1>1, <1>3 DEF EnsureRoot, Goto, queue, edge
  <1>5. PICK kind \in Kinds \ {None} : Ensure(Root, kind)
    BY DEF EnsureRoot, Kinds, TwinAssumption
  <1>6. /\ entity' \in [Twins -> Kinds] /\ entity'[Root] # None
        /\ \A x \in Twins : entity[x] # None => entity'[x] # None
    BY <1>5, Ensured DEF Twins
  <1>7. Grows /\ Ledgers'
    BY <1>4, <1>6 DEF Grows, TwinInv, Ledgers
  <1>8. Covers(r)' /\ Job(r)
    BY <1>2, <1>4 DEF Good, Covers, Kept
  <1>9. Good(q)' /\ ~ Holder(q)
    BY <1>2, <1>3, <1>6, <1>8, GoesOn DEF Holder
  <1>10. Done'
    BY <1>4, <1>6, <1>7, DoneKept DEF TwinInv, Done, Ledgers
  <1> QED
    BY <1>1, <1>2, <1>4, <1>7, <1>9, <1>10, TopologyStep DEF Holder

\* The next event of a bootstrap: its observations are to be projected.
LEMMA ReplayStep ==
    ASSUME TwinAssumption, TwinInv, NEW t \in Threads, Replay(t) PROVE TwinInv'
  <1>1. PICK r : r = thread[t]
    OBVIOUS
  <1>2. Good(r) /\ r \in Thread /\ r.pc = "replay"
    BY <1>1, Located DEF Replay
  <1>3. /\ Ensure(Root, "event")
        /\ UNCHANGED <<recorded, property, linked, manifest, stored, bus, delivered, claim, answered,
                       disturbed, tFaults, tCalls>>
    BY DEF Replay, queue, edge
  <1>4. /\ entity' \in [Twins -> Kinds] /\ entity'[Root] # None
        /\ \A x \in Twins : entity[x] # None => entity'[x] # None
    BY <1>3, Ensured DEF Twins, Kinds, TwinAssumption
  <1>5. Grows /\ Ledgers'
    BY <1>3, <1>4 DEF Grows, TwinInv, Ledgers
  <1>6. PICK e \in r.rest : LET s == [r EXCEPT !.todo = ObsOf[e], !.rest = @ \ {e}]
                            IN  thread' = [thread EXCEPT ![t] = [s EXCEPT !.pc = Following(s)]]
    BY <1>1 DEF Replay
  <1>7. PICK s : s = [r EXCEPT !.todo = ObsOf[e], !.rest = @ \ {e}]
    OBVIOUS
  <1>8. PICK q : q = [s EXCEPT !.pc = Following(s)]
    OBVIOUS
  <1>9. thread' = [thread EXCEPT ![t] = q]
    BY <1>6, <1>7, <1>8
  <1>10. e \in Events /\ ObsOf[e] \in Seq(Observation) /\ r.rest \ {e} \in SUBSET Events
    BY <1>2, <1>6 DEF Thread, TwinAssumption, Sources
  <1>11. s \in Thread /\ s.job = r.job /\ s.of = r.of
    BY <1>2, <1>7, <1>10 DEF Thread
  <1>12. s.seeds = r.seeds /\ s.todo = ObsOf[e] /\ s.rest = r.rest \ {e}
    BY <1>2, <1>7, <1>10 DEF Thread
  <1>13. r.job \notin {"edge", "onboard"} /\ r.todo = <<>> /\ r.seeds = <<>>
    BY <1>2 DEF Good, Job, Place
  <1>14. Job(s)
    BY <1>2, <1>11, <1>12, <1>13 DEF Good, Job
  <1>15. Covers(s)'
    BY <1>2, <1>3, <1>11, <1>12, <1>13, NothingLeft DEF Good, Covers, Kept
  <1>16. Good(q)' /\ ~ Holder(q)
    BY <1>4, <1>8, <1>11, <1>14, <1>15, GoesOn DEF Holder
  <1>17. Done'
    BY <1>3, <1>4, <1>5, DoneKept DEF TwinInv, Done, Ledgers
  <1> QED
    BY <1>1, <1>2, <1>3, <1>5, <1>9, <1>16, <1>17, TopologyStep DEF Holder

\* An entity of the manifest.
LEMMA EnsureSeedStep ==
    ASSUME TwinAssumption, TwinInv, NEW t \in Threads, EnsureSeed(t) PROVE TwinInv'
  <1>1. PICK r : r = thread[t]
    OBVIOUS
  <1>2. Good(r) /\ r \in Thread /\ r.pc = "seed" /\ r.seeds # <<>>
    BY <1>1, Located DEF EnsureSeed, Good, Place
  <1>3. PICK w : w = Head(r.seeds)
    OBVIOUS
  <1>4. w \in Twins
    BY <1>2, <1>3, HeadAndTail DEF Thread
  <1>5. PICK q : q = [r EXCEPT !.pc = "seedlink"]
    OBVIOUS
  <1>6. /\ Ensure(w, "manifest") /\ thread' = [thread EXCEPT ![t] = q]
        /\ UNCHANGED <<recorded, property, linked, manifest, stored, bus, delivered, claim, answered,
                       disturbed, tFaults, tCalls>>
    BY <1>1, <1>3, <1>5 DEF EnsureSeed, Goto, queue, edge
  <1>7. /\ entity' \in [Twins -> Kinds] /\ entity'[w] # None
        /\ \A x \in Twins : entity[x] # None => entity'[x] # None
    BY <1>4, <1>6, Ensured DEF Kinds, TwinAssumption
  <1>8. Grows /\ Ledgers'
    BY <1>6, <1>7 DEF Grows, TwinInv, Ledgers
  <1>9. /\ q \in Thread /\ q.pc = "seedlink" /\ q.job = r.job /\ q.of = r.of /\ q.seeds = r.seeds
        /\ q.todo = r.todo /\ q.rest = r.rest
    BY <1>2, <1>5, Gone DEF Pcs
  <1>10. Good(q)'
    <2>1. Job(q) /\ Place(q)
      BY <1>2, <1>9 DEF Good, Job, Place, InTodo
    <2>2. entity'[Root] # None
      BY <1>2, <1>7 DEF Good, Behind, Place, Twins
    <2>3. Behind(q)'
      BY <1>3, <1>7, <1>9, <2>2 DEF Behind, InTodo
    <2>4. Covers(q)'
      BY <1>2, <1>6, <1>9 DEF Good, Covers, Kept
    <2> QED
      BY <1>9, <2>1, <2>3, <2>4 DEF Good, Job, Place
  <1>11. Done'
    BY <1>6, <1>7, <1>8, DoneKept DEF TwinInv, Done, Ledgers, Twins
  <1> QED
    BY <1>1, <1>2, <1>6, <1>8, <1>9, <1>10, <1>11, TopologyStep DEF Holder

\* Its link to the store, and what is next.
LEMMA LinkSeedStep ==
    ASSUME TwinAssumption, TwinInv, NEW t \in Threads, LinkSeed(t) PROVE TwinInv'
  <1>1. PICK r : r = thread[t]
    OBVIOUS
  <1>2. Good(r) /\ r \in Thread /\ r.pc = "seedlink" /\ r.seeds # <<>>
    BY <1>1, Located DEF LinkSeed, Good, Place
  <1>3. PICK w : w = Head(r.seeds)
    OBVIOUS
  <1>4. /\ w \in Twins /\ Tail(r.seeds) \in Seq(Twins \ {Root})
        /\ Range(r.seeds) = {w} \cup Range(Tail(r.seeds))
    BY <1>2, <1>3, HeadAndTail DEF Thread
  <1>5. PICK s : s = [r EXCEPT !.seeds = Tail(@)]
    OBVIOUS
  <1>6. PICK q : q = [s EXCEPT !.pc = Following(s)]
    OBVIOUS
  <1>7. /\ linked' = linked \cup {w} /\ thread' = [thread EXCEPT ![t] = q]
        /\ UNCHANGED <<recorded, property, entity, manifest, stored, bus, delivered, claim, answered,
                       disturbed, tFaults, tCalls>>
    BY <1>1, <1>3, <1>5, <1>6 DEF LinkSeed, queue, edge
  <1>8. entity[w] # None /\ entity[Root] # None /\ r.job # "edge"
    BY <1>2, <1>3 DEF Good, Behind, Place
  <1>9. Grows /\ Ledgers'
    BY <1>4, <1>7 DEF Grows, TwinInv, Ledgers
  <1>10. s \in Thread /\ s.job = r.job /\ s.of = r.of
    BY <1>2, <1>4, <1>5 DEF Thread
  <1>11. s.seeds = Tail(r.seeds) /\ s.todo = r.todo /\ s.rest = r.rest
    BY <1>2, <1>5 DEF Thread
  <1>12. Job(s)
    BY <1>2, <1>8, <1>10, <1>11 DEF Good, Job
  <1>13. Covers(s)'
    BY <1>2, <1>4, <1>7, <1>10, <1>11 DEF Good, Covers, Kept
  <1>14. Good(q)' /\ ~ Holder(q)
    BY <1>6, <1>7, <1>8, <1>10, <1>12, <1>13, GoesOn DEF Holder
  <1>15. Done'
    BY <1>7, <1>8, <1>9, DoneKept DEF TwinInv, Done
  <1> QED
    BY <1>1, <1>2, <1>7, <1>9, <1>14, <1>15, TopologyStep DEF Holder

\* The entity an observation is about.
LEMMA EnsureEntityStep ==
    ASSUME TwinAssumption, TwinInv, NEW t \in Threads, EnsureEntity(t) PROVE TwinInv'
  <1>1. PICK r : r = thread[t]
    OBVIOUS
  <1>2. Good(r) /\ r \in Thread /\ r.pc = "entity" /\ r.todo # <<>> /\ r.job # "idle"
    BY <1>1, Located DEF EnsureEntity, Good, Place, InTodo
  <1>3. PICK w : w = TwinOf[Head(r.todo).prop]
    OBVIOUS
  <1>4. w \in Twins
    <2>1. Head(r.todo) \in Observation
      BY <1>2, HeadAndTail DEF Thread
    <2> QED
      BY <1>3, <2>1 DEF Observation, TwinAssumption
  <1>5. PICK pc : pc = IF r.job = "edge" THEN "record" ELSE "link"
    OBVIOUS
  <1>6. PICK q : q = [r EXCEPT !.pc = pc]
    OBVIOUS
  <1>7. r.job \in {"inline", "twin", "bootstrap"} <=> r.job # "edge"
    BY <1>2 DEF Good, Job, Thread, Jobs
  <1>8. /\ thread' = [thread EXCEPT ![t] = q]
        /\ UNCHANGED <<recorded, property, linked, manifest, stored, bus, delivered, claim, answered,
                       disturbed, tFaults, tCalls>>
    BY <1>1, <1>5, <1>6, <1>7 DEF EnsureEntity, Goto, ByEvent, queue, edge
  <1>9. PICK kind \in Kinds \ {None} : Ensure(w, kind)
    BY <1>1, <1>3 DEF EnsureEntity, Obs, Kinds, TwinAssumption
  <1>10. /\ entity' \in [Twins -> Kinds] /\ entity'[w] # None
         /\ \A x \in Twins : entity[x] # None => entity'[x] # None
    BY <1>4, <1>9, Ensured
  <1>11. Grows /\ Ledgers'
    BY <1>8, <1>10 DEF Grows, TwinInv, Ledgers
  <1>12. /\ q \in Thread /\ q.pc = pc /\ q.job = r.job /\ q.of = r.of /\ q.seeds = r.seeds
         /\ q.todo = r.todo /\ q.rest = r.rest
    BY <1>2, <1>5, <1>6, Gone DEF Pcs
  <1>13. Good(q)'
    <2>1. Job(q) /\ Place(q)
      BY <1>2, <1>5, <1>12 DEF Good, Job, Place, InTodo
    <2>2. r.job # "edge" => entity'[Root] # None
      BY <1>2, <1>10 DEF Good, Behind, InTodo, Twins
    <2>3. Behind(q)'
      BY <1>3, <1>5, <1>10, <1>12, <2>2 DEF Behind, InTodo
    <2>4. Covers(q)'
      BY <1>2, <1>8, <1>12 DEF Good, Covers, Kept
    <2> QED
      BY <1>12, <2>1, <2>3, <2>4 DEF Good, Job, Place
  <1>14. Done'
    BY <1>8, <1>10, <1>11, DoneKept DEF TwinInv, Done, Ledgers, Twins
  <1>15. ~ Holder(q) /\ ~ Holder(thread[t])
    BY <1>1, <1>2, <1>5, <1>12 DEF Holder
  <1> QED
    BY <1>8, <1>11, <1>13, <1>14, <1>15, TopologyStep

\* Its link to the store.
LEMMA LinkStep ==
    ASSUME TwinAssumption, TwinInv, NEW t \in Threads, Link(t) PROVE TwinInv'
  <1>1. PICK r : r = thread[t]
    OBVIOUS
  <1>2. Good(r) /\ r \in Thread /\ r.pc = "link" /\ r.todo # <<>>
    BY <1>1, Located DEF Link, Good, Place, InTodo
  <1>3. PICK w : w = TwinOf[Head(r.todo).prop]
    OBVIOUS
  <1>4. w \in Twins
    <2>1. Head(r.todo) \in Observation
      BY <1>2, HeadAndTail DEF Thread
    <2> QED
      BY <1>3, <2>1 DEF Observation, TwinAssumption
  <1>5. PICK q : q = [r EXCEPT !.pc = "record"]
    OBVIOUS
  <1>6. /\ linked' = linked \cup {w} /\ thread' = [thread EXCEPT ![t] = q]
        /\ UNCHANGED <<recorded, property, entity, manifest, stored, bus, delivered, claim, answered,
                       disturbed, tFaults, tCalls>>
    BY <1>1, <1>3, <1>5 DEF Link, Goto, Obs, queue, edge
  <1>7. entity[w] # None /\ entity[Root] # None /\ r.job # "edge"
    BY <1>2, <1>3 DEF Good, Behind, Place, InTodo
  <1>8. Grows /\ Ledgers'
    BY <1>4, <1>6 DEF Grows, TwinInv, Ledgers
  <1>9. /\ q \in Thread /\ q.pc = "record" /\ q.job = r.job /\ q.of = r.of /\ q.seeds = r.seeds
        /\ q.todo = r.todo /\ q.rest = r.rest
    BY <1>2, <1>5, Gone DEF Pcs
  <1>10. Good(q)'
    <2>1. Job(q) /\ Place(q)
      BY <1>2, <1>7, <1>9 DEF Good, Job, Place, InTodo
    <2>2. Behind(q)'
      BY <1>3, <1>6, <1>7, <1>9 DEF Behind, InTodo
    <2>3. Covers(q)'
      BY <1>2, <1>6, <1>9 DEF Good, Covers, Kept
    <2> QED
      BY <1>9, <2>1, <2>2, <2>3 DEF Good, Job, Place
  <1>11. Done'
    BY <1>6, <1>7, <1>8, DoneKept DEF TwinInv, Done
  <1> QED
    BY <1>1, <1>2, <1>6, <1>8, <1>9, <1>10, <1>11, TopologyStep DEF Holder

----------------------------------------------------------------------------
\* A thread whose observation is on record goes on to the next one.
LEMMA Proceeded ==
    ASSUME TwinAssumption, NEW r, Good(r), r.pc \in {"record", "read", "write"},
           Head(r.todo) \in recorded', recorded \subseteq recorded', UNCHANGED <<entity, linked>>,
           NEW s, s = [r EXCEPT !.todo = Tail(@)], NEW q, q = [s EXCEPT !.pc = Following(s)]
    PROVE  Good(q)' /\ ~ Holder(q)
  <1>1. r \in Thread /\ r.todo # <<>>
    BY DEF Good, Place, InTodo
  <1>2. /\ Tail(r.todo) \in Seq(Observation)
        /\ Range(r.todo) = {Head(r.todo)} \cup Range(Tail(r.todo))
    BY <1>1, HeadAndTail DEF Thread
  <1>3. s \in Thread /\ s.job = r.job /\ s.of = r.of
    BY <1>1, <1>2 DEF Thread
  <1>4. s.seeds = r.seeds /\ s.todo = Tail(r.todo) /\ s.rest = r.rest
    BY <1>1 DEF Thread
  <1>5. Job(s)
    BY <1>1, <1>3, <1>4 DEF Good, Job
  <1>6. r.job # "edge" => TwinOf[Head(r.todo).prop] \in linked' /\ entity'[Root] # None
    BY DEF Good, Behind, InTodo
  <1>7. Covers(s)'
    BY <1>2, <1>3, <1>4, <1>6 DEF Good, Covers, Kept
  <1> QED
    BY <1>3, <1>5, <1>6, <1>7, GoesOn DEF Holder

\* What a step of one thread does to the observations in hand and to the writers.
LEMMA Hands ==
    ASSUME TwinInv, NEW t \in Threads, NEW r, r = thread[t], NEW q, thread' = [thread EXCEPT ![t] = q]
    PROVE  /\ \A x \in InHand : x \in InHand' \/ (Holder(r) /\ x = Head(r.todo))
           /\ Holder(q) => Head(q.todo) \in InHand'
           /\ \A u \in Threads \ {t} : (At(u, "write")' <=> At(u, "write")) /\ Obs(u)' = Obs(u)
           /\ (At(t, "write")' <=> Writer(q)) /\ Obs(t)' = Head(q.todo)
           /\ (At(t, "write") <=> Writer(r)) /\ Obs(t) = Head(r.todo)
  <1>1. thread'[t] = q /\ \A u \in Threads \ {t} : thread'[u] = thread[u]
    BY DEF TwinInv
  <1>2. \A u \in Threads \ {t} : /\ At(u, "write")' <=> At(u, "write")
                                 /\ At(u, "read")' <=> At(u, "read")
                                 /\ Obs(u)' = Obs(u)
    BY <1>1 DEF At, Busy, Obs
  <1>3. /\ (At(t, "write")' <=> Writer(q)) /\ Obs(t)' = Head(q.todo)
        /\ Holder(q) <=> (At(t, "read") \/ At(t, "write"))'
    BY <1>1 DEF At, Busy, Obs, Writer, Holder
  <1>4. /\ (At(t, "write") <=> Writer(r)) /\ Obs(t) = Head(r.todo)
        /\ Holder(r) <=> At(t, "read") \/ At(t, "write")
    BY DEF At, Busy, Obs, Writer, Holder
  <1>5. ASSUME NEW x \in InHand PROVE x \in InHand' \/ (Holder(r) /\ x = Head(r.todo))
    <2>1. PICK u \in Threads : (At(u, "read") \/ At(u, "write")) /\ x = Obs(u)
      BY DEF InHand
    <2>2. CASE u = t
      BY <1>4, <2>1, <2>2
    <2>3. CASE u # t
      BY <1>2, <2>1, <2>3 DEF InHand
    <2> QED
      BY <2>2, <2>3
  <1>6. Holder(q) => Head(q.todo) \in InHand'
    BY <1>3 DEF InHand
  <1> QED
    BY <1>2, <1>3, <1>4, <1>5, <1>6

\* The authority order: what beats a is not beaten by what does not beat a.
LEMMA Authority ==
    ASSUME NEW a \in Observation, NEW b \in Observation, NEW c \in Observation
    PROVE  /\ ~ MayReplace(a, a)
           /\ MayReplace(a, b) /\ ~ MayReplace(a, c) => ~ MayReplace(b, c)
  BY DEF Observation, MayReplace

\* The observation is on record: a duplicate is passed over, a new one is compared.
LEMMA RecordStep ==
    ASSUME TwinAssumption, TwinInv, NEW t \in Threads, Record(t) PROVE TwinInv'
  <1>1. PICK r : r = thread[t]
    OBVIOUS
  <1>2. Good(r) /\ r \in Thread /\ r.pc = "record" /\ r.todo # <<>> /\ ~ Holder(r)
    BY <1>1, Located DEF Record, Good, Place, InTodo, Holder
  <1>3. PICK o : o = Head(r.todo)
    OBVIOUS
  <1>4. o \in Observation
    BY <1>2, <1>3, HeadAndTail DEF Thread
  <1>5. /\ recorded' = recorded \cup {o}
        /\ UNCHANGED <<property, entity, linked, manifest, stored, bus, delivered, claim, answered,
                       disturbed, tFaults, tCalls>>
    BY <1>1, <1>3 DEF Record, Obs, queue, edge
  <1>6. Grows /\ Ledgers'
    BY <1>4, <1>5 DEF Grows, TwinInv, Ledgers
  <1>7. CASE o \in recorded
    <2>1. Proceed(t)
      BY <1>1, <1>3, <1>7 DEF Record, Obs
    <2>2. PICK s : s = [r EXCEPT !.todo = Tail(@)]
      OBVIOUS
    <2>3. PICK q : q = [s EXCEPT !.pc = Following(s)]
      OBVIOUS
    <2>4. thread' = [thread EXCEPT ![t] = q]
      BY <1>1, <2>1, <2>2, <2>3 DEF Proceed
    <2>5. Good(q)' /\ ~ Holder(q)
      BY <1>2, <1>3, <1>5, <2>2, <2>3, Proceeded
    <2>6. recorded' = recorded
      BY <1>5, <1>7
    <2>7. Done'
      BY <1>5, <1>6, <2>6, DoneKept DEF TwinInv, Done
    <2> QED
      BY <1>1, <1>2, <1>5, <1>6, <2>4, <2>5, <2>6, <2>7, TopologyStep
  <1>8. CASE o \notin recorded
    <2>1. PICK q : q = [r EXCEPT !.pc = "read"]
      OBVIOUS
    <2>2. thread' = [thread EXCEPT ![t] = q]
      BY <1>1, <1>3, <1>8, <2>1 DEF Record, Obs, Goto
    <2>3. /\ q \in Thread /\ q.pc = "read" /\ q.job = r.job /\ q.of = r.of /\ q.seeds = r.seeds
          /\ q.todo = r.todo /\ q.rest = r.rest
      BY <1>2, <2>1, Gone DEF Pcs
    <2>4. Good(q)'
      <3>1. Job(q) /\ Place(q)
        BY <1>2, <2>3 DEF Good, Job, Place, InTodo
      <3>2. Behind(q)'
        BY <1>2, <1>3, <1>5, <2>3 DEF Good, Behind, InTodo
      <3>3. Covers(q)'
        BY <1>2, <1>5, <2>3 DEF Good, Covers, Kept
      <3> QED
        BY <2>3, <3>1, <3>2, <3>3 DEF Good, Job, Place
    <2>5. DOMAIN thread' = Threads /\ (\A u \in Threads : Good(thread[u]))'
      BY <1>6, <2>2, <2>4, ThreadStep
    <2>6. Done'
      <3>1. entity[TwinOf[o.prop]] # None
        BY <1>2, <1>3 DEF Good, Behind
      <3> QED
        BY <1>5, <3>1 DEF TwinInv, Done, Kept
    <2>7. r.job # "idle" /\ Holder(q) /\ ~ Writer(q) /\ ~ Writer(r) /\ Head(q.todo) = o
      BY <1>1, <1>2, <1>3, <2>3, Located DEF Record, Holder, Writer
    <2>8. /\ \A x \in InHand : x \in InHand'
          /\ o \in InHand'
          /\ \A u \in Threads : At(u, "write")' => u # t /\ At(u, "write") /\ Obs(u)' = Obs(u)
      BY <1>1, <1>2, <2>2, <2>7, Hands
    <2>9. StrongestShown'
      BY <1>5, <2>8 DEF TwinInv, StrongestShown
    <2>10. Undisturbed'
      <3>1. ASSUME NEW u \in Threads, At(u, "write")', (Obs(u).prop \notin disturbed)'
            PROVE  Wins(Obs(u))'
        BY <1>5, <2>8, <3>1 DEF TwinInv, Undisturbed, Wins
      <3>2. ASSUME NEW u \in Threads, NEW v \in Threads, At(u, "write")', At(v, "write")',
                   (Obs(u).prop = Obs(v).prop)', (Obs(u).prop \notin disturbed)'
            PROVE  u = v
        BY <1>5, <2>8, <3>2 DEF TwinInv, Undisturbed
      <3> QED
        BY <3>1, <3>2 DEF Undisturbed
    <2> QED
      BY <1>6, <2>5, <2>6, <2>9, <2>10 DEF TwinInv
  <1> QED
    BY <1>7, <1>8

\* The races stay as they were while no property is written and nobody comes to write.
LEMMA UndisturbedKept ==
    ASSUME TwinInv, \A u \in Threads : At(u, "write")' => At(u, "write") /\ Obs(u)' = Obs(u),
           property' = property, disturbed \subseteq disturbed'
    PROVE  Undisturbed'
  <1>1. ASSUME NEW u \in Threads, At(u, "write")', (Obs(u).prop \notin disturbed)' PROVE Wins(Obs(u))'
    BY <1>1 DEF TwinInv, Undisturbed, Wins
  <1>2. ASSUME NEW u \in Threads, NEW v \in Threads, At(u, "write")', At(v, "write")',
               (Obs(u).prop = Obs(v).prop)', (Obs(u).prop \notin disturbed)'
        PROVE  u = v
    BY <1>2 DEF TwinInv, Undisturbed
  <1> QED
    BY <1>1, <1>2 DEF Undisturbed

\* The property is read. The observation that would not replace it is let go: the
\* property already shows a stronger one. The other comes to write, and whoever
\* else is about to write marks the property as disturbed.
LEMMA ReadStep ==
    ASSUME TwinAssumption, TwinInv, NEW t \in Threads, Read(t) PROVE TwinInv'
  <1>1. PICK r : r = thread[t]
    OBVIOUS
  <1>2. /\ Good(r) /\ r \in Thread /\ r.pc = "read" /\ r.todo # <<>> /\ r.job # "idle"
        /\ ~ Writer(r)
    BY <1>1, Located DEF Read, Good, Place, InTodo, Writer
  <1>3. PICK o : o = Head(r.todo) /\ o = Obs(t)
    BY <1>1 DEF Obs
  <1>4. o \in Observation /\ o \in recorded
    BY <1>2, <1>3, HeadAndTail DEF Thread, Good, Behind
  <1>5. o.prop \in Props
    BY <1>4 DEF Observation
  <1>6. /\ UNCHANGED <<recorded, property, entity, linked, manifest, stored, bus, delivered, claim,
                       answered, tFaults, tCalls>>
        /\ disturbed' = IF Wins(o) /\ Writing(o) # {} THEN disturbed \cup {o.prop} ELSE disturbed
    BY <1>3 DEF Read, ledgers, queue, edge
  <1>7. disturbed \subseteq disturbed' /\ disturbed' \subseteq Props
    BY <1>5, <1>6 DEF TwinInv, Ledgers
  <1>8. Grows /\ Ledgers'
    BY <1>6, <1>7 DEF Grows, TwinInv, Ledgers
  <1>9. Done'
    BY <1>6, <1>8, DoneKept DEF TwinInv, Done
  <1>10. CASE Wins(o)
    <2>1. PICK q : q = [r EXCEPT !.pc = "write"]
      OBVIOUS
    <2>2. thread' = [thread EXCEPT ![t] = q]
      BY <1>1, <1>3, <1>10, <2>1 DEF Read, Goto
    <2>3. /\ q \in Thread /\ q.pc = "write" /\ q.job = r.job /\ q.of = r.of /\ q.seeds = r.seeds
          /\ q.todo = r.todo /\ q.rest = r.rest
      BY <1>2, <2>1, Gone DEF Pcs
    <2>4. Good(q)'
      <3>1. Job(q) /\ Place(q)
        BY <1>2, <2>3 DEF Good, Job, Place, InTodo
      <3>2. Behind(q)'
        BY <1>2, <1>3, <1>6, <2>3 DEF Good, Behind, InTodo
      <3>3. Covers(q)'
        BY <1>2, <1>6, <2>3 DEF Good, Covers, Kept
      <3> QED
        BY <2>3, <3>1, <3>2, <3>3 DEF Good, Job, Place
    <2>5. DOMAIN thread' = Threads /\ (\A u \in Threads : Good(thread[u]))'
      BY <1>8, <2>2, <2>4, ThreadStep
    <2>6. Holder(q) /\ Writer(q) /\ Head(q.todo) = o
      BY <1>2, <1>3, <2>3 DEF Holder, Writer
    <2>7. /\ \A x \in InHand : x \in InHand'
          /\ Obs(t)' = o
          /\ \A u \in Threads \ {t} : At(u, "write")' => At(u, "write") /\ Obs(u)' = Obs(u)
      BY <1>1, <1>3, <2>2, <2>6, Hands
    <2>8. StrongestShown'
      BY <1>6, <1>7, <2>7 DEF TwinInv, StrongestShown
    <2>9. ASSUME NEW u \in Threads, At(u, "write")', (Obs(u).prop \notin disturbed)' PROVE Wins(Obs(u))'
      <3>1. CASE u = t
        BY <1>6, <1>10, <2>7, <3>1 DEF Wins
      <3>2. CASE u # t
        BY <1>6, <1>7, <2>7, <2>9, <3>2 DEF TwinInv, Undisturbed, Wins
      <3> QED
        BY <3>1, <3>2
    <2>10. \A u \in Threads \ {t} : At(u, "write")' /\ (Obs(u)').prop = o.prop => o.prop \in disturbed'
      <3> SUFFICES ASSUME NEW u \in Threads \ {t}, At(u, "write")', (Obs(u)').prop = o.prop
                   PROVE  o.prop \in disturbed'
        OBVIOUS
      <3>1. u \in Writing(o)
        BY <2>7 DEF Writing
      <3> QED
        BY <1>6, <1>10, <3>1
    <2>11. ASSUME NEW u \in Threads, NEW v \in Threads, At(u, "write")', At(v, "write")',
                  (Obs(u).prop = Obs(v).prop)', (Obs(u).prop \notin disturbed)'
           PROVE  u = v
      <3>1. CASE u # t /\ v # t
        BY <1>7, <2>7, <2>11, <3>1 DEF TwinInv, Undisturbed
      <3>2. CASE u = t \/ v = t
        BY <2>7, <2>10, <2>11, <3>2
      <3> QED
        BY <3>1, <3>2
    <2>12. Undisturbed'
      BY <2>9, <2>11 DEF Undisturbed
    <2> QED
      BY <1>8, <1>9, <2>5, <2>8, <2>12 DEF TwinInv
  <1>11. CASE ~ Wins(o)
    <2>1. Proceed(t) /\ disturbed' = disturbed
      BY <1>3, <1>6, <1>11 DEF Read
    <2>2. PICK s : s = [r EXCEPT !.todo = Tail(@)]
      OBVIOUS
    <2>3. PICK q : q = [s EXCEPT !.pc = Following(s)]
      OBVIOUS
    <2>4. thread' = [thread EXCEPT ![t] = q]
      BY <1>1, <2>1, <2>2, <2>3 DEF Proceed
    <2>5. Good(q)' /\ ~ Holder(q)
      BY <1>2, <1>3, <1>4, <1>6, <2>2, <2>3, Proceeded
    <2>6. DOMAIN thread' = Threads /\ (\A u \in Threads : Good(thread[u]))'
      BY <1>8, <2>4, <2>5, ThreadStep
    <2>7. /\ \A x \in InHand : x \in InHand' \/ x = o
          /\ \A u \in Threads : At(u, "write")' => At(u, "write") /\ Obs(u)' = Obs(u)
      <3>1. ~ Writer(q)
        BY <2>5 DEF Holder, Writer
      <3> QED
        BY <1>1, <1>3, <2>4, <3>1, Hands
    <2>8. property[o.prop] # None /\ ~ MayReplace(property[o.prop], o)
      BY <1>11 DEF Wins
    <2>9. StrongestShown'
      BY <1>6, <2>1, <2>7, <2>8 DEF TwinInv, StrongestShown
    <2>10. Undisturbed'
      BY <1>6, <1>7, <2>7, UndisturbedKept
    <2> QED
      BY <1>8, <1>9, <2>6, <2>9, <2>10 DEF TwinInv
  <1> QED
    BY <1>10, <1>11

\* The property is written, and shows the strongest on record: what the thread read
\* is still there, unless somebody disturbed it.
LEMMA WriteStep ==
    ASSUME TwinAssumption, TwinInv, NEW t \in Threads, Write(t) PROVE TwinInv'
  <1>1. PICK r : r = thread[t]
    OBVIOUS
  <1>2. /\ Good(r) /\ r \in Thread /\ r.pc = "write" /\ r.todo # <<>> /\ r.job # "idle"
        /\ At(t, "write")
    BY <1>1, Located DEF Write, Good, Place, InTodo
  <1>3. PICK o : o = Head(r.todo) /\ o = Obs(t)
    BY <1>1 DEF Obs
  <1>4. o \in Observation /\ o \in recorded
    BY <1>2, <1>3, HeadAndTail DEF Thread, Good, Behind
  <1>5. o.prop \in Props
    BY <1>4 DEF Observation
  <1>6. /\ UNCHANGED <<recorded, entity, linked, manifest, stored, bus, delivered, claim, answered,
                       disturbed, tFaults, tCalls>>
        /\ property' = [property EXCEPT ![o.prop] = o]
    BY <1>3 DEF Write, queue, edge
  <1>7. /\ property \in [Props -> Observation \cup {None}] /\ property'[o.prop] = o
        /\ \A p \in Props : p # o.prop => property'[p] = property[p]
    BY <1>5, <1>6 DEF TwinInv, Ledgers
  <1>8. Grows /\ Ledgers'
    BY <1>4, <1>5, <1>6, <1>7 DEF Grows, TwinInv, Ledgers
  <1>9. Done'
    BY <1>6, <1>8, DoneKept DEF TwinInv, Done
  <1>10. PICK s : s = [r EXCEPT !.todo = Tail(@)]
    OBVIOUS
  <1>11. PICK q : q = [s EXCEPT !.pc = Following(s)]
    OBVIOUS
  <1>12. thread' = [thread EXCEPT ![t] = q]
    BY <1>1, <1>10, <1>11 DEF Write, Proceed
  <1>13. Good(q)' /\ ~ Holder(q)
    BY <1>2, <1>3, <1>4, <1>6, <1>10, <1>11, Proceeded
  <1>14. DOMAIN thread' = Threads /\ (\A u \in Threads : Good(thread[u]))'
    BY <1>8, <1>12, <1>13, ThreadStep
  <1>15. /\ \A x \in InHand : x \in InHand' \/ x = o
         /\ \A u \in Threads : At(u, "write")' => u # t /\ At(u, "write") /\ Obs(u)' = Obs(u)
    <2>1. ~ Writer(q)
      BY <1>13 DEF Holder, Writer
    <2> QED
      BY <1>1, <1>3, <1>12, <2>1, Hands
  <1>16. StrongestShown'
    <2> SUFFICES ASSUME NEW p \in Props \ disturbed, NEW x \in recorded, x \notin InHand', x.prop = p
                 PROVE  property'[p] # None /\ ~ MayReplace(property'[p], x)
      BY <1>6 DEF StrongestShown
    <2>1. x \in Observation /\ (x # o => property[p] # None /\ ~ MayReplace(property[p], x))
      BY <1>15 DEF TwinInv, StrongestShown, Ledgers
    <2>2. CASE p # o.prop
      BY <1>7, <2>1, <2>2
    <2>3. CASE p = o.prop
      <3>1. property'[p] = o /\ o # None
        BY <1>4, <1>7, <2>3 DEF TwinAssumption
      <3>2. Wins(o)
        BY <1>2, <1>3, <2>3 DEF TwinInv, Undisturbed
      <3>3. CASE x = o
        BY <1>4, <3>1, <3>3, Authority
      <3>4. CASE x # o
        <4>1. PICK a : a = property[p]
          OBVIOUS
        <4>2. a \in Observation /\ MayReplace(a, o) /\ ~ MayReplace(a, x)
          BY <1>7, <2>1, <2>3, <3>2, <3>4, <4>1 DEF Wins
        <4> QED
          BY <1>4, <2>1, <3>1, <4>2, Authority
      <3> QED
        BY <3>3, <3>4
    <2> QED
      BY <2>2, <2>3
  <1>17. Undisturbed'
    <2>1. ASSUME NEW u \in Threads, At(u, "write")', (Obs(u).prop \notin disturbed)' PROVE Wins(Obs(u))'
      <3>1. PICK x : x = Obs(u)
        OBVIOUS
      <3>2. Obs(u)' = x /\ u # t /\ At(u, "write") /\ x.prop \notin disturbed
        BY <1>6, <1>15, <2>1, <3>1
      <3>3. x.prop # o.prop
        BY <1>2, <1>3, <3>1, <3>2 DEF TwinInv, Undisturbed
      <3>4. Wins(x)
        BY <3>1, <3>2 DEF TwinInv, Undisturbed
      <3>5. x \in Observation
        <4>1. PICK k : k = thread[u]
          OBVIOUS
        <4>2. k \in Thread /\ k.todo # <<>>
          BY <3>2, <4>1, Located DEF Good, Place, InTodo
        <4> QED
          BY <3>1, <4>1, <4>2, HeadAndTail DEF Thread, Obs
      <3>6. x.prop \in Props
        BY <3>5 DEF Observation
      <3>7. property'[x.prop] = property[x.prop]
        BY <1>7, <3>3, <3>6
      <3> QED
        BY <3>2, <3>4, <3>7 DEF Wins
    <2>2. ASSUME NEW u \in Threads, NEW v \in Threads, At(u, "write")', At(v, "write")',
                 (Obs(u).prop = Obs(v).prop)', (Obs(u).prop \notin disturbed)'
          PROVE  u = v
      BY <1>6, <1>15, <2>2 DEF TwinInv, Undisturbed
    <2> QED
      BY <2>1, <2>2 DEF Undisturbed
  <1> QED
    BY <1>8, <1>9, <1>14, <1>16, <1>17 DEF TwinInv

----------------------------------------------------------------------------
\* A thread that has nothing to do is well, whatever the stores hold.
LEMMA IdleIsGood == ASSUME TwinAssumption PROVE Good(Idle) /\ ~ Holder(Idle)
  <1>1. Idle \in Thread
    BY DEF Idle, Thread, Jobs, Pcs
  <1>2. Job(Idle) /\ Place(Idle) /\ Behind(Idle) /\ Covers(Idle)
    BY DEF Idle, Job, Place, Behind, Covers, InTodo
  <1> QED
    BY <1>1, <1>2 DEF Good, Holder, Idle

\* The end of a thread: everything it was begun for is on record, so the ack, the
\* completed claim and the answer are true.
LEMMA FinishStep ==
    ASSUME TwinAssumption, TwinInv, NEW t \in Threads, Finish(t) PROVE TwinInv'
  <1>1. PICK r : r = thread[t]
    OBVIOUS
  <1>2. Good(r) /\ r \in Thread /\ r.pc = "end" /\ r.job # "idle" /\ r.todo = <<>>
    BY <1>1, Located DEF Finish, Good, Place
  <1>3. /\ thread' = [thread EXCEPT ![t] = Idle]
        /\ UNCHANGED <<recorded, property, entity, linked, manifest, stored, delivered, disturbed,
                       tFaults, tCalls>>
        /\ claim' = IF r.job = "edge" THEN [claim EXCEPT ![r.of] = "completed"] ELSE claim
        /\ answered' = IF r.job = "edge" THEN answered \cup {r.of} ELSE answered
    BY <1>1 DEF Finish, ledgers
  <1>4. /\ r.job = "inline" => Publish(r.of)
        /\ r.job = "twin" => bus' = [bus EXCEPT ![r.of] = "acked"]
        /\ r.job \notin {"inline", "twin"} => bus' = bus
    BY <1>1 DEF Finish
  <1>5. /\ r.job \in {"inline", "twin"} => r.of \in Events
        /\ r.job = "edge" => r.of \in Batches
    BY <1>2 DEF Good, Job
  <1>6. bus' \in [Events -> {None, "ready", "acked", "dead"}]
    BY <1>2, <1>4, <1>5 DEF TwinInv, Ledgers, Publish
  <1>7. claim' \in [Batches -> {None, "claimed", "completed"}] /\ answered' \subseteq Batches
    BY <1>3, <1>5 DEF TwinInv, Ledgers
  <1>8. Grows /\ Ledgers'
    BY <1>3, <1>6, <1>7 DEF Grows, TwinInv, Ledgers
  <1>9. Good(Idle)' /\ ~ Holder(Idle) /\ ~ Holder(r)
    BY <1>2, <1>8, IdleIsGood, GoodKept DEF Holder
  <1>10. Done'
    <2>1. \A b \in Batches : (b \in answered \/ claim[b] = "completed")' =>
              \/ b \in answered \/ claim[b] = "completed"
              \/ r.job = "edge" /\ b = r.of
      BY <1>3, <1>5 DEF TwinInv, Ledgers
    <2>2. r.job = "edge" => Range(ObsOf[r.of]) \subseteq recorded
      BY <1>2, NothingLeft DEF Good, Covers
    <2>3. \A e \in Events : bus'[e] = "acked" => bus[e] = "acked" \/ (r.job = "twin" /\ e = r.of)
      BY <1>4, <1>5 DEF TwinInv, Ledgers, Publish
    <2>4. r.job = "twin" => \A o \in Range(ObsOf[r.of]) : Kept(o)
      BY <1>2, NothingLeft DEF Good, Covers
    <2> QED
      BY <1>3, <2>1, <2>2, <2>3, <2>4 DEF TwinInv, Done, Kept
  <1> QED
    BY <1>1, <1>3, <1>8, <1>9, <1>10, TopologyStep

\* A call raises: the thread is gone, and what it had in hand is on record and
\* will not be projected, so its property counts as disturbed.
LEMMA RaiseStep ==
    ASSUME TwinAssumption, TwinInv, NEW t \in Threads, Raise(t) PROVE TwinInv'
  <1>1. PICK r : r = thread[t]
    OBVIOUS
  <1>2. Good(r) /\ r \in Thread /\ r.job # "idle"
    BY <1>1 DEF Raise, Busy, TwinInv, Good
  <1>3. /\ thread' = [thread EXCEPT ![t] = Idle]
        /\ UNCHANGED <<recorded, property, entity, linked, manifest, stored, delivered, answered, tCalls>>
        /\ disturbed' = disturbed \cup Lost(t)
        /\ claim' = IF r.job = "edge" THEN [claim EXCEPT ![r.of] = None] ELSE claim
        /\ tFaults < MaxFaults /\ tFaults' = tFaults + 1
    BY <1>1 DEF Raise, Fault, ledgers
  <1>4. /\ r.job = "inline" => Publish(r.of)
        /\ r.job = "twin" => bus' = bus \/ bus' = [bus EXCEPT ![r.of] = "dead"]
        /\ r.job \notin {"inline", "twin"} => bus' = bus
    BY <1>1 DEF Raise
  <1>5. /\ r.job \in {"inline", "twin"} => r.of \in Events
        /\ r.job = "edge" => r.of \in Batches
    BY <1>2 DEF Good, Job
  <1>6. /\ bus' \in [Events -> {None, "ready", "acked", "dead"}]
        /\ \A e \in Events : bus'[e] = "acked" => bus[e] = "acked"
    BY <1>2, <1>4, <1>5 DEF TwinInv, Ledgers, Publish
  <1>7. /\ claim' \in [Batches -> {None, "claimed", "completed"}]
        /\ \A b \in Batches : claim'[b] = "completed" => claim[b] = "completed"
    BY <1>3, <1>5 DEF TwinInv, Ledgers, TwinAssumption
  <1>8. /\ Lost(t) \subseteq Props
        /\ Holder(r) => Head(r.todo).prop \in Lost(t)
    <2>1. r.pc \in {"read", "write"} => Head(r.todo) \in Observation
      BY <1>2, HeadAndTail DEF Thread, Good, Place, InTodo
    <2>2. r.pc \in {"read", "write"} => Head(r.todo).prop \in Props
      BY <2>1 DEF Observation
    <2> QED
      BY <1>1, <2>2 DEF Lost, Obs, Holder
  <1>9. disturbed' \subseteq Props /\ disturbed \subseteq disturbed'
    BY <1>3, <1>8 DEF TwinInv, Ledgers
  <1>10. tFaults' \in 0 .. MaxFaults
    BY <1>3 DEF TwinInv, Ledgers, TwinAssumption
  <1>11. Grows /\ Ledgers'
    BY <1>3, <1>6, <1>7, <1>9, <1>10 DEF Grows, TwinInv, Ledgers
  <1>12. Good(Idle)' /\ ~ Holder(Idle) /\ ~ Writer(Idle)
    BY <1>11, IdleIsGood, GoodKept DEF Holder, Writer
  <1>13. DOMAIN thread' = Threads /\ (\A u \in Threads : Good(thread[u]))'
    BY <1>3, <1>11, <1>12, ThreadStep
  <1>14. Done'
    BY <1>3, <1>6, <1>7, <1>11, DoneKept DEF TwinInv, Done
  <1>15. /\ \A x \in InHand : x \in InHand' \/ (Holder(r) /\ x = Head(r.todo))
         /\ \A u \in Threads : At(u, "write")' => At(u, "write") /\ Obs(u)' = Obs(u)
    BY <1>1, <1>3, <1>12, Hands
  <1>16. StrongestShown'
    BY <1>3, <1>8, <1>15 DEF TwinInv, StrongestShown
  <1>17. Undisturbed'
    BY <1>3, <1>9, <1>15, UndisturbedKept
  <1> QED
    BY <1>11, <1>13, <1>14, <1>16, <1>17 DEF TwinInv

\* The process is killed: every thread and every claim is gone.
LEMMA CrashStep ==
    ASSUME TwinAssumption, TwinInv, Crash PROVE TwinInv'
  <1>1. /\ thread' = [t \in Threads |-> Idle] /\ claim' = [b \in Batches |-> None]
        /\ UNCHANGED <<recorded, property, entity, linked, manifest, stored, bus, delivered, answered,
                       tCalls>>
        /\ disturbed' = disturbed \cup UNION {Lost(t) : t \in Threads}
        /\ tFaults < MaxFaults /\ tFaults' = tFaults + 1
    BY DEF Crash, Fault, ledgers, queue
  <1>2. ASSUME NEW t \in Threads
        PROVE  /\ Lost(t) \subseteq Props
               /\ At(t, "read") \/ At(t, "write") => Obs(t).prop \in Lost(t)
    <2>1. PICK r : r = thread[t]
      OBVIOUS
    <2>2. Good(r) /\ r \in Thread
      BY <2>1 DEF TwinInv, Good
    <2>3. r.pc \in {"read", "write"} => Head(r.todo) \in Observation
      BY <2>2, HeadAndTail DEF Thread, Good, Place, InTodo
    <2>4. r.pc \in {"read", "write"} => Head(r.todo).prop \in Props
      BY <2>3 DEF Observation
    <2> QED
      BY <2>1, <2>4 DEF Lost, Obs, At
  <1>3. disturbed' \subseteq Props /\ disturbed \subseteq disturbed'
    BY <1>1, <1>2 DEF TwinInv, Ledgers
  <1>4. tFaults' \in 0 .. MaxFaults /\ claim' \in [Batches -> {None, "claimed", "completed"}]
    BY <1>1 DEF TwinInv, Ledgers, TwinAssumption
  <1>5. Grows /\ Ledgers'
    BY <1>1, <1>3, <1>4 DEF Grows, TwinInv, Ledgers
  <1>6. \A b \in Batches : claim'[b] = "completed" => claim[b] = "completed"
    BY <1>1 DEF TwinAssumption
  <1>7. Done'
    BY <1>1, <1>5, <1>6, DoneKept DEF TwinInv, Done
  <1>8. Good(Idle)'
    BY <1>5, IdleIsGood, GoodKept
  <1>9. DOMAIN thread' = Threads /\ (\A t \in Threads : Good(thread[t]))'
    <2>1. ASSUME NEW t \in Threads PROVE Good(thread[t])'
      <3>1. thread'[t] = Idle
        BY <1>1
      <3> QED
        BY <1>8, <3>1
    <2> QED
      BY <1>1, <2>1
  <1>10. \A t \in Threads : ~ At(t, "write")'
    BY <1>1 DEF At, Busy, Idle
  <1>11. \A x \in InHand : x.prop \in disturbed'
    BY <1>1, <1>2 DEF InHand
  <1>12. StrongestShown'
    BY <1>1, <1>3, <1>11 DEF TwinInv, StrongestShown
  <1>13. Undisturbed'
    BY <1>1, <1>3, <1>10, UndisturbedKept
  <1> QED
    BY <1>5, <1>7, <1>9, <1>12, <1>13 DEF TwinInv

----------------------------------------------------------------------------
\* Nothing is on record, nothing is in hand.
LEMMA InitInv == ASSUME TwinAssumption, Init PROVE TwinInv
  <1>1. Ledgers
    <2>1. /\ recorded = {} /\ linked = {} /\ manifest \in BOOLEAN /\ stored = {} /\ answered = {}
          /\ disturbed = {}
      BY DEF Init
    <2>2. /\ property \in [Props -> Observation \cup {None}] /\ \A p \in Props : property[p] = None
          /\ entity \in [Twins -> Kinds]
      BY DEF Init, Kinds
    <2>3. /\ bus \in [Events -> {None, "ready", "acked", "dead"}]
          /\ claim \in [Batches -> {None, "claimed", "completed"}]
      BY DEF Init
    <2>4. /\ delivered \in [Events -> 0 .. MaxDeliveries] /\ tFaults \in 0 .. MaxFaults
          /\ tCalls \in 0 .. MaxCalls
      BY DEF Init, TwinAssumption
    <2> QED
      BY <2>1, <2>2, <2>3, <2>4 DEF Ledgers
  <1>2. Done
    BY DEF Init, Done, TwinAssumption
  <1>3. DOMAIN thread = Threads /\ \A t \in Threads : Good(thread[t])
    BY IdleIsGood DEF Init
  <1>4. StrongestShown
    BY DEF Init, StrongestShown
  <1>5. Undisturbed
    BY DEF Init, Undisturbed, At, Busy, Idle
  <1> QED
    BY <1>1, <1>2, <1>3, <1>4, <1>5 DEF TwinInv

\* Every step preserves the invariant.
LEMMA StepInv == ASSUME TwinAssumption, TwinInv, [Next]_vars PROVE TwinInv'
  <1>1. CASE UNCHANGED vars
    <2>1. DOMAIN thread' = Threads /\ (\A t \in Threads : Good(thread[t]))'
      BY <1>1 DEF vars, TwinInv, Good, Job, Place, Behind, Covers, Kept
    <2>2. StrongestShown' /\ Undisturbed'
      BY <1>1 DEF vars, TwinInv, StrongestShown, Undisturbed, InHand, At, Busy, Obs, Wins
    <2>3. Ledgers' /\ Done'
      BY <1>1 DEF vars, TwinInv, Ledgers, Done, Kept
    <2> QED
      BY <2>1, <2>2, <2>3 DEF TwinInv
  <1>2. ASSUME NEW t \in Pool, NEW e \in Events, Inline(t, e) PROVE TwinInv'
    BY <1>2, InlineStep
  <1>3. ASSUME NEW e \in Events, Deliver(e) PROVE TwinInv'
    BY <1>3, DeliverStep
  <1>4. ASSUME NEW b \in Batches, EdgeBatch(b) \/ EdgeDuplicate(b) PROVE TwinInv'
    BY <1>4, EdgeBatchStep, EdgeDuplicateStep
  <1>5. ASSUME NEW t \in Pool, Onboard(t) \/ Bootstrap(t) PROVE TwinInv'
    BY <1>5, OnboardStep, BootstrapStep
  <1>6. ASSUME NEW t \in Threads, Step(t) PROVE TwinInv'
    <2>1. CASE EnsureRoot(t) \/ Replay(t) \/ EnsureSeed(t) \/ LinkSeed(t)
      BY <2>1, EnsureRootStep, ReplayStep, EnsureSeedStep, LinkSeedStep
    <2>2. CASE EnsureEntity(t) \/ Link(t)
      BY <2>2, EnsureEntityStep, LinkStep
    <2>3. CASE Record(t) \/ Read(t) \/ Write(t) \/ Finish(t)
      BY <2>3, RecordStep, ReadStep, WriteStep, FinishStep
    <2> QED
      BY <1>6, <2>1, <2>2, <2>3 DEF Step
  <1>7. ASSUME NEW t \in Threads, Raise(t) PROVE TwinInv'
    BY <1>7, RaiseStep
  <1>8. CASE Crash
    BY <1>8, CrashStep
  <1> QED
    BY <1>1, <1>2, <1>3, <1>4, <1>5, <1>6, <1>7, <1>8 DEF Next

\* TwinInv is an invariant of the projection (TwinProjection.project_event, accept,
\* onboard, bootstrap_events, the recovery worker and the edge route).
THEOREM TwinInvariant == ASSUME TwinAssumption PROVE Spec => []TwinInv
  <1>1. Init => TwinInv
    BY InitInv
  <1>2. TwinInv /\ [Next]_vars => TwinInv'
    BY StepInv
  <1> QED
    BY <1>1, <1>2, PTL DEF Spec

\* The stores and the threads always have their types, and a projected value is one
\* of the observations on record.
THEOREM TypeCorrect == ASSUME TwinAssumption PROVE Spec => []TypeOK
  <1>1. ASSUME TwinInv PROVE TypeOK
    <2>1. \A t \in Threads : thread[t].pc \in Pcs
      BY <1>1 DEF TwinInv, Good, Thread
    <2>2. Ledgers
      BY <1>1 DEF TwinInv
    <2> QED
      BY <2>1, <2>2 DEF TypeOK, Ledgers, Kinds, Pcs
  <1> QED
    BY <1>1, TwinInvariant, PTL

\* The twin shows its ledger: a property shows the strongest observation on record
\* unless two projections overlapped on it or one was cut off between the ledger and
\* the property; nothing is on record of an entity that does not exist; and what the
\* bus or a device was told is done is on record.
THEOREM ShowsLedger == ASSUME TwinAssumption PROVE Spec => []TwinShowsLedger
  <1>1. ASSUME TwinInv PROVE TwinShowsLedger
    <2>1. /\ \A o \in recorded : entity[TwinOf[o.prop]] # None
          /\ \A w \in linked : entity[w] # None /\ entity[Root] # None
      BY <1>1 DEF TwinInv, Done
    <2>2. ASSUME NEW s \in Sources, s \in answered \/ (s \in Events /\ bus[s] = "acked"),
                 NEW o \in Range(ObsOf[s])
          PROVE  o \in recorded /\ (s \in Events => TwinOf[o.prop] \in linked)
      <3>1. CASE s \in answered
        <4>1. s \in Batches /\ s \notin Events
          BY <1>1, <3>1 DEF TwinInv, Ledgers, TwinAssumption
        <4> QED
          BY <1>1, <2>2, <3>1, <4>1 DEF TwinInv, Done
      <3>2. CASE s \in Events /\ bus[s] = "acked"
        BY <1>1, <2>2, <3>2 DEF TwinInv, Done, Kept
      <3> QED
        BY <2>2, <3>1, <3>2
    <2>3. SettledIsRecorded
      BY <2>1, <2>2 DEF SettledIsRecorded
    <2> QED
      BY <1>1, <2>3 DEF TwinInv, TwinShowsLedger
  <1> QED
    BY <1>1, TwinInvariant, PTL

\* A bootstrap that reaches its answer has restored the manifest's entities and put
\* every event it read from the store on record, whatever else ran, raised or was
\* killed meanwhile.
THEOREM BootstrapRestores == ASSUME TwinAssumption PROVE Spec => []BootstrapComplete
  <1>1. ASSUME TwinInv PROVE BootstrapComplete
    <2> SUFFICES ASSUME NEW t \in Pool, At(t, "end"), thread[t].job = "bootstrap"
                 PROVE  /\ thread[t].of.seeded => Range(Seeds) \subseteq linked
                        /\ \A e \in thread[t].of.events : Range(ObsOf[e]) \subseteq recorded
      BY DEF BootstrapComplete
    <2>1. PICK r : r = thread[t]
      OBVIOUS
    <2>2. t \in Threads
      BY DEF Threads
    <2>3. Good(r) /\ r.pc = "end" /\ r.job = "bootstrap"
      BY <1>1, <2>1, <2>2, Located
    <2>4. r.rest = {} /\ Range(r.todo) = {} /\ Range(r.seeds) = {}
      BY <2>3, NothingLeft DEF Good, Place
    <2> QED
      BY <2>1, <2>3, <2>4 DEF Good, Covers, Kept
  <1> QED
    BY <1>1, TwinInvariant, PTL

=============================================================================
