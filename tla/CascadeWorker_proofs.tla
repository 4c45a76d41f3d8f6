------------------------ MODULE CascadeWorker_proofs ------------------------
(***************************************************************************)
(* Proofs about the asynchronous cascade worker, for any number of events,  *)
(* messages, processes, threads, faults and crashes, and for cascades that  *)
(* need not answer twice the same.                                          *)
(***************************************************************************)
EXTENDS CascadeWorker, SequenceTheorems, WellFoundedInduction, TLAPS

\* What a thread may rely on between two calls of process_one, whatever other
\* threads did with the same event or the same message meanwhile.
Backed(t) ==
    /\ At(t, "put_cascade") => out[t] \in Outcomes[Ev(t)]
    /\ pc[t] \in {"get_persist", "upsert", "put_persist"}
         => out[t] \in Decisions /\ cascades[Ev(t)] # None
    /\ At(t, "put_persist") => decisions[Ev(t)] # None
    /\ pc[t] \in {"finish", "ack"} => Accounted(Ev(t))
    /\ At(t, "dead_ack") => IsDead(msg[t])

\* The journal holds results its events may have, and a persisted step stands for
\* a stored decision.
JournalIsTrue ==
    /\ \A e \in Events : cascades[e] # None => cascades[e] \in Outcomes[e]
    /\ \A e \in persisted : decisions[e] # None

\* The inductive invariant.
WorkerInv ==
    /\ TypeOK
    /\ \A t \in Threads : Backed(t)
    /\ JournalIsTrue
    /\ NothingDisappears
    /\ RunsAreBacked

-----------------------------------------------------------------------------
(* Numbers, sequences and the pending list. *)

\* A set of message ids has a least one (the head XREADGROUP returns).
LEMMA LeastId ==
    ASSUME NEW S \in SUBSET Nat, S # {} PROVE Least(S) \in S
  <1> DEFINE R == {ss \in Nat \X Nat : ss[1] < ss[2]}
  <1>1. IsWellFoundedOn(R, Nat)
    BY NatLessThanWellFounded, Zenon DEF OpToRel
  <1>2. \A n, m \in S : <<n, m>> \in R <=> n < m
    OBVIOUS
  <1> HIDE DEF R
  <1>3. PICK m \in S : \A n \in S : ~ (<<n, m>> \in R)
    BY <1>1, WFMin
  <1>4. \A n \in S : ~ (n < m)
    BY <1>2, <1>3
  <1>5. \A n \in S : m <= n
    BY <1>4
  <1> QED
    BY <1>5 DEF Least

\* Publishing keeps every message and adds one.
LEMMA Published ==
    ASSUME NEW s \in Seq(Message), NEW x \in Message
    PROVE  /\ Append(s, x) \in Seq(Message) /\ Len(Append(s, x)) = Len(s) + 1
           /\ \A i \in 1..Len(s) : Append(s, x)[i] = s[i]
  OBVIOUS

\* The thread's message is one of the stream, and its event a known event.
LEMMA InHand ==
    ASSUME TypeOK, NEW t \in Threads, ~ At(t, "idle")
    PROVE  /\ msg[t] \in 1..delivered /\ msg[t] \in 1..Len(bus) /\ msg[t] # None
           /\ bus[msg[t]] \in Message /\ Ev(t) \in Events
  <1>1. msg[t] \in 1..delivered /\ msg[t] # None /\ msg[t] \in 1..Len(bus)
    BY DEF TypeOK
  <1>2. bus[msg[t]] \in Message
    BY <1>1, ElementOfSeq DEF TypeOK
  <1> QED
    BY <1>1, <1>2 DEF Message, Ev

-----------------------------------------------------------------------------
(* What no step takes back. *)

\* A journaled result, a stored decision, a dead letter and a message stay; the
\* stream is only trimmed further.
Grows ==
    /\ \A e \in Events : /\ cascades[e] # None => cascades'[e] = cascades[e]
                         /\ decisions[e] # None => decisions'[e] # None
    /\ \A m \in 1..Len(bus) : bus'[m] = bus[m]
    /\ Len(bus) <= Len(bus') /\ trimmed <= trimmed'
    /\ \A m \in Nat : IsDead(m) => IsDead(m)'

\* A thread the step is not about.
Same(u) == pc'[u] = pc[u] /\ msg'[u] = msg[u] /\ out'[u] = out[u]
Alone(t) == \A u \in Threads \ {t} : Same(u)

\* An accounted event stays accounted for.
LEMMA AccountedKept ==
    ASSUME Grows, NEW e \in Events, Accounted(e) PROVE Accounted(e)'
  BY DEF Grows, Accounted, Settled

\* So a thread may rely on what it relied on.
LEMMA OthersKept ==
    ASSUME WorkerInv, Grows, NEW u \in Threads, Same(u) PROVE Backed(u)'
  <1>1. Backed(u) /\ TypeOK
    BY DEF WorkerInv
  <1>2. CASE At(u, "idle")
    BY <1>2 DEF Backed, At, Same
  <1>3. CASE ~ At(u, "idle")
    <2>1. msg[u] \in 1..Len(bus) /\ Ev(u) \in Events
      BY <1>1, <1>3, InHand
    <2>2. Ev(u)' = Ev(u)
      BY <2>1 DEF Ev, Grows, Same
    <2>3. Accounted(Ev(u)) => Accounted(Ev(u))'
      <3> SUFFICES ASSUME Accounted(Ev(u)) PROVE Accounted(Ev(u))'
        OBVIOUS
      <3> QED
        BY <2>1, <2>2 DEF Grows, Accounted, Settled, Decisive
    <2>4. msg[u] \in Nat /\ (IsDead(msg[u]) => IsDead(msg[u])')
      BY <1>1, <2>1 DEF Grows, Same, IsDead, TypeOK
    <2> QED
      BY <1>1, <2>1, <2>2, <2>3, <2>4 DEF Backed, At, Same, Grows
  <1> QED
    BY <1>2, <1>3

\* An id above the mark of trimming to come is above the mark of now.
LEMMA Between ==
    ASSUME NEW len \in Nat, NEW now \in 0..len, NEW last \in 0..len, NEW then \in Nat,
           NEW n \in Nat, now <= then, NEW m \in (then + 1)..n, m <= last
    PROVE  m \in 1..last /\ m \in 1..len /\ m \in (now + 1)..last /\ m > then /\ m \in Nat
  OBVIOUS

\* A message once accounted for stays so, whether pending, dead or settled.
LEMMA NothingDisappearsKept ==
    ASSUME WorkerInv, Grows, delivered' \in Nat, trimmed' \in Nat,
           \A m \in 1..delivered : m \in DOMAIN pel /\ m > trimmed' =>
                m \in DOMAIN pel' \/ IsDead(m)' \/ Accounted(bus[m].event)',
           \A m \in (trimmed' + 1)..delivered' : m > delivered => m \in DOMAIN pel'
    PROVE  NothingDisappears'
  <1> SUFFICES ASSUME NEW m \in (trimmed' + 1)..delivered'
               PROVE  m \in DOMAIN pel' \/ IsDead(m)' \/ Accounted(bus[m].event)'
    BY DEF NothingDisappears
  <1>0. TypeOK
    BY DEF WorkerInv
  <1>1. CASE m > delivered
    BY <1>1
  <1>2. CASE m <= delivered
    <2>1. /\ m \in 1..delivered /\ m \in 1..Len(bus) /\ m \in (trimmed + 1)..delivered
          /\ m > trimmed' /\ m \in Nat
      <3>1. Len(bus) \in Nat /\ trimmed \in 0..Len(bus) /\ delivered \in 0..Len(bus)
        BY <1>0 DEF TypeOK
      <3>2. trimmed <= trimmed'
        BY DEF Grows
      <3> QED
        BY <1>2, <3>1, <3>2, Between
    <2>2. bus'[m] = bus[m] /\ bus[m].event \in Events
      <3>1. bus[m] \in Message
        BY <1>0, <2>1, ElementOfSeq DEF TypeOK
      <3> QED
        BY <2>1, <3>1 DEF Grows, Message
    <2>3. m \in DOMAIN pel \/ IsDead(m) \/ Accounted(bus[m].event)
      BY <2>1 DEF WorkerInv, NothingDisappears
    <2>4. IsDead(m) => IsDead(m)'
      BY <2>1 DEF Grows
    <2>5. PICK e \in Events : e = bus[m].event
      BY <2>2
    <2>6. Accounted(e) => Accounted(e)'
      BY AccountedKept
    <2> QED
      BY <2>1, <2>2, <2>3, <2>4, <2>5, <2>6 DEF Accounted, Settled, Decisive
  <1> QED
    BY <1>0, <1>1, <1>2 DEF TypeOK

-----------------------------------------------------------------------------
(* The parts of a step. *)

\* The types of the stream, of the journal, of the threads and of the environment.
BusOK ==
    /\ bus \in Seq(Message) /\ Len(bus) <= MaxPublish
    /\ trimmed \in 0..Len(bus) /\ delivered \in 0..Len(bus)
    /\ DOMAIN pel \subseteq 1..delivered
    /\ \A m \in DOMAIN pel : pel[m] \in [owner: Consumers, count: 1..MaxRetries]
    /\ dead \in Seq(1..delivered)
JournalOK ==
    /\ runs \in [Events -> {"none", "running", "done", "failed"}]
    /\ cascades \in [Events -> Outputs \cup {None}]
    /\ persisted \subseteq Events
    /\ decisions \in [Events -> Decisions \cup {None}]
ThreadsOK ==
    /\ pc \in [Threads -> Steps]
    /\ msg \in [Threads -> 1..delivered \cup {None}]
    /\ \A t \in Threads : At(t, "idle") <=> msg[t] = None
    /\ out \in [Threads -> Outputs \cup {None}]
EnvOK == up \subseteq Consumers /\ faults \in 0..MaxFaults /\ crashes \in 0..MaxCrashes

\* The parts of the invariant.
LEMMA Parts ==
    ASSUME WorkerInv
    PROVE  /\ TypeOK /\ BusOK /\ JournalOK /\ ThreadsOK /\ EnvOK /\ JournalIsTrue
           /\ DoneIsSettled /\ StoredIsJournaled
           /\ \A t \in Threads : Backed(t)
           /\ \A t \in Threads : ~ At(t, "idle") =>
                 /\ msg[t] \in 1..delivered /\ msg[t] \in 1..Len(bus) /\ msg[t] # None
                 /\ Ev(t) \in Events
  <1>1. TypeOK
    BY DEF WorkerInv
  <1>2. \A t \in Threads : ~ At(t, "idle") =>
                 /\ msg[t] \in 1..delivered /\ msg[t] \in 1..Len(bus) /\ msg[t] # None
                 /\ Ev(t) \in Events
    BY <1>1, InHand
  <1> QED
    BY <1>1, <1>2 DEF WorkerInv, TypeOK, BusOK, JournalOK, ThreadsOK, EnvOK, RunsAreBacked

\* A step keeps the invariant when each part of it is kept.
LEMMA Compose ==
    ASSUME WorkerInv, BusOK', JournalOK', ThreadsOK', EnvOK', Grows,
           \A u \in Threads : Same(u) \/ Backed(u)',
           JournalIsTrue', RunsAreBacked', NothingDisappears'
    PROVE  WorkerInv'
  <1>1. \A u \in Threads : Backed(u)'
    BY OthersKept
  <1>2. TypeOK'
    BY DEF TypeOK, BusOK, JournalOK, ThreadsOK, EnvOK
  <1> QED
    BY <1>1, <1>2 DEF WorkerInv

\* A step that leaves the stream alone.
LEMMA BusKept ==
    ASSUME WorkerInv, UNCHANGED busVars, Grows
    PROVE  BusOK' /\ NothingDisappears'
  <1>1. BusOK'
    BY Parts DEF BusOK, busVars
  <1>2. delivered' \in Nat /\ trimmed' \in Nat
    BY Parts DEF BusOK, busVars
  <1>3. \A m \in (trimmed' + 1)..delivered' : m > delivered => m \in DOMAIN pel'
    BY <1>2, Parts DEF BusOK, busVars
  <1>4. \A m \in 1..delivered : m \in DOMAIN pel /\ m > trimmed' =>
                m \in DOMAIN pel' \/ IsDead(m)' \/ Accounted(bus[m].event)'
    BY DEF busVars
  <1> QED
    BY <1>1, <1>2, <1>3, <1>4, NothingDisappearsKept

\* A step that leaves the journal and the decision store alone.
LEMMA JournalKept ==
    ASSUME WorkerInv, UNCHANGED journalVars
    PROVE  JournalOK' /\ JournalIsTrue' /\ RunsAreBacked'
  BY Parts DEF JournalOK, JournalIsTrue, RunsAreBacked, DoneIsSettled, StoredIsJournaled,
     Accounted, Settled, Decisive, journalVars

\* A step that leaves both alone takes nothing back.
LEMMA GrowsTrivially ==
    ASSUME WorkerInv, UNCHANGED <<cascades, decisions, bus, trimmed, dead>> PROVE Grows
  BY Parts DEF Grows, IsDead, BusOK

\* A step of one thread inside process_one: only its own locals change.
LEMMA LocalStep ==
    ASSUME WorkerInv, NEW t \in Threads, UNCHANGED <<busVars, journalVars>>,
           ThreadsOK', EnvOK', Alone(t), Backed(t)'
    PROVE  WorkerInv'
  <1>1. Grows
    BY GrowsTrivially DEF busVars, journalVars
  <1>2. \A u \in Threads : Same(u) \/ Backed(u)'
    BY DEF Alone
  <1> QED
    BY <1>1, <1>2, BusKept, JournalKept, Compose

\* The thread goes on to step s of process_one, with cascade result o.
LEMMA Goes ==
    ASSUME ThreadsOK, NEW t \in Threads, ~ At(t, "idle"), NEW s \in Steps \ {"idle"},
           NEW o \in Outputs \cup {None}, delivered' = delivered,
           pc' = [pc EXCEPT ![t] = s],
           out' = [out EXCEPT ![t] = o] \/ (out' = out /\ o = out[t]), msg' = msg
    PROVE  ThreadsOK' /\ Alone(t) /\ pc'[t] = s /\ out'[t] = o /\ msg'[t] = msg[t]
  BY DEF ThreadsOK, Alone, Same, At

\* The thread returns from process_one.
LEMMA Returns ==
    ASSUME ThreadsOK, NEW t \in Threads, Done(t), delivered' = delivered
    PROVE  ThreadsOK' /\ Alone(t) /\ Backed(t)'
  <1>1. ThreadsOK' /\ Alone(t) /\ pc'[t] = "idle"
    BY DEF ThreadsOK, Alone, Same, At, Done, Goto, Steps
  <1> QED
    BY <1>1 DEF Backed, At

-----------------------------------------------------------------------------
(* The bus. *)

\* XADD, and the trimming that comes with it.
LEMMA PublishStep ==
    ASSUME WorkerAssumption, WorkerInv, NEW e \in Events, NEW c \in Contents, Publish(e, c)
    PROVE  WorkerInv'
  <1> DEFINE x == [event |-> e, content |-> c]
  <1>0. BusOK /\ ThreadsOK /\ EnvOK
    BY Parts
  <1>1. /\ bus' = Append(bus, x) /\ Len(bus) < MaxPublish
        /\ trimmed' \in 0..Len(bus) /\ trimmed <= trimmed'
        /\ UNCHANGED <<delivered, pel, dead, journalVars, threadVars, envVars>>
    BY <1>0 DEF Publish, BusOK
  <1>2. x \in Message
    BY DEF Message
  <1> HIDE DEF x
  <1>3. /\ bus' \in Seq(Message) /\ Len(bus') = Len(bus) + 1
        /\ \A i \in 1..Len(bus) : bus'[i] = bus[i]
    BY <1>0, <1>1, <1>2, Published DEF BusOK
  <1>4. Len(bus) \in Nat
    BY <1>0 DEF BusOK
  <1>5. Grows
    BY <1>1, <1>3, <1>4 DEF Grows, IsDead, journalVars
  <1>6. BusOK'
    <2>1. Len(bus') <= MaxPublish
      BY <1>1, <1>3, <1>4 DEF WorkerAssumption
    <2> QED
      BY <1>0, <1>1, <1>3, <1>4, <2>1 DEF BusOK
  <1>7. ThreadsOK' /\ EnvOK' /\ \A u \in Threads : Same(u)
    BY <1>0, <1>1 DEF ThreadsOK, EnvOK, Same, At, threadVars, envVars
  <1>8. NothingDisappears'
    <2>1. delivered' \in Nat /\ trimmed' \in Nat
      BY <1>0, <1>1 DEF BusOK
    <2>2. \A m \in (trimmed' + 1)..delivered' : m > delivered => m \in DOMAIN pel'
      BY <1>1, <2>1
    <2>3. \A m \in 1..delivered : m \in DOMAIN pel /\ m > trimmed' =>
                m \in DOMAIN pel' \/ IsDead(m)' \/ Accounted(bus[m].event)'
      BY <1>1
    <2> QED
      BY <1>5, <2>1, <2>2, <2>3, NothingDisappearsKept
  <1>9. UNCHANGED journalVars
    BY <1>1
  <1> QED
    BY <1>5, <1>6, <1>7, <1>8, <1>9, JournalKept, Compose

\* A message is handed to a thread: it is or becomes pending.
LEMMA TakeStep ==
    ASSUME WorkerAssumption, WorkerInv, NEW t \in Threads, NEW m \in 1..Len(bus), Take(t, m),
           delivered' \in delivered..Len(bus), m <= delivered',
           DOMAIN pel \subseteq DOMAIN pel', DOMAIN pel' \subseteq 1..delivered',
           \A n \in DOMAIN pel' : pel'[n] \in [owner: Consumers, count: 1..MaxRetries],
           \A n \in (trimmed + 1)..delivered' : n > delivered => n \in DOMAIN pel'
    PROVE  WorkerInv'
  <1>0. BusOK /\ ThreadsOK /\ EnvOK
    BY Parts
  <1>1. /\ pc' = [pc EXCEPT ![t] = "start_run"] /\ msg' = [msg EXCEPT ![t] = m] /\ out' = out
        /\ UNCHANGED <<bus, trimmed, dead, journalVars, envVars>>
    BY DEF Take, Goto
  <1>2. delivered \in Nat /\ delivered' \in Nat /\ Len(bus) \in Nat /\ delivered <= delivered'
        /\ 1..delivered \subseteq 1..delivered'
    BY <1>0 DEF BusOK
  <1>3. BusOK'
    <2>1. dead' \in Seq(1..delivered')
      BY <1>0, <1>1, <1>2, SeqMonotonic DEF BusOK
    <2> QED
      BY <1>0, <1>1, <1>2, <2>1 DEF BusOK
  <1>4. m # None /\ m \in 1..delivered'
    BY <1>2 DEF WorkerAssumption
  <1>5. ThreadsOK' /\ Alone(t) /\ pc'[t] = "start_run"
    BY <1>0, <1>1, <1>2, <1>4 DEF ThreadsOK, Alone, Same, At, Steps, TrySteps
  <1>6. Grows
    BY <1>1, GrowsTrivially DEF journalVars
  <1>7. NothingDisappears'
    <2>1. \A n \in 1..delivered : n \in DOMAIN pel /\ n > trimmed' =>
                n \in DOMAIN pel' \/ IsDead(n)' \/ Accounted(bus[n].event)'
      OBVIOUS
    <2> QED
      BY <1>0, <1>1, <1>2, <1>6, <2>1, NothingDisappearsKept DEF BusOK
  <1>8. \A u \in Threads : Same(u) \/ Backed(u)'
    BY <1>5 DEF Alone, Backed, At
  <1>9. EnvOK' /\ UNCHANGED journalVars
    BY <1>0, <1>1 DEF EnvOK, envVars
  <1> QED
    BY <1>3, <1>5, <1>6, <1>7, <1>8, <1>9, JournalKept, Compose

\* consume_one's first read: the consumer's own pending head.
LEMMA ConsumePendingStep ==
    ASSUME WorkerAssumption, WorkerInv, NEW t \in Threads, ConsumePending(t) PROVE WorkerInv'
  <1> DEFINE m == Least(Owned(ConsumerOf[t]))
  <1>0. BusOK
    BY Parts
  <1>1. m \in DOMAIN pel
    <2>1. Owned(ConsumerOf[t]) \in SUBSET Nat /\ Owned(ConsumerOf[t]) # {}
      BY <1>0 DEF ConsumePending, Owned, BusOK
    <2>2. m \in Owned(ConsumerOf[t])
      BY <2>1, LeastId
    <2> QED
      BY <2>2 DEF Owned
  <1>2. Take(t, m) /\ UNCHANGED <<delivered, trimmed>> /\ pel' = [pel EXCEPT ![m].count = Bump(pel[m].count)]
    BY DEF ConsumePending, Take
  <1> HIDE DEF m
  <1>3. DOMAIN pel' = DOMAIN pel
    BY <1>2
  <1>4. pel[m] \in [owner: Consumers, count: 1..MaxRetries] /\ m \in 1..delivered
    BY <1>0, <1>1 DEF BusOK
  <1>5. [pel[m] EXCEPT !.count = Bump(pel[m].count)] \in [owner: Consumers, count: 1..MaxRetries]
    BY <1>4 DEF Bump, WorkerAssumption
  <1>6. \A n \in DOMAIN pel' : pel'[n] \in [owner: Consumers, count: 1..MaxRetries]
    BY <1>0, <1>2, <1>3, <1>5 DEF BusOK
  <1>7. /\ delivered \in Nat /\ delivered <= Len(bus) /\ Len(bus) \in Nat /\ trimmed \in Nat
        /\ DOMAIN pel \subseteq 1..delivered
    BY <1>0 DEF BusOK
  <1>8. m \in 1..Len(bus) /\ m <= delivered'
    BY <1>2, <1>4, <1>7
  <1>9. delivered' \in delivered..Len(bus) /\ DOMAIN pel' \subseteq 1..delivered'
    BY <1>2, <1>3, <1>7
  <1>10. \A n \in (trimmed + 1)..delivered' : n > delivered => n \in DOMAIN pel'
    BY <1>2, <1>7
  <1> QED
    BY <1>2, <1>3, <1>6, <1>8, <1>9, <1>10, TakeStep

\* consume_one's second read: the next message, past what was trimmed unread.
LEMMA ConsumeNewStep ==
    ASSUME WorkerAssumption, WorkerInv, NEW t \in Threads, ConsumeNew(t) PROVE WorkerInv'
  <1> DEFINE m == IF delivered > trimmed THEN delivered + 1 ELSE trimmed + 1
  <1>0. BusOK
    BY Parts
  <1>1. /\ m <= Len(bus) /\ delivered' = m /\ Take(t, m)
        /\ pel' = [n \in (DOMAIN pel) \cup {m} |->
                      IF n = m THEN [owner |-> ConsumerOf[t], count |-> 1] ELSE pel[n]]
    BY DEF ConsumeNew
  <1>2. delivered \in Nat /\ trimmed \in Nat /\ Len(bus) \in Nat /\ DOMAIN pel \subseteq 1..delivered
    BY <1>0 DEF BusOK
  <1>3. m \in 1..Len(bus) /\ delivered < m
    BY <1>1, <1>2
  <1>4. \A n \in (trimmed + 1)..m : n > delivered => n = m
    BY <1>2
  <1> HIDE DEF m
  <1>5. ConsumerOf[t] \in Consumers /\ 1 \in 1..MaxRetries
    BY DEF WorkerAssumption
  <1>6. DOMAIN pel' = DOMAIN pel \cup {m}
    BY <1>1
  <1>7. \A n \in DOMAIN pel' : pel'[n] \in [owner: Consumers, count: 1..MaxRetries]
    BY <1>0, <1>1, <1>5 DEF BusOK
  <1>8. delivered' \in delivered..Len(bus) /\ DOMAIN pel' \subseteq 1..delivered' /\ m <= delivered'
    BY <1>1, <1>2, <1>3, <1>6
  <1>9. \A n \in (trimmed + 1)..delivered' : n > delivered => n \in DOMAIN pel'
    BY <1>1, <1>4, <1>6
  <1> QED
    BY <1>1, <1>3, <1>6, <1>7, <1>8, <1>9, TakeStep

\* reclaim_stale drops from the pending list only what is no longer in the stream.
LEMMA ReclaimStep ==
    ASSUME WorkerAssumption, WorkerInv, NEW t \in Threads, NEW S \in SUBSET Stale, ReclaimStale(t, S)
    PROVE  WorkerInv'
  <1>0. BusOK /\ ThreadsOK /\ EnvOK
    BY Parts
  <1>1. /\ pel' = [m \in (DOMAIN pel) \ {n \in S : n <= trimmed} |->
                     IF m \in S THEN [owner |-> ConsumerOf[t], count |-> Bump(pel[m].count)]
                                ELSE pel[m]]
        /\ UNCHANGED <<bus, trimmed, delivered, dead, journalVars, threadVars, envVars>>
    BY DEF ReclaimStale
  <1>2. DOMAIN pel' = (DOMAIN pel) \ {n \in S : n <= trimmed}
    BY <1>1
  <1>3. ConsumerOf[t] \in Consumers
    BY DEF WorkerAssumption
  <1>4. \A m \in DOMAIN pel : Bump(pel[m].count) \in 1..MaxRetries
    BY <1>0 DEF BusOK, Bump, WorkerAssumption
  <1>5. \A m \in DOMAIN pel' : pel'[m] \in [owner: Consumers, count: 1..MaxRetries]
    BY <1>0, <1>1, <1>2, <1>3, <1>4 DEF BusOK
  <1>6. BusOK'
    BY <1>0, <1>1, <1>2, <1>5 DEF BusOK
  <1>7. Grows /\ UNCHANGED journalVars
    BY <1>1, GrowsTrivially DEF journalVars
  <1>8. ThreadsOK' /\ EnvOK' /\ \A u \in Threads : Same(u)
    BY <1>0, <1>1 DEF ThreadsOK, EnvOK, Same, At, threadVars, envVars
  <1>9. NothingDisappears'
    <2>1. delivered' \in Nat /\ trimmed' \in Nat /\ delivered \in Nat /\ trimmed \in Nat
      BY <1>0, <1>1 DEF BusOK
    <2>2. \A m \in (trimmed' + 1)..delivered' : m > delivered => m \in DOMAIN pel'
      BY <1>1, <2>1
    <2>3. \A m \in 1..delivered : m \in DOMAIN pel /\ m > trimmed' =>
                m \in DOMAIN pel' \/ IsDead(m)' \/ Accounted(bus[m].event)'
      BY <1>1, <1>2, <2>1
    <2> QED
      BY <1>7, <2>1, <2>2, <2>3, NothingDisappearsKept
  <1> QED
    BY <1>6, <1>7, <1>8, <1>9, JournalKept, Compose

-----------------------------------------------------------------------------
(* process_one. *)

\* Calls that read the journal, run the handler or give up: only the thread's
\* locals change.
LEMMA ReadStep ==
    ASSUME WorkerAssumption, WorkerInv, NEW t \in Threads,
           CascadeGet(t) \/ HandlerRaises(t) \/ PersistGet(t) \/ Nack(t)
             \/ \E o \in Outputs : Handler(t, o)
    PROVE  WorkerInv'
  <1>0. /\ BusOK /\ ThreadsOK /\ EnvOK /\ JournalOK /\ JournalIsTrue /\ Backed(t)
        /\ ~ At(t, "idle") /\ Ev(t) \in Events /\ UNCHANGED <<busVars, journalVars, envVars>>
    BY Parts DEF CascadeGet, HandlerRaises, PersistGet, Nack, Handler, At
  <1>1. EnvOK' /\ UNCHANGED <<busVars, journalVars>> /\ delivered' = delivered /\ bus' = bus
    BY <1>0 DEF EnvOK, envVars, busVars
  <1>2. ASSUME NEW s \in Steps \ {"idle"}, NEW o \in Outputs \cup {None}, msg' = msg,
               pc' = [pc EXCEPT ![t] = s],
               out' = [out EXCEPT ![t] = o] \/ (out' = out /\ o = out[t]),
               s \in {"put_cascade", "get_persist", "upsert", "finish", "handler", "failed", "dead_add"},
               s = "put_cascade" => o \in Outcomes[Ev(t)],
               s \in {"get_persist", "upsert"} => o \in Decisions /\ cascades[Ev(t)] # None,
               s = "finish" => Accounted(Ev(t))
        PROVE  WorkerInv'
    <2>1. ThreadsOK' /\ Alone(t) /\ pc'[t] = s /\ out'[t] = o /\ msg'[t] = msg[t]
      BY <1>0, <1>1, <1>2, Goes
    <2>2. Ev(t)' = Ev(t)
      BY <1>1, <2>1 DEF Ev
    <2>3. Accounted(Ev(t)) => Accounted(Ev(t))'
      BY <1>0, <2>2 DEF Accounted, Settled, Decisive, journalVars
    <2>4. Backed(t)'
      BY <1>0, <1>2, <2>1, <2>2, <2>3 DEF Backed, At, journalVars
    <2> QED
      BY <1>1, <2>1, <2>4, LocalStep
  <1>3. CASE CascadeGet(t)
    <2>1. CASE cascades[Ev(t)] = None
      <3>1. pc' = [pc EXCEPT ![t] = "handler"] /\ UNCHANGED <<msg, out>> /\ out[t] \in Outputs \cup {None}
        BY <1>0, <1>3, <2>1 DEF CascadeGet, Goto, ThreadsOK
      <3> QED
        BY <1>2, <3>1 DEF Steps, TrySteps
    <2>2. CASE cascades[Ev(t)] # None
      <3> DEFINE o == cascades[Ev(t)]
                 s == AfterCascade(o)
      <3>1. o \in Outputs
        BY <1>0, <2>2 DEF JournalOK
      <3>2. /\ s \in {"finish", "get_persist"} /\ (s = "finish" <=> o = NoDecision)
        BY DEF AfterCascade
      <3>3. s = "finish" => Accounted(Ev(t))
        BY <2>2, <3>2 DEF Accounted, Settled
      <3>4. s = "get_persist" => o \in Decisions /\ cascades[Ev(t)] # None
        BY <2>2, <3>1, <3>2 DEF Outputs
      <3>5. pc' = [pc EXCEPT ![t] = s] /\ out' = [out EXCEPT ![t] = o] /\ msg' = msg
        BY <1>3, <2>2 DEF CascadeGet, Goto
      <3> HIDE DEF s, o
      <3> QED
        BY <1>2, <3>1, <3>2, <3>3, <3>4, <3>5 DEF Steps, TrySteps
    <2> QED
      BY <2>1, <2>2
  <1>4. CASE HandlerRaises(t)
    <2>1. pc' = [pc EXCEPT ![t] = "failed"] /\ UNCHANGED <<msg, out>> /\ out[t] \in Outputs \cup {None}
      BY <1>0, <1>4 DEF HandlerRaises, Goto, ThreadsOK
    <2> QED
      BY <1>2, <2>1 DEF Steps, ExceptSteps
  <1>5. ASSUME NEW o \in Outputs, Handler(t, o) PROVE WorkerInv'
    <2>1. pc' = [pc EXCEPT ![t] = "put_cascade"] /\ msg' = msg /\ out' = [out EXCEPT ![t] = o] /\ o \in Outcomes[Ev(t)]
      BY <1>5 DEF Handler, Goto
    <2> QED
      BY <1>2, <2>1 DEF Steps, TrySteps
  <1>6. CASE PersistGet(t)
    <2> DEFINE s == IF Ev(t) \in persisted THEN "finish" ELSE "upsert"
    <2>1. pc' = [pc EXCEPT ![t] = s] /\ UNCHANGED <<msg, out>> /\ out[t] \in Outputs \cup {None}
      BY <1>0, <1>6 DEF PersistGet, Goto, ThreadsOK
    <2>2. out[t] \in Decisions /\ cascades[Ev(t)] # None
      BY <1>0, <1>6 DEF PersistGet, At, Backed
    <2>3. s = "finish" => Accounted(Ev(t))
      BY <1>0, <2>2 DEF JournalIsTrue, Accounted, Settled
    <2>4. s \in {"finish", "upsert"}
      OBVIOUS
    <2> HIDE DEF s
    <2> QED
      BY <1>2, <2>1, <2>2, <2>3, <2>4 DEF Steps, TrySteps
  <1>7. CASE Nack(t)
    <2>1. CASE Done(t)
      BY <1>0, <1>1, <2>1, Returns, LocalStep
    <2>2. CASE Goto(t, "dead_add") /\ UNCHANGED <<msg, out>>
      <3>1. pc' = [pc EXCEPT ![t] = "dead_add"] /\ UNCHANGED <<msg, out>> /\ out[t] \in Outputs \cup {None}
        BY <1>0, <2>2 DEF Goto, ThreadsOK
      <3> QED
        BY <1>2, <3>1 DEF Steps, ExceptSteps
    <2> QED
      BY <1>7, <2>1, <2>2 DEF Nack
  <1> QED
    BY <1>3, <1>4, <1>5, <1>6, <1>7

\* start_run and finish_run: only an accounted event is called done.
LEMMA RunStep ==
    ASSUME WorkerAssumption, WorkerInv, NEW t \in Threads,
           StartRun(t) \/ FinishDone(t) \/ FinishFailed(t)
    PROVE  WorkerInv'
  <1>0. /\ BusOK /\ ThreadsOK /\ EnvOK /\ JournalOK /\ JournalIsTrue /\ Backed(t) /\ DoneIsSettled
        /\ StoredIsJournaled /\ ~ At(t, "idle") /\ Ev(t) \in Events
        /\ UNCHANGED <<busVars, cascades, persisted, decisions, msg, out, envVars>>
    BY Parts DEF StartRun, FinishDone, FinishFailed, At
  <1>1. EnvOK' /\ UNCHANGED busVars /\ delivered' = delivered /\ bus' = bus
    BY <1>0 DEF EnvOK, envVars, busVars
  <1>2. Grows
    BY <1>0, GrowsTrivially DEF busVars
  <1>3. PICK s \in {"get_cascade", "ack", "nack"},
             r \in {"none", "running", "done", "failed"} :
                 /\ pc' = [pc EXCEPT ![t] = s] /\ runs' = [runs EXCEPT ![Ev(t)] = r]
                 /\ s = "ack" => At(t, "finish")
                 /\ r = "done" => runs[Ev(t)] = "done" \/ At(t, "finish")
    <2>1. runs[Ev(t)] \in {"none", "running", "done", "failed"}
      BY <1>0 DEF JournalOK
    <2>2. CASE StartRun(t)
      BY <2>1, <2>2 DEF StartRun, Goto
    <2>3. CASE FinishDone(t)
      BY <2>3 DEF FinishDone, Goto
    <2>4. CASE FinishFailed(t)
      BY <2>1, <2>4 DEF FinishFailed, Goto
    <2> QED
      BY <2>2, <2>3, <2>4
  <1>4. ThreadsOK' /\ Alone(t) /\ pc'[t] = s /\ msg'[t] = msg[t]
    BY <1>0, <1>1, <1>3 DEF ThreadsOK, Alone, Same, At, Steps, TrySteps, ExceptSteps
  <1>5. \A e \in Events : Accounted(e) => Accounted(e)'
    BY <1>2, AccountedKept
  <1>6. At(t, "finish") => Accounted(Ev(t))
    BY <1>0 DEF Backed, At
  <1>7. JournalOK' /\ JournalIsTrue' /\ RunsAreBacked'
    <2>1. JournalOK' /\ JournalIsTrue' /\ StoredIsJournaled'
      BY <1>0, <1>3 DEF JournalOK, JournalIsTrue, StoredIsJournaled
    <2>2. \A e \in Events : runs'[e] = "done" => Accounted(e)
      BY <1>0, <1>3, <1>6 DEF JournalOK, DoneIsSettled
    <2>3. DoneIsSettled'
      BY <1>5, <2>2 DEF DoneIsSettled
    <2> QED
      BY <2>1, <2>3 DEF RunsAreBacked
  <1>8. Backed(t)'
    <2>1. Ev(t)' = Ev(t)
      BY <1>1, <1>4 DEF Ev
    <2>2. s = "ack" => Accounted(Ev(t))'
      BY <1>0, <1>3, <1>6, <2>1 DEF Accounted, Settled, Decisive
    <2> QED
      BY <1>3, <1>4, <2>2 DEF Backed, At
  <1>9. \A u \in Threads : Same(u) \/ Backed(u)'
    BY <1>4, <1>8 DEF Alone
  <1> QED
    BY <1>1, <1>2, <1>4, <1>7, <1>9, BusKept, Compose

\* journal.put of the cascade: the first result stays, whoever computed it.
LEMMA CascadePutStep ==
    ASSUME WorkerAssumption, WorkerInv, NEW t \in Threads, CascadePut(t) PROVE WorkerInv'
  <1> DEFINE e == Ev(t)
             o == out[t]
             s == AfterCascade(out[t])
  <1>0. /\ BusOK /\ ThreadsOK /\ EnvOK /\ JournalOK /\ JournalIsTrue /\ Backed(t) /\ DoneIsSettled
        /\ StoredIsJournaled /\ ~ At(t, "idle") /\ At(t, "put_cascade") /\ Ev(t) \in Events
        /\ UNCHANGED <<busVars, runs, persisted, decisions, msg, out, envVars>>
    BY Parts DEF CascadePut, At
  <1>1. EnvOK' /\ UNCHANGED busVars /\ delivered' = delivered /\ bus' = bus
    BY <1>0 DEF EnvOK, envVars, busVars
  <1>2. o \in Outcomes[e] /\ o \in Outputs /\ o # None
    BY <1>0 DEF Backed, WorkerAssumption
  <1>3. /\ cascades' = [cascades EXCEPT ![e] = IF cascades[e] = None THEN o ELSE cascades[e]]
        /\ pc' = [pc EXCEPT ![t] = s]
    BY DEF CascadePut, Goto
  <1>4. s \in {"finish", "get_persist"} /\ (s = "finish" <=> o = NoDecision)
    BY DEF AfterCascade
  <1>5. /\ cascades'[e] # None /\ cascades'[e] \in Outcomes[e] /\ cascades'[e] \in Outputs
        /\ \A x \in Events : x # e => cascades'[x] = cascades[x]
        /\ \A x \in Events : cascades[x] # None => cascades'[x] = cascades[x]
    BY <1>0, <1>2, <1>3 DEF JournalOK, JournalIsTrue
  <1> HIDE DEF s
  <1>6. Grows
    <2>1. UNCHANGED <<bus, trimmed, dead, decisions>>
      BY <1>0 DEF busVars
    <2> QED
      BY <1>0, <1>5, <2>1 DEF Grows, IsDead, BusOK
  <1>7. ThreadsOK' /\ Alone(t) /\ pc'[t] = s /\ msg'[t] = msg[t] /\ out'[t] = o
    BY <1>0, <1>1, <1>3, <1>4 DEF ThreadsOK, Alone, Same, At, Steps, TrySteps
  <1>8. Backed(t)'
    <2>1. Ev(t)' = e
      BY <1>1, <1>7 DEF Ev
    <2>2. s = "finish" => Accounted(Ev(t))'
      BY <1>2, <1>4, <1>5, <2>1 DEF Accounted, Settled, Decisive
    <2>3. s = "get_persist" => o \in Decisions
      BY <1>2, <1>4 DEF Outputs
    <2> QED
      BY <1>4, <1>5, <1>7, <2>1, <2>2, <2>3 DEF Backed, At
  <1>9. JournalOK' /\ JournalIsTrue' /\ RunsAreBacked'
    <2>1. JournalOK'
      BY <1>0, <1>2, <1>3 DEF JournalOK
    <2>2. JournalIsTrue' /\ StoredIsJournaled'
      BY <1>0, <1>5 DEF JournalIsTrue, StoredIsJournaled
    <2>3. DoneIsSettled'
      BY <1>0, <1>6, AccountedKept DEF DoneIsSettled
    <2> QED
      BY <2>1, <2>2, <2>3 DEF RunsAreBacked
  <1>10. \A u \in Threads : Same(u) \/ Backed(u)'
    BY <1>7, <1>8 DEF Alone
  <1> QED
    BY <1>1, <1>6, <1>7, <1>9, <1>10, BusKept, Compose

\* The decision is stored after its cascade was journaled, then noted as persisted.
LEMMA PersistStep ==
    ASSUME WorkerAssumption, WorkerInv, NEW t \in Threads, Upsert(t) \/ PersistPut(t) PROVE WorkerInv'
  <1> DEFINE e == Ev(t)
  <1>0. /\ BusOK /\ ThreadsOK /\ EnvOK /\ JournalOK /\ JournalIsTrue /\ Backed(t) /\ DoneIsSettled
        /\ StoredIsJournaled /\ ~ At(t, "idle") /\ Ev(t) \in Events
        /\ UNCHANGED <<busVars, runs, cascades, msg, out, envVars>>
    BY Parts DEF Upsert, PersistPut, At
  <1>1. EnvOK' /\ UNCHANGED busVars /\ delivered' = delivered /\ bus' = bus
    BY <1>0 DEF EnvOK, envVars, busVars
  <1>2. out[t] \in Decisions /\ cascades[e] # None /\ (At(t, "put_persist") => decisions[e] # None)
    BY <1>0 DEF Upsert, PersistPut, At, Backed
  <1>3. /\ pc' = [pc EXCEPT ![t] = IF At(t, "upsert") THEN "put_persist" ELSE "finish"]
        /\ decisions'[e] # None /\ decisions' \in [Events -> Decisions \cup {None}]
        /\ \A x \in Events : decisions[x] # None => decisions'[x] # None
        /\ \A x \in Events : x # e => decisions'[x] = decisions[x]
        /\ persisted' \subseteq persisted \cup {e}
    <2>1. CASE Upsert(t)
      <3>1. out[t] # None
        BY <1>2 DEF WorkerAssumption, Outputs
      <3> QED
        BY <1>0, <1>2, <2>1, <3>1 DEF Upsert, Goto, JournalOK, At
    <2>2. CASE PersistPut(t)
      BY <1>0, <1>2, <2>2 DEF PersistPut, Goto, JournalOK, At
    <2> QED
      BY <2>1, <2>2
  <1>4. Grows
    <2>1. UNCHANGED <<bus, trimmed, dead, cascades>>
      BY <1>0 DEF busVars
    <2> QED
      BY <1>0, <1>3, <2>1 DEF Grows, IsDead, BusOK
  <1>5. /\ ThreadsOK' /\ Alone(t) /\ msg'[t] = msg[t] /\ out'[t] = out[t]
        /\ pc'[t] = IF At(t, "upsert") THEN "put_persist" ELSE "finish"
    BY <1>0, <1>1, <1>3 DEF ThreadsOK, Alone, Same, At, Steps, TrySteps
  <1>6. Backed(t)'
    <2>1. Ev(t)' = e
      BY <1>1, <1>5 DEF Ev
    <2>2. Accounted(Ev(t))'
      BY <1>0, <1>2, <1>3, <2>1 DEF Accounted, Settled, Decisive
    <2> QED
      BY <1>0, <1>2, <1>3, <1>5, <2>1, <2>2 DEF Backed, At
  <1>7. JournalOK' /\ JournalIsTrue' /\ RunsAreBacked'
    <2>1. JournalOK'
      BY <1>0, <1>3 DEF JournalOK
    <2>2. JournalIsTrue' /\ StoredIsJournaled'
      BY <1>0, <1>2, <1>3 DEF JournalIsTrue, StoredIsJournaled, JournalOK
    <2>3. DoneIsSettled'
      BY <1>0, <1>4, AccountedKept DEF DoneIsSettled
    <2> QED
      BY <2>1, <2>2, <2>3 DEF RunsAreBacked
  <1>8. \A u \in Threads : Same(u) \/ Backed(u)'
    BY <1>5, <1>6 DEF Alone
  <1> QED
    BY <1>1, <1>4, <1>5, <1>7, <1>8, BusKept, Compose

\* XACK, after the work or after the dead letter: the message leaves the pending
\* list and is accounted for elsewhere.
LEMMA AckStep ==
    ASSUME WorkerAssumption, WorkerInv, NEW t \in Threads, Ack(t) \/ DeadLetterAck(t) PROVE WorkerInv'
  <1>0. /\ BusOK /\ ThreadsOK /\ EnvOK /\ Backed(t) /\ ~ At(t, "idle")
        /\ msg[t] \in 1..Len(bus) /\ Ev(t) \in Events /\ Done(t)
        /\ pel' = Unpend({msg[t]})
        /\ UNCHANGED <<bus, trimmed, delivered, dead, journalVars, envVars>>
    BY Parts DEF Ack, DeadLetterAck, At
  <1>1. Grows /\ UNCHANGED journalVars /\ EnvOK' /\ delivered' = delivered
    BY <1>0, GrowsTrivially DEF journalVars, EnvOK, envVars
  <1>2. ThreadsOK' /\ Alone(t) /\ Backed(t)'
    BY <1>0, <1>1, Returns
  <1>3. DOMAIN pel' = DOMAIN pel \ {msg[t]} /\ \A m \in DOMAIN pel' : pel'[m] = pel[m]
    BY <1>0 DEF Unpend
  <1>4. BusOK'
    BY <1>0, <1>3 DEF BusOK
  <1>5. NothingDisappears'
    <2>1. delivered' \in Nat /\ trimmed' \in Nat /\ delivered \in Nat
      BY <1>0 DEF BusOK
    <2>2. \A m \in (trimmed' + 1)..delivered' : m > delivered => m \in DOMAIN pel'
      BY <1>0, <2>1
    <2>3. ASSUME NEW m \in 1..delivered, m = msg[t]
          PROVE  IsDead(m)' \/ Accounted(bus[m].event)'
      <3>1. CASE Ack(t)
        <4>1. Accounted(bus[m].event)
          BY <1>0, <2>3, <3>1 DEF Ack, At, Backed, Ev
        <4> QED
          BY <1>0, <4>1 DEF Accounted, Settled, Decisive, journalVars
      <3>2. CASE DeadLetterAck(t)
        BY <1>0, <2>3, <3>2 DEF DeadLetterAck, At, Backed, IsDead
      <3> QED
        BY <3>1, <3>2
    <2>4. \A m \in 1..delivered : m \in DOMAIN pel /\ m > trimmed' =>
                m \in DOMAIN pel' \/ IsDead(m)' \/ Accounted(bus[m].event)'
      BY <1>3, <2>3
    <2> QED
      BY <1>1, <2>1, <2>2, <2>4, NothingDisappearsKept
  <1>6. \A u \in Threads : Same(u) \/ Backed(u)'
    BY <1>2 DEF Alone
  <1> QED
    BY <1>1, <1>2, <1>4, <1>5, <1>6, JournalKept, Compose

\* The copy in the dead-letter stream comes before the message's XACK.
LEMMA DeadLetterAddStep ==
    ASSUME WorkerAssumption, WorkerInv, NEW t \in Threads, DeadLetterAdd(t) PROVE WorkerInv'
  <1>0. /\ BusOK /\ ThreadsOK /\ EnvOK /\ ~ At(t, "idle")
        /\ msg[t] \in 1..delivered /\ msg[t] \in 1..Len(bus) /\ Ev(t) \in Events
        /\ UNCHANGED <<bus, trimmed, delivered, pel, journalVars, envVars>>
    BY Parts DEF DeadLetterAdd, At
  <1>1. UNCHANGED journalVars /\ EnvOK' /\ delivered' = delivered
    BY <1>0 DEF EnvOK, envVars
  <1>2. CASE msg[t] > trimmed
    <2>1. /\ dead' = Append(dead, msg[t]) /\ pc' = [pc EXCEPT ![t] = "dead_ack"] /\ UNCHANGED <<msg, out>>
      BY <1>2 DEF DeadLetterAdd, Goto
    <2>2. /\ dead' \in Seq(1..delivered) /\ Len(dead') = Len(dead) + 1 /\ dead'[Len(dead) + 1] = msg[t]
          /\ \A i \in 1..Len(dead) : dead'[i] = dead[i]
      BY <1>0, <2>1, AppendProperties DEF BusOK
    <2>3. Len(dead) \in Nat
      BY <1>0 DEF BusOK
    <2>4. IsDead(msg[t])' /\ \A m \in Nat : IsDead(m) => IsDead(m)'
      <3>1. \A m : IsDead(m) => \E i \in 1..Len(dead') : dead'[i] = m
        BY <2>2, <2>3 DEF IsDead
      <3>2. Len(dead) + 1 \in 1..Len(dead')
        BY <2>2, <2>3
      <3> QED
        BY <2>1, <2>2, <3>1, <3>2 DEF IsDead
    <2>5. Grows
      BY <1>0, <2>4 DEF Grows, BusOK, journalVars
    <2>6. BusOK'
      BY <1>0, <2>2 DEF BusOK
    <2>7. ThreadsOK' /\ Alone(t) /\ pc'[t] = "dead_ack" /\ msg'[t] = msg[t]
      BY <1>0, <1>1, <2>1 DEF ThreadsOK, Alone, Same, At, Steps, ExceptSteps
    <2>8. \A u \in Threads : Same(u) \/ Backed(u)'
      BY <2>4, <2>7 DEF Alone, Backed, At, IsDead
    <2>9. NothingDisappears'
      <3>1. delivered' \in Nat /\ trimmed' \in Nat
        BY <1>0 DEF BusOK
      <3>2. \A m \in (trimmed' + 1)..delivered' : m > delivered => m \in DOMAIN pel'
        BY <1>0, <3>1
      <3>3. \A m \in 1..delivered : m \in DOMAIN pel /\ m > trimmed' =>
                m \in DOMAIN pel' \/ IsDead(m)' \/ Accounted(bus[m].event)'
        BY <1>0
      <3> QED
        BY <2>5, <3>1, <3>2, <3>3, NothingDisappearsKept
    <2> QED
      BY <1>1, <2>5, <2>6, <2>7, <2>8, <2>9, JournalKept, Compose
  <1>3. CASE ~ (msg[t] > trimmed)
    <2>1. Done(t) /\ UNCHANGED <<busVars, journalVars>>
      BY <1>0, <1>3 DEF DeadLetterAdd, busVars
    <2> QED
      BY <1>0, <1>1, <2>1, Returns, LocalStep
  <1> QED
    BY <1>2, <1>3

\* A call raises: into the except block, or out of it into the loop.
LEMMA FaultStep ==
    ASSUME WorkerAssumption, WorkerInv, NEW t \in Threads, Fault(t) PROVE WorkerInv'
  <1>0. /\ ThreadsOK /\ EnvOK /\ ~ At(t, "idle") /\ out[t] \in Outputs \cup {None}
        /\ UNCHANGED <<busVars, journalVars, up, crashes>> /\ faults < MaxFaults /\ faults' = faults + 1
    BY Parts DEF Fault, ThreadsOK
  <1>1. EnvOK' /\ UNCHANGED <<busVars, journalVars>> /\ delivered' = delivered
    BY <1>0 DEF EnvOK, busVars, WorkerAssumption
  <1>2. CASE Done(t)
    BY <1>0, <1>1, <1>2, Returns, LocalStep
  <1>3. CASE Goto(t, "failed") /\ UNCHANGED <<msg, out>>
    <2>1. ThreadsOK' /\ Alone(t) /\ pc'[t] = "failed"
      BY <1>0, <1>1, <1>3 DEF ThreadsOK, Alone, Same, At, Steps, ExceptSteps, Goto
    <2>2. Backed(t)'
      BY <2>1 DEF Backed, At
    <2> QED
      BY <1>1, <2>1, <2>2, LocalStep
  <1> QED
    BY <1>2, <1>3 DEF Fault

\* A process dies with what its threads had in hand, or comes back.
LEMMA ProcessStep ==
    ASSUME WorkerAssumption, WorkerInv, NEW c \in Consumers, Crash(c) \/ Restart(c) PROVE WorkerInv'
  <1>0. /\ BusOK /\ ThreadsOK /\ EnvOK /\ UNCHANGED <<busVars, journalVars, faults>>
    BY Parts DEF Crash, Restart
  <1>1. Grows /\ delivered' = delivered /\ UNCHANGED busVars /\ UNCHANGED journalVars
    BY <1>0, GrowsTrivially DEF busVars, journalVars
  <1>2. CASE Crash(c)
    <2>1. EnvOK'
      BY <1>0, <1>2 DEF Crash, EnvOK, WorkerAssumption
    <2>2. ThreadsOK' /\ \A u \in Threads : Same(u) \/ pc'[u] = "idle"
      BY <1>0, <1>1, <1>2 DEF Crash, ThreadsOK, Same, At, Steps
    <2>3. \A u \in Threads : Same(u) \/ Backed(u)'
      BY <2>2 DEF Backed, At
    <2> QED
      BY <1>1, <2>1, <2>2, <2>3, BusKept, JournalKept, Compose
  <1>3. CASE Restart(c)
    <2>1. EnvOK' /\ ThreadsOK' /\ \A u \in Threads : Same(u)
      BY <1>0, <1>1, <1>3 DEF Restart, EnvOK, ThreadsOK, Same, At, threadVars
    <2> QED
      BY <1>1, <2>1, BusKept, JournalKept, Compose
  <1> QED
    BY <1>2, <1>3

-----------------------------------------------------------------------------
\* The empty stream and journal satisfy the invariant.
LEMMA InitInv == WorkerAssumption /\ Init => WorkerInv
  <1> SUFFICES ASSUME WorkerAssumption, Init PROVE WorkerInv
    OBVIOUS
  <1>1. TypeOK
    <2>1. /\ bus = <<>> /\ dead = <<>> /\ trimmed = 0 /\ delivered = 0 /\ Len(bus) = 0
          /\ bus \in Seq(Message) /\ dead \in Seq(1..delivered) /\ DOMAIN pel = {}
      BY DEF Init
    <2>2. MaxPublish \in Nat /\ MaxFaults \in Nat /\ MaxCrashes \in Nat
      BY DEF WorkerAssumption
    <2> QED
      BY <2>1, <2>2 DEF Init, TypeOK, Steps, At
  <1>2. \A t \in Threads : Backed(t)
    BY DEF Init, Backed, At
  <1>3. JournalIsTrue /\ RunsAreBacked
    BY DEF Init, JournalIsTrue, RunsAreBacked, DoneIsSettled, StoredIsJournaled
  <1>4. NothingDisappears
    BY DEF Init, NothingDisappears
  <1> QED
    BY <1>1, <1>2, <1>3, <1>4 DEF WorkerInv

\* Every step of the stream, of a thread or of a process keeps it.
LEMMA StepInv == WorkerAssumption /\ WorkerInv /\ [Next]_vars => WorkerInv'
  <1> SUFFICES ASSUME WorkerAssumption, WorkerInv, [Next]_vars PROVE WorkerInv'
    OBVIOUS
  <1>1. ASSUME NEW t \in Threads, ProcessOne(t) PROVE WorkerInv'
    BY <1>1, ConsumePendingStep, ConsumeNewStep, ReadStep, RunStep, CascadePutStep, PersistStep,
       AckStep, DeadLetterAddStep DEF ProcessOne
  <1>2. CASE WorkerNext
    BY <1>1, <1>2, ReclaimStep, FaultStep, ProcessStep DEF WorkerNext
  <1>3. ASSUME NEW e \in Events, NEW c \in Contents, Publish(e, c) PROVE WorkerInv'
    BY <1>3, PublishStep
  <1>4. CASE UNCHANGED vars
    <2>1. /\ UNCHANGED busVars /\ UNCHANGED journalVars /\ Grows
          /\ \A u \in Threads : Same(u)
      BY <1>4, GrowsTrivially DEF vars, busVars, journalVars, Same
    <2>2. ThreadsOK' /\ EnvOK'
      BY <1>4, Parts DEF vars, ThreadsOK, EnvOK, At
    <2> QED
      BY <2>1, <2>2, BusKept, JournalKept, Compose
  <1> QED
    BY <1>2, <1>3, <1>4 DEF Next

-----------------------------------------------------------------------------
\* What every reachable state of stream, journal and workers satisfies.
THEOREM WorkerInvariant == ASSUME WorkerAssumption PROVE Spec => []WorkerInv
  <1>1. Init => WorkerInv
    BY InitInv
  <1>2. WorkerInv /\ [Next]_vars => WorkerInv'
    BY StepInv
  <1> QED
    BY <1>1, <1>2, PTL DEF Spec

\* Type correctness of the stream, the pending list, the journal and the threads.
THEOREM TypeCorrect == ASSUME WorkerAssumption PROVE Spec => []TypeOK
  <1>1. WorkerInv => TypeOK
    BY DEF WorkerInv
  <1> QED
    BY <1>1, WorkerInvariant, PTL

\* At-least-once delivery loses nothing: a delivered message the stream still holds
\* is pending, dead-lettered or accounted for, whatever is retried, reclaimed,
\* processed twice or cut short (RedisStreamsEventBus with CascadeWorker).
THEOREM NeverDisappears == ASSUME WorkerAssumption PROVE Spec => []NothingDisappears
  <1>1. WorkerInv => NothingDisappears
    BY DEF WorkerInv
  <1> QED
    BY <1>1, WorkerInvariant, PTL

\* A run is called done only when its event is accounted for, and no decision is
\* stored before its cascade is journaled (process_one's order of calls).
THEOREM RunsBacked == ASSUME WorkerAssumption PROVE Spec => []RunsAreBacked
  <1>1. WorkerInv => RunsAreBacked
    BY DEF WorkerInv
  <1> QED
    BY <1>1, WorkerInvariant, PTL

=============================================================================
