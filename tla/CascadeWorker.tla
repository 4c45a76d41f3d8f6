--------------------------- MODULE CascadeWorker ---------------------------
(***************************************************************************)
(* The asynchronous side of the pipeline: a Redis stream with its consumer  *)
(* group (RedisStreamsEventBus), the durable journal, and worker processes  *)
(* running CascadeWorker.process_one. A process is a consumer of the group; *)
(* it may run more than one thread (the background loop and the             *)
(* /worker/process-one route share one consumer name).                      *)
(*                                                                          *)
(* Redis itself is external: the pending entries list, XAUTOCLAIM and the   *)
(* MAXLEN trimming are modelled from the calls the bus makes. A message id  *)
(* is its position in the stream. Delivery counts saturate at MaxRetries,   *)
(* beyond which the code does not tell them apart.                          *)
(***************************************************************************)
EXTENDS Naturals, Sequences, FiniteSets

CONSTANTS Events, Contents,   \* what a message carries
          Decisions,          \* decisions a cascade may compute
          NoDecision,         \* the result of a cascade that needs no decision
          Outcomes,           \* the results the cascade of each event may have
          Consumers, Threads, \* processes and their worker threads
          ConsumerOf,         \* the process of each thread
          None,               \* no journal entry, no decision, no message
          MaxRetries,         \* nack's max_retries
          MaxLen,             \* the stream's MAXLEN
          MaxPublish,         \* bound: messages published
          MaxFaults,          \* bound: store or Redis calls that raise
          MaxCrashes          \* bound: processes killed

Outputs == Decisions \cup {NoDecision}

WorkerAssumption ==
    /\ NoDecision \notin Decisions /\ None \notin Outputs
    /\ Outcomes \in [Events -> (SUBSET Outputs) \ {{}}]
    /\ ConsumerOf \in [Threads -> Consumers]
    /\ MaxRetries \in Nat \ {0} /\ MaxLen \in Nat \ {0}
    /\ MaxPublish \in Nat /\ MaxFaults \in Nat /\ MaxCrashes \in Nat
    /\ None \notin Nat

VARIABLES
    bus,         \* every message ever published, oldest first
    trimmed,     \* ids up to this one were dropped by MAXLEN trimming
    delivered,   \* the group's last-delivered id
    pel,         \* pending entries: id -> owner and delivery count
    dead,        \* the dead-letter stream: source ids
    runs,        \* cascade_runs.status per event run
    cascades,    \* journal step "cascade" per event run
    persisted,   \* event runs with a "decision_persist" journal step
    decisions,   \* the decision store, per event
    pc, msg, out, \* per thread: next call, message in hand, cascade result
    up,          \* the processes that are running
    faults, crashes

busVars     == <<bus, trimmed, delivered, pel, dead>>
journalVars == <<runs, cascades, persisted, decisions>>
threadVars  == <<pc, msg, out>>
envVars     == <<up, faults, crashes>>
vars == <<bus, trimmed, delivered, pel, dead, runs, cascades, persisted, decisions,
          pc, msg, out, up, faults, crashes>>

Message == [event: Events, content: Contents]
TrySteps == {"start_run", "get_cascade", "handler", "put_cascade", "get_persist",
             "upsert", "put_persist", "finish", "ack"}
ExceptSteps == {"failed", "nack", "dead_add", "dead_ack"}
Steps == TrySteps \cup ExceptSteps \cup {"idle"}

Ev(t) == bus[msg[t]].event        \* _event_run_id: one journal run per event
At(t, step) == pc[t] = step
Goto(t, step) == pc' = [pc EXCEPT ![t] = step]
Least(S) == CHOOSE m \in S : \A n \in S : m <= n
Bump(n) == IF n < MaxRetries THEN n + 1 ELSE n
Owned(c) == {m \in DOMAIN pel : pel[m].owner = c}
Unpend(S) == [m \in (DOMAIN pel) \ S |-> pel[m]]

\* process_one returns, or raises into the loop of WorkerLoopService.
Done(t) ==
    /\ Goto(t, "idle")
    /\ msg' = [msg EXCEPT ![t] = None]
    /\ out' = [out EXCEPT ![t] = None]

Init ==
    /\ bus = <<>> /\ trimmed = 0 /\ delivered = 0
    /\ pel = [m \in {} |-> None] /\ dead = <<>>
    /\ runs = [e \in Events |-> "none"]
    /\ cascades = [e \in Events |-> None]
    /\ persisted = {}
    /\ decisions = [e \in Events |-> None]
    /\ pc = [t \in Threads |-> "idle"]
    /\ msg = [t \in Threads |-> None] /\ out = [t \in Threads |-> None]
    /\ up = Consumers /\ faults = 0 /\ crashes = 0

-----------------------------------------------------------------------------
(* The bus. *)

\* XADD with an approximate MAXLEN: Redis may drop entries beyond the bound,
\* oldest first, pending or not. The intake publishes an event, a new one or
\* one it publishes again.
Publish(e, c) ==
    /\ Len(bus) < MaxPublish
    /\ bus' = Append(bus, [event |-> e, content |-> c])
    /\ trimmed' \in {n \in 0..Len(bus) : n = trimmed \/ (trimmed < n /\ n + MaxLen <= Len(bus) + 1)}
    /\ UNCHANGED <<delivered, pel, dead, journalVars, threadVars, envVars>>

\* Thread t takes message m of its group and starts process_one on it.
Take(t, m) ==
    /\ Goto(t, "start_run")
    /\ msg' = [msg EXCEPT ![t] = m]
    /\ UNCHANGED <<bus, trimmed, dead, journalVars, out, envVars>>

\* consume_one, cursor "0": the consumer's own oldest pending entry first. An
\* entry trimmed from the stream comes back without fields and json.loads
\* raises into the loop, which changes nothing (ConsumeTrimmed).
ConsumePending(t) ==
    LET m == Least(Owned(ConsumerOf[t]))
    IN  /\ At(t, "idle") /\ ConsumerOf[t] \in up
        /\ Owned(ConsumerOf[t]) # {}
        /\ m > trimmed
        /\ pel' = [pel EXCEPT ![m].count = Bump(@)]
        /\ Take(t, m)
        /\ UNCHANGED delivered

\* consume_one, cursor ">": the next entry of the stream never delivered.
ConsumeNew(t) ==
    LET m == IF delivered > trimmed THEN delivered + 1 ELSE trimmed + 1
    IN  /\ At(t, "idle") /\ ConsumerOf[t] \in up
        /\ Owned(ConsumerOf[t]) = {}
        /\ m <= Len(bus)
        /\ delivered' = m
        /\ pel' = [n \in (DOMAIN pel) \cup {m} |->
                      IF n = m THEN [owner |-> ConsumerOf[t], count |-> 1] ELSE pel[n]]
        /\ Take(t, m)

\* The entries idle past stale_consumer_idle_ms: no running thread works on
\* them, and they are not the head a running consumer reads at every poll
\* (a trimmed head is read without resetting its idle time).
Stale == {m \in DOMAIN pel :
             /\ \A t \in Threads : msg[t] # m
             /\ \/ pel[m].owner \notin up
                \/ m # Least(Owned(pel[m].owner))
                \/ m <= trimmed}

\* reclaim_stale: XAUTOCLAIM moves the stale entries the sweep finds to this
\* consumer, one delivery more each; entries no longer in the stream are
\* deleted from the pending list by Redis.
ReclaimStale(t, S) ==
    /\ At(t, "idle") /\ ConsumerOf[t] \in up
    /\ S # {} /\ S \subseteq Stale
    /\ pel' = [m \in (DOMAIN pel) \ {n \in S : n <= trimmed} |->
                  IF m \in S THEN [owner |-> ConsumerOf[t], count |-> Bump(pel[m].count)]
                             ELSE pel[m]]
    /\ UNCHANGED <<bus, trimmed, delivered, dead, journalVars, threadVars, envVars>>

-----------------------------------------------------------------------------
(* process_one, inside its try block. *)

\* Mistake: the message is acknowledged on receipt.
StartRunAcks(t) ==
    /\ At(t, "start_run")
    /\ runs' = [runs EXCEPT ![Ev(t)] = IF @ = "none" THEN "running" ELSE @]
    /\ pel' = Unpend({msg[t]})
    /\ Goto(t, "get_cascade")
    /\ UNCHANGED <<bus, trimmed, delivered, dead, cascades, persisted, decisions, msg, out, envVars>>

\* journal.start_run: setdefault.
StartRun(t) ==
    /\ At(t, "start_run")
    /\ runs' = [runs EXCEPT ![Ev(t)] = IF @ = "none" THEN "running" ELSE @]
    /\ Goto(t, "get_cascade")
    /\ UNCHANGED <<busVars, cascades, persisted, decisions, msg, out, envVars>>

\* Where process_one goes once it holds cascade result o (_persist_decision
\* returns at once when the cascade has no decision).
AfterCascade(o) == IF o = NoDecision THEN "finish" ELSE "get_persist"

\* journaled("cascade"): a recorded result is reused...
CascadeGet(t) ==
    /\ At(t, "get_cascade")
    /\ IF cascades[Ev(t)] = None
       THEN Goto(t, "handler") /\ UNCHANGED out
       ELSE /\ out' = [out EXCEPT ![t] = cascades[Ev(t)]]
            /\ Goto(t, AfterCascade(cascades[Ev(t)]))
    /\ UNCHANGED <<busVars, journalVars, msg, envVars>>

\* Mistake: the cascade result is not journaled.
HandlerUnjournaled(t, o) ==
    /\ At(t, "handler")
    /\ o \in Outcomes[Ev(t)]
    /\ out' = [out EXCEPT ![t] = o]
    /\ Goto(t, AfterCascade(o))
    /\ UNCHANGED <<busVars, journalVars, msg, envVars>>

\* ... otherwise the handler runs; the model behind it need not answer twice
\* the same.
Handler(t, o) ==
    /\ At(t, "handler")
    /\ o \in Outcomes[Ev(t)]
    /\ out' = [out EXCEPT ![t] = o]
    /\ Goto(t, "put_cascade")
    /\ UNCHANGED <<busVars, journalVars, msg, envVars>>

\* journal.put: the first writer wins, this thread keeps its own output.
CascadePut(t) ==
    /\ At(t, "put_cascade")
    /\ cascades' = [cascades EXCEPT ![Ev(t)] = IF @ = None THEN out[t] ELSE @]
    /\ Goto(t, AfterCascade(out[t]))
    /\ UNCHANGED <<busVars, runs, persisted, decisions, msg, out, envVars>>

\* Mistake: a journaled cascade is taken for a persisted decision.
PersistSkipped(t) ==
    /\ At(t, "get_persist")
    /\ Goto(t, "finish")
    /\ UNCHANGED <<busVars, journalVars, msg, out, envVars>>

\* journaled("decision_persist:<id>").
PersistGet(t) ==
    /\ At(t, "get_persist")
    /\ Goto(t, IF Ev(t) \in persisted THEN "finish" ELSE "upsert")
    /\ UNCHANGED <<busVars, journalVars, msg, out, envVars>>

\* decision_store.upsert of a decision nobody has approved or rejected yet.
Upsert(t) ==
    /\ At(t, "upsert")
    /\ decisions' = [decisions EXCEPT ![Ev(t)] = out[t]]
    /\ Goto(t, "put_persist")
    /\ UNCHANGED <<busVars, runs, cascades, persisted, msg, out, envVars>>

PersistPut(t) ==
    /\ At(t, "put_persist")
    /\ persisted' = persisted \cup {Ev(t)}
    /\ Goto(t, "finish")
    /\ UNCHANGED <<busVars, runs, cascades, decisions, msg, out, envVars>>

\* journal.finish_run("done").
FinishDone(t) ==
    /\ At(t, "finish")
    /\ runs' = [runs EXCEPT ![Ev(t)] = "done"]
    /\ Goto(t, "ack")
    /\ UNCHANGED <<busVars, cascades, persisted, decisions, msg, out, envVars>>

\* XACK, by group: it removes the entry whoever owns it by now.
Ack(t) ==
    /\ At(t, "ack")
    /\ pel' = Unpend({msg[t]})
    /\ Done(t)
    /\ UNCHANGED <<bus, trimmed, delivered, dead, journalVars, envVars>>

-----------------------------------------------------------------------------
(* process_one, in its except block. *)

\* The cascade itself raises: a poison event does so every time.
HandlerRaises(t) ==
    /\ At(t, "handler")
    /\ Goto(t, "failed")
    /\ UNCHANGED <<busVars, journalVars, msg, out, envVars>>

\* Any other call raises; in the except block it raises into the loop.
Fault(t) ==
    /\ ~At(t, "idle")
    /\ faults < MaxFaults
    /\ faults' = faults + 1
    /\ IF pc[t] \in TrySteps
       THEN Goto(t, "failed") /\ UNCHANGED <<msg, out>>
       ELSE Done(t)
    /\ UNCHANGED <<busVars, journalVars, up, crashes>>

\* journal.finish_run("failed"), an update of the run's row if there is one.
FinishFailed(t) ==
    /\ At(t, "failed")
    /\ runs' = [runs EXCEPT ![Ev(t)] = IF @ = "none" THEN @ ELSE "failed"]
    /\ Goto(t, "nack")
    /\ UNCHANGED <<busVars, cascades, persisted, decisions, msg, out, envVars>>

\* Mistake: a failed message is retried without limit.
NackForever(t) ==
    /\ At(t, "nack")
    /\ Done(t)
    /\ UNCHANGED <<busVars, journalVars, envVars>>

\* nack: below the retry budget the entry just stays pending.
Nack(t) ==
    /\ At(t, "nack")
    /\ LET count == IF msg[t] \in DOMAIN pel THEN pel[msg[t]].count ELSE 1
       IN  IF count < MaxRetries
           THEN Done(t)
           ELSE Goto(t, "dead_add") /\ UNCHANGED <<msg, out>>
    /\ UNCHANGED <<busVars, journalVars, envVars>>

\* _move_to_dead_letter: copy to the dead-letter stream (a trimmed entry
\* raises into the loop), then XACK; two calls.
DeadLetterAdd(t) ==
    /\ At(t, "dead_add")
    /\ IF msg[t] > trimmed
       THEN /\ dead' = Append(dead, msg[t])
            /\ Goto(t, "dead_ack") /\ UNCHANGED <<msg, out>>
       ELSE UNCHANGED dead /\ Done(t)
    /\ UNCHANGED <<bus, trimmed, delivered, pel, journalVars, envVars>>

DeadLetterAck(t) ==
    /\ At(t, "dead_ack")
    /\ pel' = Unpend({msg[t]})
    /\ Done(t)
    /\ UNCHANGED <<bus, trimmed, delivered, dead, journalVars, envVars>>

-----------------------------------------------------------------------------
\* A process dies with its threads; its pending entries stay its own. Another
\* process is running, and it may come back under the same host and pid.
Crash(c) ==
    /\ c \in up /\ up \ {c} # {}
    /\ crashes < MaxCrashes
    /\ up' = up \ {c}
    /\ crashes' = crashes + 1
    /\ pc'  = [t \in Threads |-> IF ConsumerOf[t] = c THEN "idle" ELSE pc[t]]
    /\ msg' = [t \in Threads |-> IF ConsumerOf[t] = c THEN None ELSE msg[t]]
    /\ out' = [t \in Threads |-> IF ConsumerOf[t] = c THEN None ELSE out[t]]
    /\ UNCHANGED <<busVars, journalVars, faults>>

Restart(c) ==
    /\ c \in Consumers \ up
    /\ up' = up \cup {c}
    /\ UNCHANGED <<busVars, journalVars, threadVars, faults, crashes>>

ProcessOne(t) ==
    \/ ConsumePending(t) \/ ConsumeNew(t)
    \/ StartRun(t) \/ CascadeGet(t) \/ HandlerRaises(t) \/ CascadePut(t)
    \/ \E o \in Outputs : Handler(t, o)
    \/ PersistGet(t) \/ Upsert(t) \/ PersistPut(t) \/ FinishDone(t) \/ Ack(t)
    \/ FinishFailed(t) \/ Nack(t) \/ DeadLetterAdd(t) \/ DeadLetterAck(t)

WorkerNext ==
    \/ \E t \in Threads :
          \/ ProcessOne(t)
          \/ \E S \in SUBSET Stale : ReclaimStale(t, S)
          \/ Fault(t)
    \/ \E c \in Consumers : Crash(c) \/ Restart(c)

Next ==
    \/ \E e \in Events, c \in Contents : Publish(e, c)
    \/ WorkerNext

Spec == Init /\ [][Next]_vars

\* A running loop polls and goes on, and a stale entry is found by some sweep.
Sweep(m) == \E t \in Threads, S \in SUBSET Stale : m \in S /\ ReclaimStale(t, S)
WorkerFairness ==
    /\ \A t \in Threads : WF_vars(ProcessOne(t))
    /\ \A m \in 1..MaxPublish : WF_vars(Sweep(m))
FairSpec == Spec /\ WorkerFairness

-----------------------------------------------------------------------------
\* The stream, the journal and the locals of every thread hold what
\* RedisStreamsEventBus, PostgresJournal and process_one can put there.
TypeOK ==
    /\ bus \in Seq(Message) /\ Len(bus) <= MaxPublish
    /\ trimmed \in 0..Len(bus) /\ delivered \in 0..Len(bus)
    /\ DOMAIN pel \subseteq 1..delivered
    /\ \A m \in DOMAIN pel : pel[m] \in [owner: Consumers, count: 1..MaxRetries]
    /\ dead \in Seq(1..delivered)
    /\ runs \in [Events -> {"none", "running", "done", "failed"}]
    /\ cascades \in [Events -> Outputs \cup {None}]
    /\ persisted \subseteq Events
    /\ decisions \in [Events -> Decisions \cup {None}]
    /\ pc \in [Threads -> Steps]
    /\ msg \in [Threads -> 1..delivered \cup {None}]
    /\ \A t \in Threads : At(t, "idle") <=> msg[t] = None
    /\ out \in [Threads -> Outputs \cup {None}]
    /\ up \subseteq Consumers /\ faults \in 0..MaxFaults /\ crashes \in 0..MaxCrashes

\* What the pipeline owes an event: its cascade is journaled and the decision
\* it led to, if any, is in the decision store.
Settled(e) ==
    /\ cascades[e] # None
    /\ cascades[e] # NoDecision => decisions[e] # None

\* Every run of the event's cascade asks for a decision, or none does: so it is
\* where the event alone or the simulated world is judged. Operational facts may
\* arrive between two runs (MissingOperationalFacts), and then one may ask for a
\* decision and the other not.
Decisive(e) == NoDecision \in Outcomes[e] => Outcomes[e] = {NoDecision}

\* A run of the event has its result journaled, and where all runs agree that a
\* decision is needed or not, the event is settled.
Accounted(e) == cascades[e] # None /\ (Decisive(e) => Settled(e))

IsDead(m) == \E i \in 1..Len(dead) : dead[i] = m

\* A delivered message is never acknowledged away: as long as the stream holds
\* it, it is pending, or in the dead-letter stream, or its event is accounted for.
NothingDisappears ==
    \A m \in (trimmed + 1)..delivered : m \in DOMAIN pel \/ IsDead(m) \/ Accounted(bus[m].event)

\* "done" is only ever said of an event that is accounted for, by whichever
\* racing thread.
DoneIsSettled == \A e \in Events : runs[e] = "done" => Accounted(e)

\* Nothing reaches the decision store that was not journaled first, so a
\* replay never runs a cascade whose decision a manager may already see.
StoredIsJournaled ==
    \A e \in Events : decisions[e] # None => cascades[e] # None

\* A run that is done has its result on record, and a stored decision was journaled.
RunsAreBacked == DoneIsSettled /\ StoredIsJournaled

\* Every published message that MAXLEN does not drop is settled or dead-lettered
\* in the end, and leaves the pending list, whoever crashes meanwhile.
EveryMessageEnds ==
    \A m \in 1..MaxPublish :
        m <= Len(bus) ~> \/ m <= trimmed
                         \/ /\ m <= delivered /\ m \notin DOMAIN pel
                            /\ IsDead(m) \/ Settled(bus[m].event)

\* CascadeWorker's docstring: "a failed cascade never silently disappears": a
\* run left failed has a message to retry, a dead letter, or its result.
FailedNeverDisappears ==
    \A e \in Events : runs[e] = "failed" =>
        \/ Settled(e)
        \/ \E m \in 1..Len(bus) : bus[m].event = e /\ (m \in DOMAIN pel \/ IsDead(m) \/ m > delivered)

=============================================================================
