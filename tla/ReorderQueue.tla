--------------------------- MODULE ReorderQueue ---------------------------
(***************************************************************************)
(* The low-stock candidate of one product: every read of the attention      *)
(* queue observes it again and suppresses it while open orders cover the    *)
(* gap (OpenOrders). Observation, suppression and the entry each leaves in  *)
(* the candidate's history are transactions of their own; each transaction  *)
(* holds the candidate's advisory lock.                                     *)
(*                                                                          *)
(* link_decision and the terminal statuses have no caller in the backend.   *)
(***************************************************************************)
EXTENDS OpenOrders, Sequences, SequencesExt

CONSTANTS Reads,     \* concurrent requests of the attention queue
          Gaps,      \* stock situations: units short, and whether low priority
          MaxTime,   \* bound: the clock
          MaxTurns   \* bound: transitions of the candidate

QueueAssumption ==
    /\ ShipmentAssumption /\ IsFiniteSet(Reads)
    /\ Gaps \subseteq [units : Nat, monitoring : BOOLEAN]
    /\ MaxTime \in Nat /\ MaxTurns \in Nat

CandidateStatus == {"new", "monitoring", "suppressed"}
Candidate == [status : CandidateStatus, until : Nat \cup {Nothing}]
\* A request: what it has read, what it did to the candidate last and goes on with.
Progress == [pc : {"observe", "cover", "log", "end"}, gap : Gaps, remaining : Nat,
             eta : Nat \cup {Nothing}, said : CandidateStatus \cup {Nothing},
             next : {"cover", "end", Nothing}]

VARIABLES
    candidate,  \* the row
    trail,      \* candidate history: the status of each entry
    read,       \* requests in progress
    clock,
    turns,      \* statuses the candidate has taken (history)
    unlogged    \* those whose entry died with its process (history)

candidateVars == <<candidate, trail, read, turns, unlogged>>
queueVars == <<order, merging, observed, candidate, trail, read, clock, turns, unlogged>>

NoRead == [pc |-> "none"]

QueueInit ==
    /\ OrderInit
    /\ candidate = Nothing /\ trail = <<>> /\ clock = 0
    /\ read = [r \in Reads |-> NoRead]
    /\ turns = <<>> /\ unlogged = <<>>

Tick == clock < MaxTime /\ clock' = clock + 1 /\ UNCHANGED <<orderVars, candidateVars>>

Shipment(e) == OrderStep(e) /\ UNCHANGED <<candidateVars, clock>>

\* product_attention: the facts and the coverage of the orders are read once.
Attention(r) ==
    /\ read[r].pc = "none" /\ Len(turns) < MaxTurns
    /\ \E g \in Gaps :
          read' = [read EXCEPT ![r] =
                      [pc |-> "observe", gap |-> g, remaining |-> Remaining(order),
                       eta |-> IF order = Nothing THEN Nothing ELSE order.eta,
                       said |-> Nothing, next |-> Nothing]]
    /\ UNCHANGED <<orderVars, candidate, trail, clock, turns, unlogged>>

FreshStatus(g) == IF g.monitoring THEN "monitoring" ELSE "new"

\* _merge_observation: a status is kept, except a suppression whose time is up.
Observation(g) ==
    IF candidate = Nothing \/ (candidate.status = "suppressed" /\ candidate.until <= clock)
    THEN [status |-> FreshStatus(g), until |-> Nothing]
    ELSE candidate

\* The transaction commits; a transition is then put on the history.
Commit(r, value, transition, next) ==
    /\ candidate' = value
    /\ turns' = IF transition THEN Append(turns, value.status) ELSE turns
    /\ read' = [read EXCEPT ![r].pc = IF transition THEN "log" ELSE next,
                            ![r].said = value.status, ![r].next = next]

\* upsert
Observe(r) ==
    /\ read[r].pc = "observe"
    /\ LET value == Observation(read[r].gap)
       IN  Commit(r, value, candidate = Nothing \/ candidate.status # value.status, "cover")
    /\ UNCHANGED <<orderVars, trail, clock, unlogged>>

\* Mistake: any gap counts as covered.
CoveredAlways(r) == read[r].gap.units > 0

\* _suppress_covered_candidates, and suppress with the order's eta as its end.
Covered(r) == read[r].gap.units > 0 /\ read[r].remaining >= read[r].gap.units

Suppress(r) ==
    /\ read[r].pc = "cover" /\ Covered(r)
    /\ Commit(r, [status |-> "suppressed",
                  until |-> IF read[r].eta = Nothing THEN clock + 1 ELSE read[r].eta],
              TRUE, "end")
    /\ UNCHANGED <<orderVars, trail, clock, unlogged>>

\* Mistake: the entry shows the candidate as it is by now.
LogCurrent(r) ==
    /\ read[r].pc = "log"
    /\ trail' = Append(trail, candidate.status)
    /\ read' = [read EXCEPT ![r].pc = read[r].next]
    /\ UNCHANGED <<orderVars, candidate, clock, turns, unlogged>>

\* history.record: a transaction of its own, numbered when it commits.
LogEntry(r) ==
    /\ read[r].pc = "log"
    /\ trail' = Append(trail, read[r].said)
    /\ read' = [read EXCEPT ![r].pc = read[r].next]
    /\ UNCHANGED <<orderVars, candidate, clock, turns, unlogged>>

Answer(r) ==
    /\ read[r].pc = "end" \/ (read[r].pc = "cover" /\ ~Covered(r))
    /\ read' = [read EXCEPT ![r] = NoRead]
    /\ UNCHANGED <<orderVars, candidate, trail, clock, turns, unlogged>>

\* The request's process is killed.
Die(r) ==
    /\ read[r].pc # "none"
    /\ unlogged' = IF read[r].pc = "log" THEN Append(unlogged, read[r].said) ELSE unlogged
    /\ read' = [read EXCEPT ![r] = NoRead]
    /\ UNCHANGED <<orderVars, candidate, trail, clock, turns>>

QueueNext ==
    \/ Tick \/ \E e \in Shipments : Shipment(e)
    \/ \E r \in Reads : \/ Attention(r) \/ Observe(r) \/ Suppress(r)
                        \/ LogEntry(r) \/ Answer(r) \/ Die(r)

----------------------------------------------------------------------------
QueueSpec == QueueInit /\ [][QueueNext]_queueVars

QueueTypeOK ==
    /\ OrderTypeOK
    /\ candidate \in Candidate \cup {Nothing}
    /\ {trail, turns, unlogged} \subseteq Seq(CandidateStatus)
    /\ read \in [Reads -> Progress \cup {NoRead}]
    /\ clock \in 0 .. MaxTime

Count(s, status) == Cardinality({i \in DOMAIN s : s[i] = status})

\* candidate_history: one entry per lifecycle transition. Of every status the
\* history has as many entries as the candidate has had transitions to it, less
\* those still being logged and those whose process died first; a read that
\* changes nothing adds none.
OneEntryPerTransition ==
    \A s \in CandidateStatus :
        Count(turns, s) = Count(trail, s) + Count(unlogged, s)
                          + Cardinality({r \in Reads : read[r].pc = "log" /\ read[r].said = s})

\* A suppression rests on an order: one was read that covered a gap, and it ends
\* at that order's eta (the next day without one), never later.
SuppressionIsBacked ==
    (candidate # Nothing /\ candidate.status = "suppressed") =>
        \E e \in observed, g \in Gaps :
            /\ g.units > 0 /\ ShipmentOf[e].ordered >= g.units
            /\ \/ candidate.until = ShipmentOf[e].eta
               \/ ShipmentOf[e].eta = Nothing /\ candidate.until <= clock + 1

\* The order shown is the newest and what it shows was reported, a suppression rests
\* on an order, and every change is in the history.
QueueIsBacked ==
    /\ QueueTypeOK /\ NewestOrderShown /\ OrderIsReported
    /\ SuppressionIsBacked /\ OneEntryPerTransition
=============================================================================
