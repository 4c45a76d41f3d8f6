--------------------------- MODULE OutcomeMemory ---------------------------
(***************************************************************************)
(* What the platform learns from the outcomes of its decisions              *)
(* (shelfwise_mlops/memory_consolidation.py, facts.py, skills.py,           *)
(* worker/memory.py, routes_mlops.py).                                      *)
(*                                                                          *)
(* A consolidation reads the outcomes, journals one step under their        *)
(* fingerprint and in it writes one fact per (sku, action), a transaction   *)
(* each. Playbooks are mined from the same outcomes, by trigger and action, *)
(* whenever they are asked for, and an approver turns one into a plan.      *)
(***************************************************************************)
EXTENDS Naturals, Sequences, FiniteSets

CONSTANTS
    Threads,        \* requests in progress
    Groups,         \* (sku, action) pairs of outcomes, of one trigger and action
    MIN_SUPPORT,    \* successes a fact needs, records a playbook needs
    MaxOutcomes,    \* bound on the outcomes learned
    MaxOps,         \* bound on the requests
    None

\* More than three of MIN_SUPPORT records could be a playbook with fewer successes.
MemoryAssumption ==
    /\ {MIN_SUPPORT, MaxOutcomes, MaxOps} \subseteq Nat \ {0}
    /\ MIN_SUPPORT <= 3

VARIABLES
    outcomes,    \* the learning events, each [group, good]
    facts,       \* [Groups -> Nat]: support of the stored fact, 0 without one
    journal,     \* the fingerprints (lengths) with a journaled step
    job,         \* [Threads -> record]
    ops,         \* number of requests so far
    plans,       \* the outcomes known when a playbook was compiled to a plan
    overlapped   \* two consolidations were under way at once

vars == <<outcomes, facts, journal, job, ops, plans, overlapped>>

Free == [at |-> "none", of |-> None, todo |-> {}]

Init ==
    /\ outcomes = <<>> /\ facts = [g \in Groups |-> 0] /\ journal = {}
    /\ job = [t \in Threads |-> Free] /\ ops = 0 /\ plans = {} /\ overlapped = FALSE

At(t, at) == job[t].at = at
Goto(t, record) == job' = [job EXCEPT ![t] = record] /\ UNCHANGED ops
Finish(t) == Goto(t, Free)

----------------------------------------------------------------------------
Support(g, n) == Cardinality({i \in 1 .. n : outcomes[i] = [group |-> g, good |-> TRUE]})

\* Mistake: failures count as support.
ConsolidateAll(n) == {g \in Groups : Cardinality({i \in 1 .. n : outcomes[i].group = g}) >= MIN_SUPPORT}

\* The groups with enough outcomes above the success bar.
consolidate_outcomes(n) == {g \in Groups : Support(g, n) >= MIN_SUPPORT}

Learn(g, good) ==
    /\ Len(outcomes) < MaxOutcomes
    /\ outcomes' = Append(outcomes, [group |-> g, good |-> good])
    /\ UNCHANGED <<facts, journal, job, ops, plans, overlapped>>

\* _fingerprint: the outcomes only grow, so their number identifies their content.
Fingerprint == Len(outcomes)

Consolidating == {t \in Threads : job[t] # Free}

\* process_tenant reads the outcomes: their fingerprint is the run's id.
ConsolidateRead(t) ==
    /\ job[t] = Free /\ ops < MaxOps
    /\ ops' = ops + 1
    /\ job' = [job EXCEPT ![t] = [Free EXCEPT !.at = "journal", !.of = Fingerprint]]
    /\ overlapped' = (overlapped \/ Consolidating # {})
    /\ UNCHANGED <<outcomes, facts, journal, plans>>

\* A journaled step is replayed, otherwise it is run.
ConsolidateStart(t) ==
    /\ At(t, "journal")
    /\ IF job[t].of \in journal
       THEN Finish(t)
       ELSE Goto(t, [job[t] EXCEPT !.at = "facts", !.todo = consolidate_outcomes(job[t].of)])
    /\ UNCHANGED <<outcomes, facts, journal, plans, overlapped>>

\* record_many: one transaction per fact.
ConsolidateFact(t) ==
    /\ At(t, "facts")
    /\ \E g \in job[t].todo :
          /\ facts' = [facts EXCEPT ![g] = Support(g, job[t].of)]
          /\ Goto(t, [job[t] EXCEPT !.todo = @ \ {g}])
    /\ UNCHANGED <<outcomes, journal, plans, overlapped>>

\* Mistake: the step is journaled before its facts are written.
FactsWrittenAnyway(t) == TRUE

FactsWritten(t) == job[t].todo = {}

ConsolidateEnd(t) ==
    /\ At(t, "facts") /\ FactsWritten(t)
    /\ journal' = journal \cup {job[t].of}
    /\ Finish(t)
    /\ UNCHANGED <<outcomes, facts, plans, overlapped>>

\* A request dies, or a statement raises.
Die(t) == job[t] # Free /\ Finish(t) /\ UNCHANGED <<outcomes, facts, journal, plans, overlapped>>

\* draft_skills: enough records, and 70 percent of them a success.
draft_skills(n) ==
    /\ n >= MIN_SUPPORT
    /\ 10 * Cardinality({i \in 1 .. n : outcomes[i].good}) >= 7 * n

\* An approver activates the playbook: it is mined again, compiled and returned.
Activate ==
    /\ ops < MaxOps /\ ops' = ops + 1
    /\ draft_skills(Len(outcomes))
    /\ plans' = plans \cup {Len(outcomes)}
    /\ UNCHANGED <<outcomes, facts, journal, job, overlapped>>

Next ==
    \/ \E g \in Groups, good \in BOOLEAN : Learn(g, good)
    \/ Activate
    \/ \E t \in Threads : ConsolidateRead(t) \/ ConsolidateStart(t) \/ ConsolidateFact(t)
                          \/ ConsolidateEnd(t) \/ Die(t)

Spec == Init /\ [][Next]_vars

----------------------------------------------------------------------------
TypeOK ==
    /\ facts \in [Groups -> 0 .. MaxOutcomes]
    /\ journal \subseteq 0 .. MaxOutcomes /\ plans \subseteq 0 .. MaxOutcomes

\* A stored fact never claims more than the outcomes show, and when the
\* outcomes' step is journaled every group that earned a fact has the current
\* one, unless two consolidations overlapped (process_tenant, record_many): the
\* older one may then write last, and the journal keeps the newer from running
\* again. And there is no plan without a repeated success behind it.
FactsAreEarned ==
    /\ \A g \in Groups : facts[g] > 0 => facts[g] \in MIN_SUPPORT .. Support(g, Len(outcomes))
    /\ (Fingerprint \in journal /\ Consolidating = {} /\ ~overlapped) =>
          \A g \in consolidate_outcomes(Len(outcomes)) : facts[g] = Support(g, Len(outcomes))
    /\ \A n \in plans : Cardinality({i \in 1 .. n : outcomes[i].good}) >= MIN_SUPPORT
=============================================================================
