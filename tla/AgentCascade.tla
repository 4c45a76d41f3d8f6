---------------------------- MODULE AgentCascade ----------------------------
(***************************************************************************)
(* The drill routes that turn one click into one card of the approval      *)
(* queue. A click of an agentic drill runs two model agents, the critic    *)
(* and the executive, each in a bounded loop of model calls and tool       *)
(* executions under one response deadline; code then makes the critic's    *)
(* verdict binding and stores the decision. A deterministic drill computes *)
(* its decision at once, a pipeline drill hands an event to the worker and *)
(* waits. All clicks of one drill share a sequence of occurrence slots:    *)
(* decision ids derived from tenant, event type, article, day and counter. *)
(*                                                                         *)
(* The model's replies, tool results and the clock are arbitrary. A        *)
(* conclusion is abstracted to whether it cites its tool results, a        *)
(* decision's status to pending or settled (approved or rejected).         *)
(***************************************************************************)
EXTENDS Naturals, FiniteSets

CONSTANTS
    Clicks,      \* concurrent requesters of the drill's route
    Drills,      \* the drills considered, a subset of AllDrills
    MaxCalls,    \* model calls of one agent run (8 in the code)
    MaxRetries,  \* retries of an opening call, of a final answer (2 in the code)
    MaxSlot,     \* bound on the occurrence counter
    None

(* The agentic drills. Each runs its critic and its executive in one try     *)
(* block. Where the general error is caught before its subclass for the      *)
(* deadline, the deadline loses its type; a guardrail's agents may not drop  *)
(* the human review. The evidence is what the critic's tool reported first.  *)
Agents(typed, guardrail, evidence) ==
    [typed |-> typed, guardrail |-> guardrail, evidence |-> evidence]

run_golden        == Agents(FALSE, FALSE, {"profit", "loss"})
run_procurement   == Agents(FALSE, FALSE, {"sound", "no_need", "thin", "other_supplier"})
run_sales         == Agents(FALSE, FALSE, {"in_band", "out_of_band"})
run_catalog_price_check == Agents(TRUE, TRUE, {"out_of_band"})
run_expiry_risk_check   == Agents(TRUE, TRUE, {"in_window"})
run_cold_chain    == Agents(TRUE, FALSE, {"elevated", "low"})

Agentic == [golden |-> run_golden, procurement |-> run_procurement, sales |-> run_sales,
            price |-> run_catalog_price_check, expiry |-> run_expiry_risk_check,
            cold_chain |-> run_cold_chain]
AllDrills == DOMAIN Agentic \union {"deterministic", "pipeline"}

Findings == UNION {Agentic[d].evidence : d \in DOMAIN Agentic}

\* The bounds are positive, the drills are known ones, and the absent value is no finding.
AgentAssumption ==
    /\ Drills \subseteq AllDrills /\ Drills # {}
    /\ MaxCalls \in Nat \ {0} /\ MaxRetries \in Nat /\ MaxSlot \in Nat
    /\ None \notin Findings

VARIABLES
    drill,   \* the drill the clicks are of
    card,    \* slot -> decision row, or None
    queued,  \* slots whose event waits for the worker
    run      \* click -> its progress

vars == <<drill, card, queued, run>>

Slots == 0 .. MaxSlot
Idle == [at |-> "idle", slot |-> None, calls |-> 0, opening |-> 0, finals |-> 0,
         ready |-> FALSE, proof |-> None, pass |-> None,
         result |-> None, fault |-> None, answer |-> None]

\* What is left of a click when its route has answered; the agents' locals go.
Over(fault, answer) ==
    [Idle EXCEPT !.at = "done", !.fault = fault, !.answer = answer]

Settled(n) == card[n] # None /\ card[n].status = "settled"

-----------------------------------------------------------------------------
(* Choosing the decision id: _demo_occurrence_suffix. *)

\* Mistake: every click takes the first unused slot.
FirstUnused(n) == card[n] = None /\ \A m \in 0 .. n - 1 : card[m] # None

\* The walk stops at the first slot that is free or still pending. Settled
\* slots stay settled, so the walk reads as one step.
FirstOpen(n) == ~ Settled(n) /\ \A m \in 0 .. n - 1 : Settled(m)

\* A decision computed without a model: cascade.py and the worker.
Computed(s) == [status |-> s, action |-> "computed", earned |-> FALSE]

\* An agentic drill starts its critic.
AgenticDrill(c, n) ==
    /\ drill \in DOMAIN Agentic
    /\ run' = [run EXCEPT ![c] = [Idle EXCEPT !.at = "critic", !.slot = n]]
    /\ UNCHANGED queued

\* A recall or a count goes through the pipeline: its event is recorded, a repeat being
\* a duplicate, and the route waits for the worker.
PipelineDrill(c, n) ==
    /\ drill = "pipeline"
    /\ run' = [run EXCEPT ![c] = [Idle EXCEPT !.at = "wait", !.slot = n]]
    /\ queued' = IF card[n] = None THEN queued \union {n} ELSE queued

\* A deterministic drill has its decision at once, whatever its status.
DeterministicDrill(c, n) ==
    /\ drill = "deterministic"
    /\ \E s \in {"pending", "settled"} :
          run' = [run EXCEPT ![c] = [Idle EXCEPT !.at = "record",
                    !.slot = n, !.result = Computed(s)]]
    /\ UNCHANGED queued

\* The route builds its event for the slot found.
Click(c) ==
    /\ run[c].at \in {"idle", "done"}
    /\ \E n \in Slots :
        /\ FirstOpen(n)
        /\ AgenticDrill(c, n) \/ PipelineDrill(c, n) \/ DeterministicDrill(c, n)
    /\ UNCHANGED <<drill, card>>

-----------------------------------------------------------------------------
(* One agent run: AgentOrchestrator.run_messages. *)

InAgent(c) == run[c].at \in {"critic", "executive"}
\* The loop goes round once more.
Calling(c) == InAgent(c) /\ run[c].calls < MaxCalls

\* What the caller's except clauses and the route make of the exception.
Caught(fault) ==
    CASE fault = "raw" -> "server_error"
      [] fault = "deadline" /\ Agentic[drill].typed -> "deadline"
      [] OTHER -> "unavailable"

\* The exception ends the run and the click; no decision is stored.
Fail(c, fault) ==
    run' = [run EXCEPT ![c] = Over(fault, Caught(fault))]

\* The loop goes round after a call that ended in a retry of this kind.
Repeat(c, kind) ==
    run' = [run EXCEPT ![c].calls = @ + 1,
                       ![c].opening = @ + (IF kind = "opening" THEN 1 ELSE 0),
                       ![c].finals = @ + (IF kind = "finals" THEN 1 ELSE 0)]

\* The check at the top of the loop finds that another call would no longer
\* fit before the deadline; how long the calls took is arbitrary.
StopInTime(c) ==
    /\ Calling(c)
    /\ Fail(c, "deadline")
    /\ UNCHANGED <<drill, card, queued>>

\* The call limit is used up.
Exhausted(c) ==
    /\ InAgent(c) /\ run[c].calls = MaxCalls
    /\ Fail(c, "agent")
    /\ UNCHANGED <<drill, card, queued>>

\* The provider fails twice, answers out of form or not over the network, or
\* breaks off while the body is read, which the client does not catch.
CallFails(c) ==
    /\ Calling(c)
    /\ \E fault \in {"agent", "raw"} : Fail(c, fault)
    /\ UNCHANGED <<drill, card, queued>>

\* The reply's tool calls cannot be parsed: a forced opening call is retried.
BadCall(c) ==
    /\ Calling(c)
    /\ IF ~ run[c].ready /\ run[c].opening < MaxRetries
       THEN Repeat(c, "opening")
       ELSE Fail(c, "agent")
    /\ UNCHANGED <<drill, card, queued>>

\* The reply calls tools, executed in order; one that is unknown, refused,
\* repeated or failing ends the run. Only the first result of the tool that
\* backs the verdict counts (_tool_result), and only the critic's.
ToolCalls(c) ==
    /\ Calling(c)
    /\ \/ Fail(c, "agent")
       \/ \E p \in Agentic[drill].evidence \union {None} :
            run' = [run EXCEPT ![c].calls = @ + 1,
                      ![c].ready = TRUE,
                      ![c].proof = IF run[c].at = "critic" /\ @ = None THEN p ELSE @]
    /\ UNCHANGED <<drill, card, queued>>

\* The critic must have executed a tool before it may answer; the executive may
\* answer from the start.
MayAnswer(c) == run[c].ready

\* The reply has no tool call where one is required.
IgnoresTools(c) ==
    /\ Calling(c) /\ ~ MayAnswer(c)
    /\ IF run[c].opening < MaxRetries THEN Repeat(c, "opening") ELSE Fail(c, "agent")
    /\ UNCHANGED <<drill, card, queued>>

\* The final answer does not satisfy the schema.
BadAnswer(c) ==
    /\ Calling(c) /\ MayAnswer(c)
    /\ IF run[c].finals < MaxRetries THEN Repeat(c, "finals") ELSE Fail(c, "agent")
    /\ UNCHANGED <<drill, card, queued>>

-----------------------------------------------------------------------------
(* The two verdicts and what code makes of them. *)

\* The critic's valid answer. It must cite the results of its tools, and a
\* guardrail's critic must ask for a human review: kept. The executive starts anew.
CriticAnswers(c) ==
    /\ Calling(c) /\ run[c].at = "critic" /\ MayAnswer(c)
    /\ \E pass, kept \in BOOLEAN :
        IF kept
        THEN run' = [run EXCEPT ![c].at = "executive", ![c].pass = pass,
                                ![c].calls = 0, ![c].opening = 0, ![c].finals = 0,
                                ![c].ready = TRUE]
        ELSE Fail(c, "agent")
    /\ UNCHANGED <<drill, card, queued>>

\* The drills' evidence predicates.
markdown_evidence_supports_action(found)      == found = "profit"
procurement_evidence_supports_action(found)   == found = "sound"
price_evidence_supports_clean_sale(found)     == found = "in_band"
cold_chain_evidence_supports_dispatch(found)  == found = "elevated"

Supports(found) ==
    \/ drill = "golden" /\ markdown_evidence_supports_action(found)
    \/ drill = "procurement" /\ procurement_evidence_supports_action(found)
    \/ drill = "sales" /\ price_evidence_supports_clean_sale(found)
    \/ drill = "cold_chain" /\ cold_chain_evidence_supports_dispatch(found)

\* Mistake: the critic's word is taken without its evidence.
ReportedPass(c) == run[c].pass

\* _server_verified_critic_passed
VerifiedPass(c) == run[c].pass /\ Supports(run[c].proof)

\* _enforce_critic_verdict
Enforced(passed, asked, safe) == IF passed THEN asked ELSE safe

\* The builders of the six results: the action of a card. A guardrail has one only.
build_result(passed, go) ==
    Enforced(passed, IF go THEN "apply_markdown" ELSE "monitor", "monitor")
build_procurement_result(passed, go) ==
    Enforced(passed, IF go THEN "reorder" ELSE "monitor", "monitor")
build_sales_result(passed, go) ==
    Enforced(passed, IF go THEN "record_sale" ELSE "review_price_exception",
             "review_price_exception")
build_catalog_price_check_result == "review_price_exception"
build_expiry_risk_check_result   == "review_expiry_markdown"
build_cold_chain_result(passed, go) ==
    Enforced(passed, IF go THEN "dispatch_facilities_check" ELSE "monitor_cold_chain",
             "monitor_cold_chain")

Built(passed, go) ==
    CASE drill = "golden"      -> build_result(passed, go)
      [] drill = "procurement" -> build_procurement_result(passed, go)
      [] drill = "sales"       -> build_sales_result(passed, go)
      [] drill = "price"       -> build_catalog_price_check_result
      [] drill = "expiry"      -> build_expiry_risk_check_result
      [] drill = "cold_chain"  -> build_cold_chain_result(passed, go)

\* The actions a card may carry only when a run has earned them (for a sale the
\* safe side is the review).
Trusted == {"apply_markdown", "reorder", "record_sale", "dispatch_facilities_check"}
Actions == Trusted \union {"monitor", "monitor_cold_chain", "review_price_exception",
                           "review_expiry_markdown", "computed"}

\* Kept for the properties: everything a trusted action must rest on.
Earned(c, go, cites) ==
    run[c].pass /\ run[c].proof # None /\ Supports(run[c].proof) /\ go /\ cites

\* The executive's valid answer. Its conclusion must cite the critic's results
\* where its word counts; a guardrail's must keep the review.
ExecutiveAnswers(c) ==
    /\ Calling(c) /\ run[c].at = "executive"
    /\ \E go, cites \in BOOLEAN :
        IF /\ (VerifiedPass(c) \/ Agentic[drill].guardrail) => cites
           /\ Agentic[drill].guardrail => ~ go
        THEN run' = [run EXCEPT ![c] = [Idle EXCEPT !.at = "record",
                       !.slot = run[c].slot,
                       !.result = [status |-> "pending", action |-> Built(VerifiedPass(c), go),
                                   earned |-> Earned(c, go, cites)]]]
        ELSE Fail(c, "agent")
    /\ UNCHANGED <<drill, card, queued>>

\* record_cascade: the store keeps an approved or rejected decision as it is
\* and replaces a pending one; the route answers with the stored row.
Stored(n, r) == IF Settled(n) THEN card ELSE [card EXCEPT ![n] = r]

Record(c) ==
    /\ run[c].at = "record"
    /\ card' = Stored(run[c].slot, run[c].result)
    /\ run' = [run EXCEPT ![c] = Over(None, "decided")]
    /\ UNCHANGED <<drill, queued>>

-----------------------------------------------------------------------------
(* The pipeline drills and the manager. *)

\* The worker runs the cascade of a queued event.
WorkerRuns(n) ==
    /\ n \in queued
    /\ \E s \in {"pending", "settled"} :
         card' = Stored(n, Computed(s))
    /\ queued' = queued \ {n}
    /\ UNCHANGED <<drill, run>>

\* _await_worker_cascade finds the decision its event caused; storing the row
\* it read again changes nothing.
Found(c) ==
    /\ run[c].at = "wait" /\ card[run[c].slot] # None
    /\ run' = [run EXCEPT ![c] = Over(None, "decided")]
    /\ UNCHANGED <<drill, card, queued>>

\* The wait is over first: accepted and queued, retry shortly.
GiveUp(c) ==
    /\ run[c].at = "wait"
    /\ run' = [run EXCEPT ![c] = Over(None, "queued")]
    /\ UNCHANGED <<drill, card, queued>>

\* A manager approves or rejects a pending card.
Resolve(n) ==
    /\ card[n] # None /\ card[n].status = "pending"
    /\ card' = [card EXCEPT ![n].status = "settled"]
    /\ UNCHANGED <<drill, queued, run>>

-----------------------------------------------------------------------------
Init ==
    /\ drill \in Drills
    /\ card = [n \in Slots |-> None]
    /\ queued = {}
    /\ run = [c \in Clicks |-> Idle]

AgentStep(c) ==
    \/ StopInTime(c) \/ Exhausted(c) \/ CallFails(c) \/ BadCall(c) \/ ToolCalls(c)
    \/ IgnoresTools(c) \/ BadAnswer(c) \/ CriticAnswers(c) \/ ExecutiveAnswers(c)

ClickStep(c) == AgentStep(c) \/ Record(c) \/ Found(c) \/ GiveUp(c)

Next ==
    \/ \E c \in Clicks : Click(c) \/ ClickStep(c)
    \/ \E n \in Slots : WorkerRuns(n) \/ Resolve(n)

Spec == Init /\ [][Next]_vars

-----------------------------------------------------------------------------
(* Properties. *)

Verdict == [status : {"pending", "settled"}, action : Actions, earned : BOOLEAN]

Places == {"idle", "critic", "executive", "wait", "record", "done"}
Faults == {None, "deadline", "agent", "raw"}
Responses == {None, "decided", "deadline", "unavailable", "server_error", "queued"}
Passes == {None, TRUE, FALSE}

Progress ==
    [at : Places, slot : Slots \union {None}, calls : 0 .. MaxCalls,
     opening : 0 .. MaxRetries, finals : 0 .. MaxRetries, ready : BOOLEAN,
     proof : Findings \union {None}, pass : Passes, result : Verdict \union {None},
     fault : Faults, answer : Responses]

\* The variables have their types: every counter stays within its bound.
TypeOK ==
    /\ drill \in Drills
    /\ card \in [Slots -> Verdict \union {None}]
    /\ queued \subseteq Slots
    /\ run \in [Clicks -> Progress]

\* However clicks, agents, the worker and the manager interleave, the queue
\* holds at most one open card of a drill, and every occurrence before it is
\* settled: repeated clicks reuse the card, a click after its resolution opens
\* a new one and none is skipped (_demo_occurrence_suffix).
OneOpenCard ==
    \A n \in Slots : card[n] # None => \A m \in 0 .. n - 1 : Settled(m)

\* A card carries a trusted action exactly when it comes from one run in
\* which the critic passed the work, the first evidence its tools returned
\* supports the action, and the executive asked for it citing that evidence
\* (_enforce_critic_verdict): a run never borrows from an earlier attempt or
\* from a card it replaces.
VerdictBinds ==
    \A n \in Slots : card[n] # None => (card[n].action \in Trusted <=> card[n].earned)
=============================================================================
