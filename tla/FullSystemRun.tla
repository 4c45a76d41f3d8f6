--------------------------- MODULE FullSystemRun ---------------------------
(***************************************************************************)
(* The full-system campaign, shelfwise_eval/full_system.py: the driver that *)
(* rotates generated worlds through the ingest route, injects faults into   *)
(* the stream, cuts the model off once, probes the other features, resolves *)
(* the decisions it collected as an autopilot, and reports.                 *)
(*                                                                          *)
(* The system under test may answer anything; wrong remembers what it did   *)
(* wrong. A world is EventsPerCycle events of its spanning sample, whose    *)
(* answers are accepted or not. The fault rate is FaultRate over RateUnit;  *)
(* the code adds it up as a float, whose sum may fall just short of one     *)
(* where the exact sum is one, and of no other sum does it change the side. *)
(* The probes that are one request after the other and one receipt are the  *)
(* set Probes.                                                              *)
(***************************************************************************)
EXTENDS Naturals, Sequences, FiniteSets

CONSTANTS
    Cycles,            \* world_cycles, one rotation of the scenarios at least
    EventsPerCycle,    \* event_limit
    FaultRate,         \* fault_rate, in parts of RateUnit
    RateUnit,
    ChatEvery,         \* chat_every_n_cycles
    AgenticEvery,      \* agentic_every_n_cycles
    DissentEvery,      \* autopilot_dissent_every_n
    LiveRequired,
    Blackout,          \* blackout_seconds is positive
    Probes,            \* features with a probe of their own
    Ids,               \* decision ids the system may answer with
    MaxWrong           \* bound on the kinds of things that go wrong

FAULT_KINDS == <<"schema_invalid", "oversized_body", "wrong_tenant", "duplicate_event_id",
                 "stale_timestamp", "unparseable_number">>

\* The receipts of the run itself.
OwnReceipts == {"worker_retry_dlq", "inference_blackout", "agentic_periodic", "world_event_stream",
                "demo", "agentic_workflows", "hitl_approval_rejection", "writeback", "chat_inference"}

\* FullSystemConfig.__post_init__
ConfigAssumption ==
    /\ {Cycles, EventsPerCycle, ChatEvery, AgenticEvery} \subseteq Nat \ {0}
    /\ DissentEvery \in Nat /\ RateUnit \in Nat \ {0} /\ FaultRate \in 0 .. RateUnit
    /\ LiveRequired \in BOOLEAN /\ Blackout \in BOOLEAN
    /\ Blackout => LiveRequired
    /\ Probes \cap OwnReceipts = {}

VARIABLES
    at,        \* the phase of run, or of a cycle
    cycle,     \* cycles begun
    event,     \* events of this cycle that were sent
    faults,    \* [acc, turn, kinds, injected, rejected, original]: original, an event to repeat
    counts,    \* [submitted, accepted, ingested]: world events of completed cycles, and this one's
    chats,     \* [calls, model, offline, errors]
    dark,      \* [done, since, pending]: the blackout
    captured,  \* decisions the cascades answered with, [id, track]
    trail,     \* how they were resolved, [id, track, action, matched]
    pilot,     \* [approvable, dissent]
    features,  \* receipts: the pairs <<feature, passed>>
    failed,    \* internal_failures, by kind
    report,    \* "none", "passed", "failed", and what the run did with it
    wrong      \* what the system under test did wrong

vars == <<at, cycle, event, faults, counts, chats, dark, captured, trail, pilot, features, failed,
          report, wrong>>

Init ==
    /\ at = "worker" /\ cycle = 0 /\ event = 0
    /\ faults = [acc |-> 0, turn |-> 0, kinds |-> {}, injected |-> 0, rejected |-> 0,
                 original |-> FALSE]
    /\ counts = [submitted |-> 0, accepted |-> 0, ingested |-> 0]
    /\ chats = [calls |-> 0, model |-> 0, offline |-> 0, errors |-> 0]
    /\ dark = [done |-> FALSE, since |-> 0, pending |-> FALSE]
    /\ captured = <<>> /\ trail = <<>> /\ pilot = [approvable |-> 0, dissent |-> 0]
    /\ features = {} /\ failed = {} /\ report = "none" /\ wrong = {}

Go(phase) == at' = phase
Note(kinds) == failed' = failed \cup kinds
Blame(kinds) == wrong' = wrong \cup kinds
Receipt(feature, passed) == features' = features \cup {<<feature, passed>>}

worldVars == <<cycle, event, faults, counts, chats, dark>>
humanVars == <<captured, trail, pilot>>

----------------------------------------------------------------------------
\* The worker probe, which a live campaign skips with a receipt that passes.
ProbeWorker(good) ==
    /\ at = "worker" /\ Go("cycle")
    /\ LiveRequired => good
    /\ Receipt("worker_retry_dlq", good)
    /\ Blame(IF good THEN {} ELSE {"worker"})
    /\ UNCHANGED <<worldVars, humanVars, failed, report>>

\* Another cycle of the rotation, or the end of it.
BeginCycle ==
    /\ at = "cycle" /\ cycle < Cycles
    /\ Go("ingest") /\ event' = 0 /\ counts' = [counts EXCEPT !.ingested = 0]
    /\ UNCHANGED <<cycle, faults, chats, dark, humanVars, features, failed, report, wrong>>

\* _should_inject_fault: the rate is carried from event to event. A sum of exactly one
\* may be a little less as a float, unless it is the rate itself.
Accumulated == faults.acc + FaultRate
MaySpare == Accumulated < RateUnit \/ (Accumulated = RateUnit /\ FaultRate < RateUnit)
MayInject == Accumulated >= RateUnit

\* Mistake: the remainder is thrown away with the fault.
CarriedFresh(sum) == 0

Carried(sum) == sum - RateUnit

\* One event of the sample is sent; an accepted one may come with a cascade.
IngestEvent(good) ==
    /\ at = "ingest" /\ event < EventsPerCycle /\ MaySpare
    /\ event' = event + 1
    /\ faults' = [faults EXCEPT !.acc = Accumulated, !.original = @ \/ good]
    /\ counts' = [counts EXCEPT !.ingested = @ + (IF good THEN 1 ELSE 0)]
    /\ \/ UNCHANGED captured
       \/ \E id \in Ids : good /\ captured = <<>> /\ captured' = <<[id |-> id, track |-> "world"]>>
    /\ Blame(IF good THEN {} ELSE {"event"})
    /\ UNCHANGED <<at, cycle, chats, dark, trail, pilot, features, failed, report>>

\* A kind that repeats an accepted event is passed over while there is none; one of a
\* cycle that was given up will do.
next_fault_kind ==
    LET turns == {i \in faults.turn .. faults.turn + Len(FAULT_KINDS) - 1 :
                     FAULT_KINDS[(i % Len(FAULT_KINDS)) + 1] # "duplicate_event_id"
                     \/ faults.original}
    IN  CHOOSE i \in turns : \A j \in turns : i <= j

\* In its place a fault is sent: the refusal and the stores must be as expected.
InjectFault(good) ==
    LET turn == next_fault_kind
    IN  /\ at = "ingest" /\ event < EventsPerCycle /\ MayInject
        /\ event' = event + 1
        /\ faults' = [acc |-> Carried(Accumulated), turn |-> turn + 1,
                      kinds |-> faults.kinds \cup {FAULT_KINDS[(turn % Len(FAULT_KINDS)) + 1]},
                      injected |-> faults.injected + 1,
                      rejected |-> faults.rejected + (IF good THEN 1 ELSE 0),
                      original |-> faults.original]
        /\ Note(IF good THEN {} ELSE {"fault_not_safely_rejected"})
        /\ Blame(IF good THEN {} ELSE {"fault"})
        /\ UNCHANGED <<at, cycle, counts, chats, dark, humanVars, features, report>>

\* The sample is through: the totals are brought up to date.
EndSample ==
    /\ at = "ingest" /\ event = EventsPerCycle
    /\ Go("chat")
    /\ counts' = [submitted |-> counts.submitted + EventsPerCycle,
                  accepted |-> counts.accepted + counts.ingested, ingested |-> 0]
    /\ UNCHANGED <<cycle, event, faults, chats, dark, humanVars, features, failed, report, wrong>>

\* A call of the cycle raises: the cycle is given up, and what it owed with it.
CycleRaises ==
    /\ at \in {"ingest", "chat", "periodic", "blackout"}
    /\ Go("cycle") /\ cycle' = cycle + 1
    /\ Note({"world_cycle_failed"})
    /\ UNCHANGED <<event, faults, counts, chats, dark, humanVars, features, report, wrong>>

\* Mistake: the cycles of the chat alone decide.
ChatScheduled == cycle % ChatEvery = 0

ChatDue == cycle % ChatEvery = 0 \/ dark.pending

SkipChat ==
    /\ at = "chat" /\ ~ChatDue /\ Go("periodic")
    /\ UNCHANGED <<worldVars, humanVars, features, failed, report, wrong>>

\* _observe_blackout_recovery: the model's answer, no later than one cycle on.
Recovered(answer) == answer = "model" /\ cycle - dark.since <= 1

\* _ask_chat: the answer is the model's, a fallback's or an error; the first one
\* after the blackout says whether the system recovered.
AskChat(answer) ==
    /\ at = "chat" /\ ChatDue /\ Go("periodic")
    /\ chats' = [chats EXCEPT !.calls = @ + 1, ![answer] = @ + 1]
    /\ dark' = [dark EXCEPT !.pending = FALSE]
    /\ IF dark.pending THEN Receipt("inference_blackout", Recovered(answer)) ELSE UNCHANGED features
    /\ Note(IF dark.pending /\ ~Recovered(answer) THEN {"blackout_recovery_failed"} ELSE {})
    /\ Blame(IF answer = "errors" \/ (LiveRequired /\ answer # "model") THEN {"chat"} ELSE {})
    /\ UNCHANGED <<cycle, event, faults, counts, humanVars, report>>

\* Every so many cycles one agentic workflow is run, with a receipt nobody requires.
PeriodicProbe(good) ==
    /\ at = "periodic" /\ Go("blackout")
    /\ IF LiveRequired /\ (cycle + 1) % AgenticEvery = 0
       THEN Receipt("agentic_periodic", good)
       ELSE good /\ UNCHANGED features
    /\ UNCHANGED <<worldVars, humanVars, failed, report, wrong>>

\* Half of the cycles in, once.
ShouldStartBlackout ==
    Blackout /\ ~dark.done /\ cycle >= (IF Cycles \div 2 > 1 THEN Cycles \div 2 ELSE 1)

EndCycle ==
    /\ at = "blackout" /\ ~ShouldStartBlackout
    /\ Go("cycle") /\ cycle' = cycle + 1
    /\ UNCHANGED <<event, faults, counts, chats, dark, humanVars, features, failed, report, wrong>>

\* The model is unreachable for a while: every route that needs it answers 503.
ProbeBlackout(good) ==
    /\ at = "blackout" /\ ShouldStartBlackout
    /\ Go("cycle") /\ cycle' = cycle + 1
    /\ dark' = [done |-> TRUE, since |-> cycle, pending |-> TRUE]
    /\ Note(IF good THEN {} ELSE {"blackout_routes_not_fail_closed"})
    /\ Blame(IF good THEN {} ELSE {"blackout"})
    /\ UNCHANGED <<event, faults, counts, chats, humanVars, features, report>>

\* Mistake: what was accepted is compared with what was sent as a world event.
WorldBalancesLoosely == counts.accepted <= counts.submitted - faults.injected

WorldBalances == counts.accepted = counts.submitted - faults.injected

\* The receipt of the rotation.
EndRotation ==
    /\ at = "cycle" /\ cycle >= Cycles
    /\ Go("demos")
    /\ Receipt("world_event_stream",
               counts.submitted > 0 /\ WorldBalances /\ faults.rejected = faults.injected)
    /\ UNCHANGED <<worldVars, humanVars, failed, report, wrong>>

----------------------------------------------------------------------------
\* A demo that answers as its contract says is captured, another one is a failure.
Demo(good) ==
    /\ at = "demos" /\ Go("probes")
    /\ Receipt("demo", good)
    /\ IF good THEN \E id \in Ids : captured' = Append(captured, [id |-> id, track |-> "deterministic"])
               ELSE UNCHANGED captured
    /\ Note(IF good THEN {} ELSE {"demo_contract_failed"})
    /\ Blame(IF good THEN {} ELSE {"demo"})
    /\ UNCHANGED <<worldVars, trail, pilot, report>>

Probed == {f \in Probes : \E passed \in BOOLEAN : <<f, passed>> \in features}

Probe(f, good) ==
    /\ at = "probes" /\ f \notin Probed
    /\ Receipt(f, good)
    /\ Blame(IF good THEN {} ELSE {f})
    /\ UNCHANGED <<at, worldVars, humanVars, failed, report>>

EndProbes ==
    /\ at = "probes" /\ Probed = Probes
    /\ Go(IF LiveRequired THEN "agentic" ELSE "hitl")
    /\ UNCHANGED <<worldVars, humanVars, features, failed, report, wrong>>

\* All agentic workflows, each with live model calls and a decision.
ProbeAgentic(good) ==
    /\ at = "agentic" /\ Go("hitl")
    /\ Receipt("agentic_workflows", good)
    /\ \E id \in Ids : captured' = Append(captured, [id |-> id, track |-> "agentic"])
    /\ Blame(IF good THEN {} ELSE {"agentic"})
    /\ UNCHANGED <<worldVars, trail, pilot, failed, report>>

----------------------------------------------------------------------------
\* Mistake: dissent is decided by the decisions seen, approvable or not.
DissentByTrail(approvable) == DissentEvery > 0 /\ (Len(trail) + 1) % DissentEvery = 0

\* Every so many approvable decisions, the autopilot dissents.
Dissents(approvable) == DissentEvery > 0 /\ approvable % DissentEvery = 0

\* _resolve_hitl: each decision once, the second sight of an id is a duplicate.
Resolve(verdict, good) ==
    LET this == captured[Len(trail) + 1]
        seen == \E i \in DOMAIN trail : trail[i].id = this.id
        approvable == pilot.approvable + (IF ~seen /\ verdict = "approve" THEN 1 ELSE 0)
        dissent == ~seen /\ verdict = "approve" /\ Dissents(approvable)
        action == IF seen THEN "duplicate" ELSE IF dissent THEN "reject" ELSE verdict
    IN  /\ at = "hitl" /\ Len(trail) < Len(captured)
        /\ action \notin {"approve", "reject"} => good
        /\ trail' = Append(trail, [id |-> this.id, track |-> this.track, action |-> action,
                                   matched |-> good /\ ~seen])
        /\ pilot' = [approvable |-> approvable, dissent |-> pilot.dissent + (IF dissent THEN 1 ELSE 0)]
        /\ Blame(IF good THEN {} ELSE {"hitl"})
        /\ UNCHANGED <<at, worldVars, captured, features, failed, report>>

Matched(action) == {i \in DOMAIN trail : trail[i].action = action /\ trail[i].matched}
Mismatched == {i \in DOMAIN trail : trail[i].action \in {"approve", "reject"} /\ ~trail[i].matched}

EndResolve ==
    /\ at = "hitl" /\ Len(trail) = Len(captured)
    /\ Go("writeback")
    /\ Receipt("hitl_approval_rejection",
               Matched("approve") # {} /\ Matched("reject") # {} /\ Mismatched = {})
    /\ UNCHANGED <<worldVars, humanVars, failed, report, wrong>>

\* A task for every approval and for no rejection, and thresholds that moved.
ProbeWriteback(good) ==
    /\ at = "writeback" /\ Go("chat_feature")
    /\ Receipt("writeback", good /\ Matched("approve") # {})
    /\ Blame(IF good THEN {} ELSE {"writeback"})
    /\ UNCHANGED <<worldVars, humanVars, failed, report>>

RecordChatFeature ==
    /\ at = "chat_feature" /\ Go("report")
    /\ Receipt("chat_inference", chats.calls > 0 /\ chats.errors = 0
                                 /\ (LiveRequired => chats.model = chats.calls))
    /\ UNCHANGED <<worldVars, humanVars, failed, report, wrong>>

\* Anything not caught above ends the run: it is noted, reported and raised.
Interrupted ==
    /\ at \notin {"report", "done", "interrupted"} /\ Go("interrupted")
    /\ Note({"run_interrupted"})
    /\ UNCHANGED <<worldVars, humanVars, features, report, wrong>>

----------------------------------------------------------------------------
Required == {"worker_retry_dlq", "world_event_stream", "demo", "hitl_approval_rejection", "writeback",
             "chat_inference"} \cup Probes \cup (IF LiveRequired THEN {"agentic_workflows"} ELSE {})

Rows(id) == {i \in DOMAIN trail : trail[i].id = id}

\* Mistake: two sights of one decision are always expected.
ReuseTolerated(rows) == Cardinality(rows) = 2

\* A deterministic and an agentic run may converge on one decision.
ExpectedReuse(rows) ==
    Cardinality(rows) = 2 /\ {trail[i].track : i \in rows} = {"deterministic", "agentic"}

\* Mistake: a receipt is enough, whatever it says.
FeatureReceived(f) == \E passed \in BOOLEAN : <<f, passed>> \in features

FeaturePassed(f) == <<f, TRUE>> \in features

audit_full_system_integrity ==
    UNION {{"decision_reuse" : id \in {d \in Ids : Cardinality(Rows(d)) > 1 /\ ~ExpectedReuse(Rows(d))}},
           {"hitl_request_result_mismatch" : i \in Mismatched},
           {"feature_receipt" : f \in {g \in Required : ~FeaturePassed(g)}},
           IF LiveRequired /\ (chats.calls = 0 \/ chats.model # chats.calls) THEN {"live_chat"} ELSE {}}

\* The report is built and its artifacts are written, if they can be.
BuildReport ==
    /\ at \in {"report", "interrupted"}
    /\ Go("done")
    /\ report' = IF failed \cup audit_full_system_integrity = {} THEN "passed" ELSE "failed"
    /\ UNCHANGED <<worldVars, humanVars, features, failed, wrong>>

Step ==
    \/ \E good \in BOOLEAN :
          \/ ProbeWorker(good) \/ IngestEvent(good) \/ InjectFault(good) \/ PeriodicProbe(good)
          \/ ProbeBlackout(good) \/ Demo(good) \/ ProbeAgentic(good) \/ ProbeWriteback(good)
          \/ \E f \in Probes : Probe(f, good)
          \/ \E verdict \in {"approve", "reject", "hold"} : Resolve(verdict, good)
    \/ BeginCycle \/ EndSample \/ CycleRaises \/ SkipChat
    \/ \E answer \in {"model", "offline", "errors"} : AskChat(answer)
    \/ EndCycle \/ EndRotation \/ EndProbes \/ EndResolve \/ RecordChatFeature
    \/ Interrupted \/ BuildReport

Next == Step /\ Cardinality(wrong') <= MaxWrong /\ Cardinality(failed') <= MaxWrong

Spec == Init /\ [][Next]_vars

----------------------------------------------------------------------------
TypeOK ==
    /\ cycle \in 0 .. Cycles /\ event \in 0 .. EventsPerCycle
    /\ faults.acc \in 0 .. RateUnit /\ faults.rejected <= faults.injected
    /\ report \in {"none", "passed", "failed"}

\* A report that passed stands for a campaign that ran to its end and saw the
\* system do nothing wrong: every world event was accepted, every fault
\* refused, every verdict answered as asked, every live chat answered by the
\* model (audit_full_system_integrity, run). Two decisions of one id are only
\* a deterministic and an agentic run of one drill.
PassIsHonest ==
    report = "passed" =>
       /\ wrong = {} /\ failed = {}
       /\ cycle = Cycles /\ Len(trail) = Len(captured)
       /\ \A i \in DOMAIN trail, j \in DOMAIN trail :
             i < j /\ trail[i].id = trail[j].id => trail[i].track = "deterministic"
                                                   /\ trail[j].track = "agentic"

\* The blackout comes once, and the very next cycle that is not given up asks
\* the model again, so a campaign that passed and had a cycle left after it saw
\* the recovery (_should_start_blackout, _observe_blackout_recovery).
BlackoutRecovers ==
    report = "passed" /\ dark.done /\ dark.since < Cycles - 1 =>
       /\ ~dark.pending
       /\ <<"inference_blackout", TRUE>> \in features

\* The injected faults are the rate's share of the events sent but for less than one
\* that is carried on, or exactly one where a float fell short of it, and the
\* autopilot dissents from exactly every n-th approvable decision
\* (_should_inject_fault, _resolve_hitl).
SharesAreKept ==
    /\ (at \in {"ingest", "chat"}) /\ failed = {} =>
          RateUnit * faults.injected + faults.acc
             = FaultRate * (counts.submitted + (IF at = "ingest" THEN event ELSE 0))
    /\ DissentEvery > 0 => pilot.dissent = pilot.approvable \div DissentEvery
============================================================================
