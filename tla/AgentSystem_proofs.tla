------------------------- MODULE AgentSystem_proofs -------------------------
(***************************************************************************)
(* Proofs about the parts that decide, talk and learn, for any clicks,      *)
(* messages, versions, evidence and outcomes, any number of requests and    *)
(* threads, and deaths of any of them; about the contract on what the       *)
(* repository claims, for any source and policy; and about the training of  *)
(* its model, for any number of runs. A section each, with its inductive    *)
(* invariant, which says what a request or run may rely on between two of   *)
(* its calls, whatever the others did meanwhile; the rules, which take one  *)
(* step, are proved builder by builder.                                     *)
(***************************************************************************)
EXTENDS AgentSystem, CapabilityContract, TrainingPipeline, SequenceTheorems, FiniteSetTheorems,
        TLAPS

\* The components count with the same Cardinality.
LEMMA OneCardinality ==
    \A S : Chat!Cardinality(S) = Cardinality(S) /\ Memory!Cardinality(S) = Cardinality(S)
  BY DEF Chat!Cardinality, Memory!Cardinality, Cardinality

-----------------------------------------------------------------------------
(* The drills and their agents (AgentCascade). *)

\* A slot that a click or a queued event stands for: those before it are settled.
Reached(n) == n \in Agency!Slots /\ \A m \in 0 .. n - 1 : Agency!Settled(m)

\* A result carries a trusted action exactly when its run earned it.
Binds(r) == r \in Agency!Verdict /\ (r.action \in Agency!Trusted <=> r.earned)

\* What a click relies on between its steps, whatever the other clicks, the worker
\* and the manager did since.
Underway(c) ==
    /\ run[c].at \in {"critic", "executive", "wait", "record"} => Reached(run[c].slot)
    /\ Agency!InAgent(c) => drill \in DOMAIN Agency!Agentic
    /\ run[c].at = "executive" => run[c].pass \in BOOLEAN
    /\ run[c].at = "record" => Binds(run[c].result)

\* The inductive invariant.
DrillInv ==
    /\ Agency!TypeOK /\ Agency!OneOpenCard
    /\ \A n \in Agency!Slots : card[n] # None => Binds(card[n])
    /\ \A n \in queued : Reached(n)
    /\ \A c \in Clicks : Underway(c)

\* A step of one click that leaves the cards and the queue alone keeps the invariant
\* when it keeps that click's part.
LEMMA ClickKept ==
    ASSUME DrillInv, NEW c \in Clicks, NEW p \in Agency!Progress, run' = [run EXCEPT ![c] = p],
           UNCHANGED <<drill, card, queued>>, Underway(c)'
    PROVE  DrillInv'
  <1>1. run \in [Clicks -> Agency!Progress] /\ Agency!TypeOK
    BY DEF DrillInv, Agency!TypeOK, Agency!Progress
  <1>2. run' \in [Clicks -> Agency!Progress] /\ Agency!TypeOK'
    BY <1>1 DEF Agency!TypeOK, Agency!Progress
  <1>3. \A n \in Agency!Slots : Agency!Settled(n)' <=> Agency!Settled(n)
    BY DEF Agency!Settled
  <1>4. Agency!OneOpenCard' /\ (\A n \in Agency!Slots : card'[n] # None => Binds(card'[n]))
    BY DEF DrillInv, Agency!OneOpenCard, Agency!Settled, Binds
  <1>5. \A n \in queued' : Reached(n)'
    BY DEF DrillInv, Reached, Agency!Settled
  <1>6. ASSUME NEW d \in Clicks, d # c PROVE Underway(d)'
    <2>1. Underway(d) /\ run'[d] = run[d]
      BY <1>1, <1>6 DEF DrillInv
    <2> QED
      BY <2>1 DEF Underway, Agency!InAgent, Reached, Agency!Settled, Binds
  <1>7. \A d \in Clicks : Underway(d)'
    BY <1>6
  <1> QED
    BY <1>2, <1>4, <1>5, <1>7 DEF DrillInv, Binds

\* The edits of a progress: the counters of the loop, the evidence found, and where the
\* click stands with what it carries there.
LEMMA ProgressEdits ==
    ASSUME NEW p \in Agency!Progress
    PROVE  /\ \A k \in 0 .. MaxCalls, o,
                 f \in 0 .. MaxRetries :
                 [p EXCEPT !.calls = k, !.opening = o, !.finals = f] \in Agency!Progress
           /\ \A k \in 0 .. MaxCalls, e \in Agency!Findings \union {None} :
                 [p EXCEPT !.calls = k, !.ready = TRUE, !.proof = e] \in Agency!Progress
           /\ \A at \in Agency!Places, pass \in Agency!Passes, k \in 0 .. MaxCalls, o,
                 f \in 0 .. MaxRetries :
                 [p EXCEPT !.at = at, !.pass = pass, !.calls = k, !.opening = o, !.finals = f,
                           !.ready = TRUE] \in Agency!Progress
           /\ \A at \in Agency!Places, n \in Agency!Slots \union {None} :
                 [p EXCEPT !.at = at, !.slot = n] \in Agency!Progress
           /\ \A at \in Agency!Places, n \in Agency!Slots \union {None},
              r \in Agency!Verdict \union {None} :
                 [p EXCEPT !.at = at, !.slot = n, !.result = r] \in Agency!Progress
           /\ \A at \in Agency!Places, f \in Agency!Faults, r \in Agency!Responses :
                 [p EXCEPT !.at = at, !.fault = f, !.answer = r] \in Agency!Progress
  <1>1. \A k \in 0 .. MaxCalls, o,
             f \in 0 .. MaxRetries :
             [p EXCEPT !.calls = k, !.opening = o, !.finals = f] \in Agency!Progress
    BY DEF Agency!Progress
  <1>2. \A k \in 0 .. MaxCalls, e \in Agency!Findings \union {None} :
             [p EXCEPT !.calls = k, !.ready = TRUE, !.proof = e] \in Agency!Progress
    BY DEF Agency!Progress
  <1>3. \A at \in Agency!Places, pass \in Agency!Passes, k \in 0 .. MaxCalls, o,
             f \in 0 .. MaxRetries :
             [p EXCEPT !.at = at, !.pass = pass, !.calls = k, !.opening = o, !.finals = f,
             !.ready = TRUE] \in Agency!Progress
    BY DEF Agency!Progress
  <1>4. \A at \in Agency!Places, n \in Agency!Slots \union {None} :
             [p EXCEPT !.at = at, !.slot = n] \in Agency!Progress
    BY DEF Agency!Progress
  <1>5. \A at \in Agency!Places, n \in Agency!Slots \union {None},
             r \in Agency!Verdict \union {None} :
             [p EXCEPT !.at = at, !.slot = n, !.result = r] \in Agency!Progress
    BY DEF Agency!Progress
  <1>6. \A at \in Agency!Places, f \in Agency!Faults, r \in Agency!Responses :
             [p EXCEPT !.at = at, !.fault = f, !.answer = r] \in Agency!Progress
    BY DEF Agency!Progress
  <1> QED
    BY <1>1, <1>2, <1>3, <1>4, <1>5, <1>6

\* What a click starts with, and what it is left with, is a progress.
LEMMA PlainProgress ==
    ASSUME Agency!AgentAssumption
    PROVE  /\ Agency!Idle \in Agency!Progress
           /\ \A fault \in Agency!Faults, answer \in Agency!Responses :
              Agency!Over(fault, answer) \in Agency!Progress
  <1>1. "idle" \in Agency!Places /\ "done" \in Agency!Places /\ None \in Agency!Faults
           /\ None \in Agency!Responses
           /\ None \in Agency!Passes
    BY DEF Agency!Places, Agency!Faults, Agency!Responses, Agency!Passes
  <1>2. 0 \in 0 .. MaxCalls /\ 0 \in 0 .. MaxRetries
    BY DEF Agency!AgentAssumption
  <1>3. Agency!Idle \in Agency!Progress
    BY <1>1, <1>2 DEF Agency!Idle, Agency!Progress
  <1> QED
    BY <1>1, <1>3, ProgressEdits DEF Agency!Over

\* A click that fails is done: nothing is asked of it any more.
LEMMA FailKept ==
    ASSUME Agency!AgentAssumption, DrillInv, NEW c \in Clicks,
           NEW fault \in {"deadline", "agent", "raw"},
           Agency!Fail(c, fault), UNCHANGED <<drill, card, queued>>
    PROVE  DrillInv'
  <1> DEFINE p == Agency!Over(fault, Agency!Caught(fault))
  <1>1. Agency!Caught(fault) \in {"deadline", "unavailable", "server_error"}
    BY DEF Agency!Caught
  <1>2. p \in Agency!Progress
    BY <1>1, PlainProgress DEF Agency!Faults, Agency!Responses
  <1>3. run' = [run EXCEPT ![c] = p] /\ p.at = "done"
    BY DEF Agency!Fail, Agency!Over, Agency!Idle
  <1>4. run'[c] = p
    BY <1>3 DEF DrillInv, Agency!TypeOK
  <1>5. Underway(c)'
    BY <1>3, <1>4 DEF Underway, Agency!InAgent
  <1> HIDE DEF p
  <1> QED
    BY <1>2, <1>3, <1>5, ClickKept

\* Another turn of the loop is as good as the one before.
LEMMA RepeatKept ==
    ASSUME Agency!AgentAssumption, DrillInv, NEW c \in Clicks, NEW kind \in {"opening", "finals"},
           Agency!Calling(c), run[c][kind] < MaxRetries, Agency!Repeat(c, kind),
              UNCHANGED <<drill, card, queued>>
    PROVE  DrillInv'
  <1> DEFINE p == [run[c] EXCEPT !.calls = @ + 1,
                     !.opening = @ + (IF kind = "opening" THEN 1 ELSE 0),
                     !.finals = @ + (IF kind = "finals" THEN 1 ELSE 0)]
  <1>1. run \in [Clicks -> Agency!Progress] /\ run[c] \in Agency!Progress /\ Underway(c)
    BY DEF DrillInv, Agency!TypeOK, Agency!Progress
  <1>2. p \in Agency!Progress
    <2>1. /\ run[c].calls + 1 \in 0 .. MaxCalls
          /\ run[c].opening + (IF kind = "opening" THEN 1 ELSE 0) \in 0 .. MaxRetries
          /\ run[c].finals + (IF kind = "finals" THEN 1 ELSE 0) \in 0 .. MaxRetries
      BY <1>1 DEF Agency!Progress, Agency!Calling, Agency!AgentAssumption
    <2> QED
      BY <1>1, <2>1, ProgressEdits
  <1>3. run' = [run EXCEPT ![c] = p]
    BY <1>1 DEF Agency!Repeat, Agency!Progress
  <1>4. run'[c] = p /\ p.at = run[c].at /\ p.slot = run[c].slot /\ p.pass = run[c].pass
           /\ p.result = run[c].result
    BY <1>1, <1>3 DEF Agency!Progress
  <1>5. Underway(c)'
    BY <1>1, <1>4 DEF Underway, Agency!InAgent, Reached, Agency!Settled, Binds
  <1> HIDE DEF p
  <1> QED
    BY <1>2, <1>3, <1>5, ClickKept

\* What an agent runs for is a drill with evidence.
LEMMA FindingIsKnown ==
    ASSUME DrillInv, NEW c \in Clicks, Agency!InAgent(c)
    PROVE  drill \in DOMAIN Agency!Agentic /\ Agency!Agentic[drill].evidence \subseteq Agency!Findings
  BY DEF DrillInv, Underway, Agency!Findings

\* The tools' first evidence is kept.
LEMMA ToolCallsKept ==
    ASSUME Agency!AgentAssumption, DrillInv, NEW c \in Clicks, Agency!ToolCalls(c)
    PROVE  DrillInv'
  <1>1. CASE Agency!Fail(c, "agent")
    BY <1>1, FailKept DEF Agency!ToolCalls
  <1>2. ASSUME NEW e \in Agency!Agentic[drill].evidence \union {None},
               run' = [run EXCEPT ![c].calls = @ + 1, ![c].ready = TRUE,
                         ![c].proof = IF run[c].at = "critic" /\ @ = None THEN e ELSE @]
        PROVE  DrillInv'
    <2> DEFINE p == [run[c] EXCEPT !.calls = @ + 1, !.ready = TRUE,
                       !.proof = IF run[c].at = "critic" /\ @ = None THEN e ELSE @]
    <2>1. run \in [Clicks -> Agency!Progress] /\ run[c] \in Agency!Progress /\ Underway(c)
      BY DEF DrillInv, Agency!TypeOK, Agency!Progress
    <2>2. Agency!Calling(c) /\ Agency!InAgent(c) /\ UNCHANGED <<drill, card, queued>>
      BY DEF Agency!ToolCalls, Agency!Calling
    <2>3. e \in Agency!Findings \union {None}
      BY <2>2, FindingIsKnown
    <2>4. p \in Agency!Progress
      <3>1. /\ run[c].calls + 1 \in 0 .. MaxCalls
            /\ (IF run[c].at = "critic" /\ run[c].proof = None THEN e ELSE run[c].proof)
                  \in Agency!Findings \union {None}
        BY <2>1, <2>2, <2>3 DEF Agency!Progress, Agency!Calling, Agency!AgentAssumption
      <3> QED
        BY <2>1, <3>1, ProgressEdits
    <2>5. run' = [run EXCEPT ![c] = p]
      BY <1>2, <2>1 DEF Agency!Progress
    <2>6. run'[c] = p /\ p.at = run[c].at /\ p.slot = run[c].slot /\ p.pass = run[c].pass
             /\ p.result = run[c].result
      BY <2>1, <2>5 DEF Agency!Progress
    <2>7. Underway(c)'
      BY <2>1, <2>2, <2>6 DEF Underway, Agency!InAgent, Reached, Agency!Settled, Binds
    <2> HIDE DEF p
    <2> QED
      BY <2>2, <2>4, <2>5, <2>7, ClickKept
  <1> QED
    BY <1>1, <1>2 DEF Agency!ToolCalls

\* The critic hands over to the executive.
LEMMA CriticKept ==
    ASSUME Agency!AgentAssumption, DrillInv, NEW c \in Clicks, Agency!CriticAnswers(c)
    PROVE  DrillInv'
  <1>1. CASE Agency!Fail(c, "agent")
    BY <1>1, FailKept DEF Agency!CriticAnswers
  <1>2. ASSUME NEW pass \in Agency!Passes, pass \in BOOLEAN,
               run' = [run EXCEPT ![c].at = "executive", ![c].pass = pass,
                                ![c].calls = 0, ![c].opening = 0, ![c].finals = 0,
                                ![c].ready = TRUE]
        PROVE  DrillInv'
    <2> DEFINE p == [run[c] EXCEPT !.at = "executive", !.pass = pass, !.calls = 0,
                       !.opening = 0, !.finals = 0, !.ready = TRUE]
    <2>1. run \in [Clicks -> Agency!Progress] /\ run[c] \in Agency!Progress /\ Underway(c)
      BY DEF DrillInv, Agency!TypeOK, Agency!Progress
    <2>2. run[c].at = "critic" /\ Agency!InAgent(c) /\ UNCHANGED <<drill, card, queued>>
      BY DEF Agency!CriticAnswers, Agency!InAgent
    <2>3. p \in Agency!Progress
      <3>1. "executive" \in Agency!Places /\ 0 \in 0 .. MaxCalls /\ 0 \in 0 .. MaxRetries
        BY DEF Agency!Places, Agency!AgentAssumption
      <3> QED
        BY <2>1, <3>1, ProgressEdits
    <2>4. run' = [run EXCEPT ![c] = p]
      BY <1>2, <2>1 DEF Agency!Progress
    <2>5. run'[c] = p /\ p.at = "executive" /\ p.slot = run[c].slot /\ p.pass \in BOOLEAN
      BY <1>2, <2>1, <2>4 DEF Agency!Progress
    <2>6. Underway(c)'
      BY <2>1, <2>2, <2>5 DEF Underway, Agency!InAgent, Reached, Agency!Settled
    <2> HIDE DEF p
    <2> QED
      BY <2>2, <2>3, <2>4, <2>6, ClickKept
  <1> QED
    <2>1. \A pass \in BOOLEAN : pass \in Agency!Passes
      BY DEF Agency!Passes
    <2> QED
      BY <1>1, <1>2, <2>1 DEF Agency!CriticAnswers

\* The gate: code lets a trusted action through exactly when the critic passed the work,
\* its evidence supports the action, and the executive asked for it.
LEMMA GateBinds ==
    ASSUME Agency!AgentAssumption, drill \in DOMAIN Agency!Agentic, NEW c \in Clicks,
           run[c].pass \in BOOLEAN, run[c].proof \in Agency!Findings \union {None},
           NEW go \in BOOLEAN, NEW cites \in BOOLEAN, Agency!VerifiedPass(c) => cites
    PROVE  /\ Agency!Built(Agency!VerifiedPass(c), go) \in Agency!Actions
           /\ Agency!Earned(c, go, cites) \in BOOLEAN
           /\ Agency!Built(Agency!VerifiedPass(c), go) \in Agency!Trusted
                 <=> Agency!Earned(c, go, cites)
  <1>1. drill \in {"golden", "procurement", "sales", "price", "expiry", "cold_chain"}
    BY DEF Agency!Agentic
  <1>2. Agency!VerifiedPass(c) \in BOOLEAN /\ (Agency!Earned(c, go, cites) <=>
           Agency!VerifiedPass(c) /\ run[c].proof # None /\ go)
    BY DEF Agency!VerifiedPass, Agency!Earned
  <1>3. Agency!Earned(c, go, cites) \in BOOLEAN
    BY DEF Agency!Earned
  <1>4. {"profit", "sound", "in_band", "elevated"} \subseteq Agency!Findings
    BY DEF Agency!Findings, Agency!Agentic, Agency!Agents, Agency!run_golden, Agency!run_procurement,
       Agency!run_sales, Agency!run_cold_chain,
           Agency!run_catalog_price_check, Agency!run_expiry_risk_check
  <1>5. Agency!Supports(run[c].proof) => run[c].proof # None
    BY <1>4 DEF Agency!Supports, Agency!AgentAssumption, Agency!markdown_evidence_supports_action,
          Agency!procurement_evidence_supports_action, Agency!price_evidence_supports_clean_sale,
          Agency!cold_chain_evidence_supports_dispatch
  <1>6. Agency!Earned(c, go, cites) <=> Agency!VerifiedPass(c) /\ go
    BY <1>2, <1>5 DEF Agency!VerifiedPass
  <1>7. drill \in {"price", "expiry"} => ~ Agency!VerifiedPass(c)
    BY DEF Agency!VerifiedPass, Agency!Supports
  <1>8. CASE drill = "golden"
    BY <1>2, <1>3, <1>6, <1>8 DEF Agency!Built, Agency!build_result, Agency!Enforced, Agency!Trusted,
       Agency!Actions
  <1>9. CASE drill = "procurement"
    BY <1>2, <1>3, <1>6, <1>9 DEF Agency!Built, Agency!build_procurement_result, Agency!Enforced,
       Agency!Trusted, Agency!Actions
  <1>10. CASE drill = "sales"
    BY <1>2, <1>3, <1>6, <1>10 DEF Agency!Built, Agency!build_sales_result, Agency!Enforced,
       Agency!Trusted, Agency!Actions
  <1>11. CASE drill = "price"
    BY <1>3, <1>6, <1>7, <1>11 DEF Agency!Built, Agency!build_catalog_price_check_result,
       Agency!Trusted, Agency!Actions
  <1>12. CASE drill = "expiry"
    BY <1>3, <1>6, <1>7, <1>12 DEF Agency!Built, Agency!build_expiry_risk_check_result, Agency!Trusted,
       Agency!Actions
  <1>13. CASE drill = "cold_chain"
    BY <1>2, <1>3, <1>6, <1>13 DEF Agency!Built, Agency!build_cold_chain_result, Agency!Enforced,
       Agency!Trusted, Agency!Actions
  <1> QED
    BY <1>1, <1>8, <1>9, <1>10, <1>11, <1>12, <1>13

\* The executive's answer becomes a result that binds.
LEMMA ExecutiveKept ==
    ASSUME Agency!AgentAssumption, DrillInv, NEW c \in Clicks, Agency!ExecutiveAnswers(c)
    PROVE  DrillInv'
  <1>1. CASE Agency!Fail(c, "agent")
    BY <1>1, FailKept DEF Agency!ExecutiveAnswers
  <1>2. ASSUME NEW go \in BOOLEAN, NEW cites \in BOOLEAN, Agency!VerifiedPass(c) => cites,
               run' = [run EXCEPT ![c] = [Agency!Idle EXCEPT !.at = "record", !.slot = run[c].slot,
                       !.result = [status |-> "pending",
                          action |-> Agency!Built(Agency!VerifiedPass(c), go),
                                   earned |-> Agency!Earned(c, go, cites)]]]
        PROVE  DrillInv'
    <2> DEFINE r == [status |-> "pending", action |-> Agency!Built(Agency!VerifiedPass(c), go),
                     earned |-> Agency!Earned(c, go, cites)]
               p == [Agency!Idle EXCEPT !.at = "record", !.slot = run[c].slot, !.result = r]
    <2>1. run \in [Clicks -> Agency!Progress] /\ run[c] \in Agency!Progress /\ Underway(c)
      BY DEF DrillInv, Agency!TypeOK, Agency!Progress
    <2>2. run[c].at = "executive" /\ Agency!InAgent(c) /\ UNCHANGED <<drill, card, queued>>
      BY DEF Agency!ExecutiveAnswers, Agency!InAgent
    <2>3. run[c].pass \in BOOLEAN /\ run[c].proof \in Agency!Findings \union {None}
             /\ Reached(run[c].slot)
      BY <2>1, <2>2 DEF Underway, Agency!Progress
    <2>4. drill \in DOMAIN Agency!Agentic
      BY <2>2, FindingIsKnown
    <2>5. Binds(r)
      <3>1. /\ Agency!Built(Agency!VerifiedPass(c), go) \in Agency!Actions
            /\ Agency!Earned(c, go, cites) \in BOOLEAN
            /\ Agency!Built(Agency!VerifiedPass(c), go) \in Agency!Trusted
                  <=> Agency!Earned(c, go, cites)
        BY <1>2, <2>3, <2>4, GateBinds
      <3> QED
        BY <3>1 DEF Binds, Agency!Verdict
    <2> HIDE DEF r
    <2>6. p \in Agency!Progress
      <3>1. Agency!Idle \in Agency!Progress /\ "record" \in Agency!Places
               /\ run[c].slot \in Agency!Slots \union {None}
               /\ r \in Agency!Verdict \union {None}
        BY <2>1, <2>5, PlainProgress DEF Agency!Progress, Binds, Agency!Places
      <3> QED
        BY <3>1, ProgressEdits
    <2>7. run' = [run EXCEPT ![c] = p]
      BY <1>2 DEF r
    <2>8. run'[c] = p /\ p.at = "record" /\ p.slot = run[c].slot /\ p.result = r
      BY <2>1, <2>7 DEF Agency!Idle
    <2>9. Underway(c)'
      BY <2>2, <2>3, <2>5, <2>8 DEF Underway, Agency!InAgent, Reached, Agency!Settled, Binds
    <2> HIDE DEF p
    <2> QED
      BY <2>2, <2>6, <2>7, <2>9, ClickKept
  <1> QED
    BY <1>1, <1>2 DEF Agency!ExecutiveAnswers

\* A step of an agent's loop keeps the invariant.
LEMMA AgentKept ==
    ASSUME Agency!AgentAssumption, DrillInv, NEW c \in Clicks, Agency!AgentStep(c)
    PROVE  DrillInv'
  <1>1. CASE Agency!StopInTime(c)
    BY <1>1, FailKept DEF Agency!StopInTime
  <1>2. CASE Agency!Exhausted(c)
    BY <1>2, FailKept DEF Agency!Exhausted
  <1>3. CASE Agency!CallFails(c)
    BY <1>3, FailKept DEF Agency!CallFails
  <1>4. CASE Agency!BadCall(c)
    BY <1>4, FailKept, RepeatKept DEF Agency!BadCall
  <1>5. CASE Agency!IgnoresTools(c)
    BY <1>5, FailKept, RepeatKept DEF Agency!IgnoresTools
  <1>6. CASE Agency!BadAnswer(c)
    BY <1>6, FailKept, RepeatKept DEF Agency!BadAnswer
  <1> QED
    BY <1>1, <1>2, <1>3, <1>4, <1>5, <1>6, ToolCallsKept, CriticKept, ExecutiveKept DEF Agency!AgentStep

\* The walk stops at a slot whose predecessors are settled, and a click starts there.
LEMMA ClickStarts ==
    ASSUME Agency!AgentAssumption, DrillInv, NEW c \in Clicks, Agency!Click(c)
    PROVE  DrillInv'
  <1>1. run \in [Clicks -> Agency!Progress] /\ run[c] \in Agency!Progress
    BY DEF DrillInv, Agency!TypeOK, Agency!Progress
  <1>2. PICK n \in Agency!Slots : Agency!FirstOpen(n) /\
           (Agency!AgenticDrill(c, n) \/ Agency!PipelineDrill(c, n) \/ Agency!DeterministicDrill(c, n))
    BY DEF Agency!Click
  <1>3. Reached(n) /\ UNCHANGED <<drill, card>>
    BY <1>2 DEF Reached, Agency!FirstOpen, Agency!Click
  <1>4. \A m \in Agency!Slots : Reached(m) => Reached(m)'
    BY <1>3 DEF Reached, Agency!Settled
  <1>5. CASE Agency!AgenticDrill(c, n)
    <2> DEFINE p == [Agency!Idle EXCEPT !.at = "critic", !.slot = n]
    <2>1. p \in Agency!Progress /\ p.at = "critic" /\ p.slot = n
      <3>1. Agency!Idle \in Agency!Progress /\ "critic" \in Agency!Places
               /\ n \in Agency!Slots \union {None}
        BY PlainProgress DEF Agency!Places
      <3>2. p \in Agency!Progress
        BY <3>1, ProgressEdits
      <3> QED
        BY <3>2 DEF Agency!Idle
    <2>2. run' = [run EXCEPT ![c] = p] /\ UNCHANGED <<drill, card, queued>>
      BY <1>3, <1>5 DEF Agency!AgenticDrill
    <2> HIDE DEF p
    <2>3. run'[c] = p
      BY <1>1, <2>2
    <2>4. Underway(c)'
      BY <1>3, <1>4, <1>5, <2>1, <2>3 DEF Underway, Agency!InAgent, Agency!AgenticDrill, Reached
    <2> QED
      BY <2>1, <2>2, <2>4, ClickKept
  <1>6. CASE Agency!DeterministicDrill(c, n)
    <2> PICK s \in {"pending", "settled"} :
           run' = [run EXCEPT ![c] = [Agency!Idle EXCEPT !.at = "record", !.slot = n,
              !.result = Agency!Computed(s)]]
      BY <1>6 DEF Agency!DeterministicDrill
    <2> DEFINE p == [Agency!Idle EXCEPT !.at = "record", !.slot = n, !.result = Agency!Computed(s)]
    <2>1. Binds(Agency!Computed(s))
      BY DEF Binds, Agency!Computed, Agency!Verdict, Agency!Actions, Agency!Trusted
    <2>2. p \in Agency!Progress /\ p.at = "record" /\ p.slot = n /\ p.result = Agency!Computed(s)
      <3>1. Agency!Idle \in Agency!Progress /\ "record" \in Agency!Places
               /\ n \in Agency!Slots \union {None}
               /\ Agency!Computed(s) \in Agency!Verdict \union {None}
        BY <2>1, PlainProgress DEF Agency!Places, Binds
      <3>2. p \in Agency!Progress
        BY <3>1, ProgressEdits
      <3> QED
        BY <3>2 DEF Agency!Idle
    <2>3. run' = [run EXCEPT ![c] = p] /\ UNCHANGED <<drill, card, queued>>
      BY <1>3, <1>6 DEF Agency!DeterministicDrill
    <2> HIDE DEF p
    <2>4. run'[c] = p
      BY <1>1, <2>3
    <2>5. Underway(c)'
      BY <1>3, <1>4, <2>1, <2>2, <2>4 DEF Underway, Agency!InAgent, Reached, Binds, Agency!Verdict
    <2> QED
      BY <2>2, <2>3, <2>5, ClickKept
  <1>7. CASE Agency!PipelineDrill(c, n)
    <2> DEFINE p == [Agency!Idle EXCEPT !.at = "wait", !.slot = n]
    <2>1. p \in Agency!Progress /\ p.at = "wait" /\ p.slot = n
      <3>1. Agency!Idle \in Agency!Progress /\ "wait" \in Agency!Places
               /\ n \in Agency!Slots \union {None}
        BY PlainProgress DEF Agency!Places
      <3>2. p \in Agency!Progress
        BY <3>1, ProgressEdits
      <3> QED
        BY <3>2 DEF Agency!Idle
    <2>2. run' = [run EXCEPT ![c] = p] /\ UNCHANGED <<drill, card>>
             /\ queued' \subseteq queued \union {n}
      BY <1>3, <1>7 DEF Agency!PipelineDrill
    <2> HIDE DEF p
    <2>3. run'[c] = p /\ run' \in [Clicks -> Agency!Progress]
      BY <1>1, <2>1, <2>2
    <2>4. Underway(c)'
      BY <1>3, <1>4, <2>1, <2>3 DEF Underway, Agency!InAgent, Reached
    <2>5. Agency!TypeOK'
      BY <2>2, <2>3 DEF Agency!TypeOK, DrillInv, Agency!Progress
    <2>6. Agency!OneOpenCard' /\ (\A m \in Agency!Slots : card'[m] # None => Binds(card'[m]))
      BY <1>3 DEF DrillInv, Agency!OneOpenCard, Agency!Settled, Binds
    <2>7. \A m \in queued' : Reached(m)'
      BY <1>3, <1>4, <2>2 DEF DrillInv, Reached
    <2>8. ASSUME NEW d \in Clicks, d # c PROVE Underway(d)'
      <3>1. Underway(d) /\ run'[d] = run[d]
        BY <1>1, <2>2, <2>8 DEF DrillInv
      <3> QED
        BY <1>3, <3>1 DEF Underway, Agency!InAgent, Reached, Agency!Settled, Binds
    <2> QED
      BY <2>4, <2>5, <2>6, <2>7, <2>8 DEF DrillInv, Binds
  <1> QED
    BY <1>2, <1>5, <1>6, <1>7

\* Storing a result that binds in a slot reached: a settled card stays, a pending one is
\* replaced, and nothing that was settled is open again.
LEMMA StoredKept ==
    ASSUME Agency!AgentAssumption, DrillInv, NEW n \in Agency!Slots, NEW r, Reached(n), Binds(r),
           card' = Agency!Stored(n, r)
    PROVE  /\ card' \in [Agency!Slots -> Agency!Verdict \union {None}]
           /\ \A m \in Agency!Slots : Agency!Settled(m) => Agency!Settled(m)'
           /\ Agency!OneOpenCard'
           /\ \A m \in Agency!Slots : card'[m] # None => Binds(card'[m])
  <1>1. card \in [Agency!Slots -> Agency!Verdict \union {None}] /\ Agency!OneOpenCard
           /\ \A m \in Agency!Slots : card[m] # None => Binds(card[m])
    BY DEF DrillInv, Agency!TypeOK
  <1>2. CASE Agency!Settled(n)
    BY <1>1, <1>2 DEF Agency!Stored, Agency!Settled, Agency!OneOpenCard, Binds
  <1>3. CASE ~ Agency!Settled(n)
    <2>1. card' = [card EXCEPT ![n] = r]
      BY <1>3 DEF Agency!Stored
    <2>2. \A m \in Agency!Slots : Agency!Settled(m) => Agency!Settled(m)'
      BY <1>1, <1>3, <2>1 DEF Agency!Settled
    <2>3. \A m \in Agency!Slots : 0 .. m - 1 \subseteq Agency!Slots
      BY DEF Agency!Slots, Agency!AgentAssumption
    <2>4. Agency!OneOpenCard'
      BY <1>1, <2>1, <2>2, <2>3 DEF Agency!OneOpenCard, Reached
    <2>5. \A m \in Agency!Slots : card'[m] # None => Binds(card'[m])
      BY <1>1, <2>1
    <2> QED
      BY <1>1, <2>1, <2>2, <2>4, <2>5 DEF Binds
  <1> QED
    BY <1>2, <1>3

\* What was reached stays reached as long as the settled cards stay settled.
LEMMA ReachedStays ==
    ASSUME Agency!AgentAssumption, \A m \in Agency!Slots : Agency!Settled(m) => Agency!Settled(m)',
           NEW n, Reached(n)
    PROVE  n \in Agency!Slots /\ \A m \in 0 .. n - 1 : Agency!Settled(m)'
  BY DEF Reached, Agency!Slots, Agency!AgentAssumption

\* The clicks that a step on the cards leaves alone keep what they rely on.
LEMMA BystandersStay ==
    ASSUME Agency!AgentAssumption, DrillInv, NEW c \in Clicks, run'[c] = run[c], drill' = drill,
           \A m \in Agency!Slots : Agency!Settled(m) => Agency!Settled(m)'
    PROVE  Underway(c)'
  <1>1. Underway(c)
    BY DEF DrillInv
  <1>2. run[c].at \in {"critic", "executive", "wait", "record"} => Reached(run[c].slot)'
    BY <1>1, ReachedStays DEF Underway, Reached
  <1> QED
    BY <1>1, <1>2 DEF Underway, Agency!InAgent, Binds, Reached

\* Recording the result, running the queued event and the manager's resolution.
LEMMA CardsKept ==
    ASSUME Agency!AgentAssumption, DrillInv,
           \/ \E c \in Clicks : Agency!Record(c)
           \/ \E n \in Agency!Slots : Agency!WorkerRuns(n) \/ Agency!Resolve(n)
    PROVE  DrillInv'
  <1>1. run \in [Clicks -> Agency!Progress] /\ queued \subseteq Agency!Slots
    BY DEF DrillInv, Agency!TypeOK, Agency!Progress
  <1>2. ASSUME NEW c \in Clicks, Agency!Record(c) PROVE DrillInv'
    <2> DEFINE n == run[c].slot  r == run[c].result  p == Agency!Over(None, "decided")
    <2>1. Reached(n) /\ Binds(r) /\ n \in Agency!Slots /\ card' = Agency!Stored(n, r)
      BY <1>2 DEF DrillInv, Underway, Agency!Record, Reached
    <2>2. p \in Agency!Progress /\ p.at = "done" /\ run' = [run EXCEPT ![c] = p]
             /\ UNCHANGED <<drill, queued>>
      BY <1>2, PlainProgress DEF Agency!Record, Agency!Over, Agency!Idle, Agency!Faults,
         Agency!Responses
    <2> HIDE DEF n, r, p
    <2>3. /\ card' \in [Agency!Slots -> Agency!Verdict \union {None}]
          /\ \A m \in Agency!Slots : Agency!Settled(m) => Agency!Settled(m)'
          /\ Agency!OneOpenCard'
          /\ \A m \in Agency!Slots : card'[m] # None => Binds(card'[m])
      BY <2>1, StoredKept
    <2>4. Agency!TypeOK'
      BY <1>1, <2>2, <2>3 DEF DrillInv, Agency!TypeOK, Agency!Progress
    <2>5. \A m \in queued' : Reached(m)'
      BY <2>2, <2>3, ReachedStays DEF DrillInv, Reached
    <2>6. ASSUME NEW d \in Clicks PROVE Underway(d)'
      <3>1. CASE d = c
        BY <1>1, <2>2, <3>1 DEF Underway, Agency!InAgent
      <3>2. CASE d # c
        BY <1>1, <2>2, <2>3, <3>2, BystandersStay
      <3> QED
        BY <3>1, <3>2
    <2> QED
      BY <2>3, <2>4, <2>5, <2>6 DEF DrillInv, Binds
  <1>3. ASSUME NEW n \in Agency!Slots, Agency!WorkerRuns(n) PROVE DrillInv'
    <2>1. PICK s \in {"pending", "settled"} : card' = Agency!Stored(n, Agency!Computed(s))
      BY <1>3 DEF Agency!WorkerRuns
    <2>2. Reached(n) /\ queued' \subseteq queued /\ UNCHANGED <<drill, run>>
      BY <1>3 DEF Agency!WorkerRuns, DrillInv
    <2>3. Binds(Agency!Computed(s))
      BY DEF Binds, Agency!Computed, Agency!Verdict, Agency!Actions, Agency!Trusted
    <2>4. /\ card' \in [Agency!Slots -> Agency!Verdict \union {None}]
          /\ \A m \in Agency!Slots : Agency!Settled(m) => Agency!Settled(m)'
          /\ Agency!OneOpenCard'
          /\ \A m \in Agency!Slots : card'[m] # None => Binds(card'[m])
      BY <2>1, <2>2, <2>3, StoredKept
    <2>5. Agency!TypeOK'
      BY <1>1, <2>2, <2>4 DEF DrillInv, Agency!TypeOK, Agency!Progress
    <2>6. \A m \in queued' : Reached(m)'
      BY <2>2, <2>4, ReachedStays DEF DrillInv, Reached
    <2>7. \A d \in Clicks : Underway(d)'
      BY <2>2, <2>4, BystandersStay
    <2> QED
      BY <2>4, <2>5, <2>6, <2>7 DEF DrillInv, Binds
  <1>4. ASSUME NEW n \in Agency!Slots, Agency!Resolve(n) PROVE DrillInv'
    <2>1. card \in [Agency!Slots -> Agency!Verdict \union {None}] /\ card[n] \in Agency!Verdict
             /\ Binds(card[n])
             /\ Agency!OneOpenCard /\ \A m \in Agency!Slots : card[m] # None => Binds(card[m])
      BY <1>4 DEF Agency!Resolve, DrillInv, Agency!TypeOK
    <2>2. card' = [card EXCEPT ![n] = [card[n] EXCEPT !.status = "settled"]]
             /\ UNCHANGED <<drill, queued, run>>
      BY <1>4 DEF Agency!Resolve
    <2>3. Binds([card[n] EXCEPT !.status = "settled"])
      BY <2>1 DEF Binds, Agency!Verdict
    <2>4. card' \in [Agency!Slots -> Agency!Verdict \union {None}]
             /\ \A m \in Agency!Slots : card'[m] # None => Binds(card'[m])
      BY <2>1, <2>2, <2>3 DEF Binds
    <2>5. \A m \in Agency!Slots : Agency!Settled(m) => Agency!Settled(m)'
      BY <2>1, <2>2, <2>3 DEF Agency!Settled, Agency!Verdict, Binds
    <2>6. \A m \in Agency!Slots : card'[m] # None => card[m] # None
      BY <1>4, <2>1, <2>2 DEF Agency!Resolve
    <2>7. \A m \in Agency!Slots : 0 .. m - 1 \subseteq Agency!Slots
      BY DEF Agency!Slots, Agency!AgentAssumption
    <2>8. Agency!OneOpenCard'
      BY <2>1, <2>5, <2>6, <2>7 DEF Agency!OneOpenCard
    <2>9. Agency!TypeOK'
      BY <2>2, <2>4 DEF DrillInv, Agency!TypeOK
    <2>10. \A m \in queued' : Reached(m)'
      BY <2>2, <2>5, ReachedStays DEF DrillInv, Reached
    <2>11. \A d \in Clicks : Underway(d)'
      BY <2>2, <2>5, BystandersStay
    <2> QED
      BY <2>4, <2>8, <2>9, <2>10, <2>11 DEF DrillInv, Binds
  <1> QED
    BY <1>2, <1>3, <1>4

\* A waiting click is over.
LEMMA WaitKept ==
    ASSUME Agency!AgentAssumption, DrillInv, NEW c \in Clicks, Agency!Found(c) \/ Agency!GiveUp(c)
    PROVE  DrillInv'
  <1>1. PICK answer \in {"decided", "queued"} : run' = [run EXCEPT ![c] = Agency!Over(None, answer)]
    BY DEF Agency!Found, Agency!GiveUp
  <1> DEFINE p == Agency!Over(None, answer)
  <1>2. p \in Agency!Progress /\ p.at = "done"
    BY PlainProgress DEF Agency!Over, Agency!Idle, Agency!Faults, Agency!Responses
  <1>3. UNCHANGED <<drill, card, queued>>
    BY DEF Agency!Found, Agency!GiveUp
  <1>4. run' = [run EXCEPT ![c] = p]
    BY <1>1
  <1> HIDE DEF p
  <1>5. run'[c] = p
    BY <1>4 DEF DrillInv, Agency!TypeOK
  <1>6. Underway(c)'
    BY <1>2, <1>5 DEF Underway, Agency!InAgent
  <1> QED
    BY <1>2, <1>3, <1>4, <1>6, ClickKept

\* The inductive invariant of the drills.
THEOREM DrillInvariance ==
    ASSUME Agency!AgentAssumption PROVE Agency!Spec => []DrillInv
  <1>1. Agency!Init => DrillInv
    <2> SUFFICES ASSUME Agency!Init PROVE DrillInv
      OBVIOUS
    <2>1. Agency!TypeOK
      BY PlainProgress DEF Agency!Init, Agency!TypeOK, Agency!Progress
    <2>2. Agency!OneOpenCard /\ (\A n \in Agency!Slots : card[n] # None => Binds(card[n]))
      BY DEF Agency!Init, Agency!OneOpenCard
    <2>3. \A c \in Clicks : Underway(c)
      BY DEF Agency!Init, Underway, Agency!InAgent, Agency!Idle
    <2> QED
      BY <2>1, <2>2, <2>3 DEF DrillInv, Agency!Init
  <1>2. DrillInv /\ [Agency!Next]_(Agency!vars) => DrillInv'
    <2> SUFFICES ASSUME DrillInv, [Agency!Next]_(Agency!vars) PROVE DrillInv'
      OBVIOUS
    <2>1. CASE UNCHANGED Agency!vars
      BY <2>1 DEF DrillInv, Agency!vars, Agency!TypeOK, Agency!OneOpenCard, Agency!Settled, Reached,
         Underway, Agency!InAgent, Binds
    <2>2. ASSUME NEW c \in Clicks, Agency!Click(c) \/ Agency!ClickStep(c) PROVE DrillInv'
      BY <2>2, ClickStarts, AgentKept, CardsKept, WaitKept DEF Agency!ClickStep
    <2>3. CASE \E n \in Agency!Slots : Agency!WorkerRuns(n) \/ Agency!Resolve(n)
      BY <2>3, CardsKept
    <2> QED
      BY <2>1, <2>2, <2>3 DEF Agency!Next
  <1> QED
    BY <1>1, <1>2, PTL DEF Agency!Spec

\* The queue shows at most one open card of a drill, and a card escalates exactly when
\* one run earned it: Spec => []CardsAreEarned (cascade._run_scenario, queue reads).
THEOREM AgentsEarnTheirCards ==
    ASSUME Agency!AgentAssumption PROVE Agency!Spec => []CardsAreEarned
  <1>1. DrillInv => CardsAreEarned
    BY DEF DrillInv, Binds, Agency!VerdictBinds, CardsAreEarned
  <1> QED
    BY <1>1, DrillInvariance, PTL

-----------------------------------------------------------------------------
(* The rules of the deterministic cascades (CascadeRules). *)

\* What any builder may return: nothing, or one consistent decision.
Consistent(d) ==
    /\ d.status = "rejected" => d.action \in Rules!Holding /\ ~ d.review /\ d.verdict = "rejected"
    /\ d.status = "pending" => d.action \notin Rules!Holding /\ d.review /\ d.verdict # "rejected"
    /\ d.status = "approved" <=> d.action = "record_sale"
    /\ d.action \in Rules!Escalating => d.verdict = "approved"

\* A result that is no decision, or a consistent one that filled in these fields at most.
Sound(x, fields) ==
    /\ x.used \subseteq fields
    /\ x.status # "decided" => x.decision = None
    /\ x.decision # None => Consistent(x.decision)

\* A receipt without decision is sound.
LEMMA NoDecisionIsSound == \A status, fields : Sound(Rules!NoDecision(status), fields)
  BY DEF Rules!NoDecision, Sound

\* The critic's gate lets only a passed evidence escalate.
LEMMA GatedIsSound ==
    ASSUME NEW passed \in BOOLEAN, NEW go \in Rules!Escalating,
           NEW safe \in {"monitor", "monitor_cold_chain"},
           NEW used
    PROVE  Sound(Rules!Gated(passed, go, safe, used), used)
  <1>1. CASE passed
    BY <1>1 DEF Sound, Rules!Gated, Rules!Decide, Rules!Enforced, Consistent, Rules!Escalating,
       Rules!Holding
  <1>2. CASE ~ passed
    BY <1>2 DEF Sound, Rules!Gated, Rules!Decide, Rules!Enforced, Consistent, Rules!Escalating,
       Rules!Holding
  <1> QED
    BY <1>1, <1>2

\* What a manager is asked to do is never to hold still.
LEMMA ReviewIsSound ==
    ASSUME NEW action, action \notin Rules!Escalating \cup Rules!Holding, NEW verdict,
           verdict # "rejected"
    PROVE  Sound(Rules!Review(action, verdict), {})
  BY DEF Sound, Rules!Review, Rules!Decide, Consistent, Rules!Holding, Rules!Escalating

\* Fields that may be filled in: all of them, but of a live event only those it carries
\* and the ones there are measured facts for.
Fillable(e) ==
    IF e.domain = "operational_twin"
    THEN {f \in Rules!ScanFields \cup Rules!AlertFields : e.body.field[f] # None}
             \cup Rules!SaleFields
    ELSE Rules!ScanFields \cup Rules!AlertFields \cup Rules!SaleFields

\* A builder of a scan or an alert is asked only when a live event carries what it needs.
LEMMA StoriesAreFillable ==
    ASSUME NEW e, ~ Rules!MissingContext(e)
    PROVE  /\ e.type = "scan" => Rules!ScanStory(e) \subseteq Fillable(e)
           /\ e.type = "cold_chain_alert" => Rules!AlertStory(e) \subseteq Fillable(e)
  BY DEF Rules!MissingContext, Rules!Required, Rules!ScanStory, Rules!AlertStory, Fillable

\* A result that is sound about some fields is sound about more of them.
LEMMA SoundWidens ==
    ASSUME NEW x, NEW fields, NEW more, Sound(x, fields), fields \subseteq more
    PROVE  Sound(x, more)
  BY DEF Sound

\* Every builder returns a sound result.
LEMMA BuildersAreSound ==
    ASSUME NEW e
    PROVE  /\ Sound(Rules!run_golden_cascade(e), Rules!ScanStory(e))
           /\ Sound(Rules!run_procurement_cascade(e), {})
           /\ Sound(Rules!run_sales_cascade(e), Rules!SaleFacts(e))
           /\ Sound(Rules!run_catalog_price_check(e), {})
           /\ Sound(Rules!run_expiry_risk_check(e), {})
           /\ Sound(Rules!run_cold_chain_cascade(e), Rules!AlertStory(e))
           /\ Sound(Rules!run_recall_cascade(e), {})
           /\ Sound(Rules!run_inventory_exception_cascade(e), {})
  <1>1. Sound(Rules!run_golden_cascade(e), Rules!ScanStory(e))
    <2> DEFINE passed == e.body.profit > 0
    <2>1. passed \in BOOLEAN
      OBVIOUS
    <2> HIDE DEF passed
    <2>2. Sound(Rules!Gated(passed, "apply_markdown", "monitor", Rules!ScanStory(e)),
             Rules!ScanStory(e))
      BY <2>1, GatedIsSound DEF Rules!Escalating
    <2> USE DEF passed
    <2> QED
      BY <2>2, NoDecisionIsSound DEF Rules!run_golden_cascade
  <1>2. Sound(Rules!run_procurement_cascade(e), {})
    BY GatedIsSound DEF Rules!Escalating, Rules!run_procurement_cascade
  <1>3. Sound(Rules!run_sales_cascade(e), Rules!SaleFacts(e))
    <2>1. \A used : /\ Sound(Rules!Decide("approved", "record_sale", "approved", FALSE, used), used)
                    /\ Sound(Rules!Decide("pending", "review_price_exception", "review_required",
                                          TRUE, used), used)
      BY DEF Sound, Rules!Decide, Consistent, Rules!Holding, Rules!Escalating
    <2> QED
      BY <2>1, NoDecisionIsSound DEF Rules!run_sales_cascade
  <1>4. Sound(Rules!run_catalog_price_check(e), {})
    BY NoDecisionIsSound, ReviewIsSound DEF Rules!run_catalog_price_check, Rules!Escalating,
       Rules!Holding
  <1>5. Sound(Rules!run_expiry_risk_check(e), {})
    BY NoDecisionIsSound, ReviewIsSound DEF Rules!run_expiry_risk_check, Rules!Escalating, Rules!Holding
  <1>6. Sound(Rules!run_cold_chain_cascade(e), Rules!AlertStory(e))
    BY GatedIsSound DEF Rules!Escalating, Rules!run_cold_chain_cascade
  <1>7. Sound(Rules!run_recall_cascade(e), {})
    BY NoDecisionIsSound, ReviewIsSound DEF Rules!run_recall_cascade, Rules!Escalating, Rules!Holding
  <1>8. Sound(Rules!run_inventory_exception_cascade(e), {})
    <2>1. Rules!ExceptionAction(e.body) \notin Rules!Escalating \cup Rules!Holding
      BY DEF Rules!ExceptionAction, Rules!Escalating, Rules!Holding
    <2> QED
      BY <2>1, NoDecisionIsSound, ReviewIsSound DEF Rules!run_inventory_exception_cascade
  <1> QED
    BY <1>1, <1>2, <1>3, <1>4, <1>5, <1>6, <1>7, <1>8

\* The dispatcher asks at most one builder, and a live event for its fields first.
LEMMA DispatchIsSound ==
    ASSUME NEW e PROVE Sound(Rules!Dispatch(e), Fillable(e))
  <1>a. {} \subseteq Fillable(e) /\ Rules!SaleFacts(e) \subseteq Fillable(e)
    BY DEF Fillable, Rules!SaleFacts
  <1>1. Sound(Rules!run_procurement_cascade(e), Fillable(e))
           /\ Sound(Rules!run_sales_cascade(e), Fillable(e))
           /\ Sound(Rules!run_catalog_price_check(e), Fillable(e))
           /\ Sound(Rules!run_expiry_risk_check(e), Fillable(e))
              /\ Sound(Rules!run_recall_cascade(e), Fillable(e))
           /\ Sound(Rules!run_inventory_exception_cascade(e), Fillable(e))
    BY <1>a, BuildersAreSound, SoundWidens
  <1>2. CASE e.domain = "other"
    BY <1>2, NoDecisionIsSound DEF Rules!Dispatch
  <1>3. CASE e.domain # "other" /\ e.type = "recall_notice"
    BY <1>1, <1>3 DEF Rules!Dispatch
  <1>4. CASE e.domain # "other" /\ e.type = "inventory_exception"
    BY <1>1, <1>4 DEF Rules!Dispatch
  <1>5. CASE e.domain # "other" /\ e.type = "expiry_entry"
    BY <1>1, <1>5 DEF Rules!Dispatch
  <1>6. CASE e.domain # "other" /\ e.type = "sale"
    BY <1>1, <1>6, NoDecisionIsSound DEF Rules!Dispatch
  <1>7. CASE e.domain # "other" /\ e.type \in {"scan", "cold_chain_alert"}
    <2>1. CASE Rules!MissingContext(e)
      BY <1>7, <2>1, NoDecisionIsSound DEF Rules!Dispatch
    <2>2. CASE ~ Rules!MissingContext(e) /\ e.type = "scan"
      <3>1. Sound(Rules!run_golden_cascade(e), Fillable(e))
        BY <2>2, StoriesAreFillable, BuildersAreSound, SoundWidens
      <3> QED
        BY <1>7, <2>2, <3>1 DEF Rules!Dispatch
    <2>3. CASE ~ Rules!MissingContext(e) /\ e.type = "cold_chain_alert"
      <3>1. Sound(Rules!run_cold_chain_cascade(e), Fillable(e))
        BY <2>3, StoriesAreFillable, BuildersAreSound, SoundWidens
      <3> QED
        BY <1>7, <2>3, <3>1 DEF Rules!Dispatch
    <2> QED
      BY <1>7, <2>1, <2>2, <2>3
  <1>8. CASE e.domain # "other" /\ e.type = "supplier_update"
    BY <1>1, <1>8 DEF Rules!Dispatch
  <1>9. CASE /\ e.domain # "other"
             /\ e.type \notin {"recall_notice", "inventory_exception", "expiry_entry", "sale", "scan",
                               "cold_chain_alert", "supplier_update"}
    BY <1>9, NoDecisionIsSound DEF Rules!Dispatch
  <1> QED
    BY <1>2, <1>3, <1>4, <1>5, <1>6, <1>7, <1>8, <1>9

\* A result is what the dispatcher made of the event.
RulesInv ==
    /\ event \in Rules!Events
    /\ result # None => Sound(result, Fillable(event))

\* The deterministic cascades decide consistently, whatever the facts and the event say.
THEOREM CascadesDecideConsistently == Rules!Spec => []VerdictIsConsistent
  <1>1. Rules!Init => RulesInv
    BY DEF Rules!Init, RulesInv
  <1>2. RulesInv /\ [Rules!Next]_(Rules!vars) => RulesInv'
    <2> SUFFICES ASSUME RulesInv, [Rules!Next]_(Rules!vars) PROVE RulesInv'
      OBVIOUS
    <2>1. CASE UNCHANGED Rules!vars
      BY <2>1 DEF RulesInv, Rules!vars, Sound, Consistent, Fillable
    <2>2. CASE Rules!Next
      <3>1. event' = event /\ Sound(result', Fillable(event))
        BY <2>2, DispatchIsSound, NoDecisionIsSound DEF Rules!Next, Rules!Run
      <3> QED
        BY <3>1 DEF RulesInv, Sound, Consistent, Fillable
    <2> QED
      BY <2>1, <2>2
  <1>3. RulesInv => VerdictIsConsistent
    <2> SUFFICES ASSUME RulesInv PROVE VerdictIsConsistent
      OBVIOUS
    <2>1. Rules!TypeOK
      BY DEF RulesInv, Rules!TypeOK, Sound, Fillable
    <2>2. Rules!VerdictIsConsistent
      BY DEF RulesInv, Rules!VerdictIsConsistent, Sound, Consistent
    <2>3. Rules!LiveFieldsArePresent
      BY DEF RulesInv, Rules!LiveFieldsArePresent, Sound, Fillable
    <2> QED
      BY <2>1, <2>2, <2>3 DEF VerdictIsConsistent
  <1> QED
    BY <1>1, <1>2, <1>3, PTL DEF Rules!Spec

-----------------------------------------------------------------------------
(* The chat and its memory (ChatMemory). *)

\* A request's record, whatever its fields hold.
Rec(p) ==
    p = [pc |-> p.pc, serial |-> p.serial, of |-> p.of, domain |-> p.domain, tries |-> p.tries,
         todo |-> p.todo, text |-> p.text, history |-> p.history, shown |-> p.shown, answer |-> p.answer]

\* Where a request holds the conversation's lock, and where it works on an accepted
\* message under it.
Busy == {"check", "compact", "extract", "reply", "append", "respond"}
Served == {"compact", "extract", "reply", "append"}

\* The item a correction becomes, and the corrections among these turns that are none yet.
Item(m) == [kind |-> "correction", of |-> m]
Missing(covers) == {m \in Corrections : Chat!Asked(m) \in Chat!ToSet(covers) /\ Item(m) \notin items}

\* A message that the transcript does not hold.
Fresh(m) == \A i \in DOMAIN Chat!Transcript : Chat!Transcript[i].of # m

\* What a prompt quotes is current, and whole unless its manifest says otherwise.
Shown(shown) ==
    /\ \E n \in 0 .. Chat!MAX_LIST_ITEMS : shown.turns = Chat!FirstItems(Chat!Ids(Chat!Recent), n)
    /\ Chat!Older # <<>> =>
          \E n \in 0 .. MAX_FIELD_LINES :
             shown.lines = Chat!FirstLines(Chat!SummaryText(Chat!Ids(Chat!Older)), n)
    /\ ~ shown.truncated =>
          /\ shown.turns = Chat!Ids(Chat!Recent)
          /\ Chat!Older # <<>> =>
                shown.lines = Chat!FirstLines(Chat!SummaryText(Chat!Ids(Chat!Older)), MAX_FIELD_LINES)

\* What a request that holds the lock has reached.
Serving(p) ==
    /\ p.pc \in Busy \cup {"lock"} =>
          p.of \in Messages /\ p.domain \in Chat!Domains /\ p.serial \in Chat!Replies
    /\ p.pc \in Served => /\ Fresh(p.of)
                          /\ conversation # None => conversation.domain = p.domain
                          /\ p.history = Chat!Ids(Chat!Recent)
    /\ p.pc = "extract" =>
          /\ summaries = {Chat!Ids(Chat!Older)} /\ p.text = Chat!SummaryText(Chat!Ids(Chat!Older))
          /\ p.todo \subseteq [at : Nat, kind : {"objective", "correction"}, of : Messages]
          /\ \A m \in Missing(Chat!Ids(Chat!Older)) : \E x \in p.todo : x.kind = "correction"
             /\ x.of = m
    /\ p.pc = "reply" => (Chat!Older # <<>> => p.text = Chat!SummaryText(Chat!Ids(Chat!Older)))
    /\ p.pc = "append" =>
          /\ Shown(p.shown)
          /\ (p.domain = "operational_twin"
                /\ "live_facts" \in Chat!plan_retrieval(TermsOf[p.of], conversation # None))
                => p.answer # "world"
    /\ p.pc \in {"reply", "append"} => (Chat!Ids(Chat!Older) \notin cut
       => Missing(Chat!Ids(Chat!Older)) = {})
    /\ p.pc = "respond" =>
          p.of \in trimmed \/ \E prior \in Chat!answer_for_message(p.of) : prior.reply = p.serial

\* The transcript: every question is followed by its answer, none is there twice, and all
\* are about the conversation's data source.
Paired(s) ==
    \A i \in DOMAIN s : s[i].role = "user" =>
        i + 1 \in DOMAIN s /\ s[i + 1].role = "assistant" /\ s[i + 1].of = s[i].of
\* No message is there twice from one role.
Distinct(s) == \A i, j \in DOMAIN s : Chat!Id(s[i]) = Chat!Id(s[j]) => i = j
OneDomain == \A i \in DOMAIN Chat!Transcript : Chat!Transcript[i].domain = conversation.domain

\* Every answer given is on the transcript, or fell off it.
HeardIsKept ==
    \A h \in heard : h.of \notin trimmed =>
        \E prior \in Chat!answer_for_message(h.of) : prior.reply = h.reply

\* A summary nobody is extracting from has had its corrections extracted, or was cut.
SummariesAreExtracted ==
    (\A r \in Requests : ~ Chat!At(r, "extract")) => \A s \in summaries : s \notin cut
       => Missing(s) = {}

\* The inductive invariant.
ChatInv ==
    /\ Chat!TypeOK
    /\ \A r \in Requests : Rec(request[r]) /\ request[r].pc \in Busy \cup {"idle", "lock"}
    /\ DOMAIN request = Requests
    /\ \A r \in Requests : request[r].pc \in Busy <=> holder = r
    /\ \A r \in Requests : Serving(request[r])
    /\ Paired(Chat!Transcript) /\ Distinct(Chat!Transcript) /\ OneDomain
    /\ HeardIsKept /\ SummariesAreExtracted
    /\ \A s, t \in summaries : s = t

\* While one request holds the lock, no other is beyond waiting for it.
LEMMA OthersWait ==
    ASSUME ChatInv, NEW r \in Requests, request[r].pc \in Busy
    PROVE  /\ holder = r
           /\ \A q \in Requests : q # r => request[q].pc \in {"idle", "lock"}
  BY DEF ChatInv

\* A request that waits relies on nothing but its own message.
LEMMA WaitingServed ==
    ASSUME NEW p, p.pc \in {"idle", "lock"},
           p.pc = "lock" => p.of \in Messages /\ p.domain \in Chat!Domains /\ p.serial \in Chat!Replies
    PROVE  Serving(p)'
  BY DEF Serving, Busy, Served

\* A request that is not there has a whole record.
LEMMA IdleRecord == Rec(Chat!Idle) /\ Chat!Idle.pc = "idle"
  BY DEF Rec, Chat!Idle

\* The older turns are a prefix of the transcript.
LEMMA OlderParts ==
    ASSUME Chat!ChatAssumption, Chat!TypeOK
    PROVE  /\ Chat!Transcript \in Seq(Chat!Entry) /\ Chat!Older \in Seq(Chat!Entry)
           /\ \A i \in DOMAIN Chat!Older : i \in DOMAIN Chat!Transcript
              /\ Chat!Older[i] = Chat!Transcript[i]
  <1>1. Chat!Transcript \in Seq(Chat!Entry) /\ RECENT_WINDOW \in Nat \ {0}
    BY DEF Chat!TypeOK, Chat!Transcript, Chat!Conversation, Chat!ChatAssumption
  <1>2. CASE Len(Chat!Transcript) > RECENT_WINDOW
    <2>1. Chat!Older = SubSeq(Chat!Transcript, 1, Len(Chat!Transcript) - RECENT_WINDOW)
      BY <1>2 DEF Chat!Older
    <2>2. Len(Chat!Transcript) \in Nat /\ 1 \in 1 .. Len(Chat!Transcript) + 1
             /\ Len(Chat!Transcript) - RECENT_WINDOW \in 0 .. Len(Chat!Transcript)
      BY <1>1, <1>2, LenProperties
    <2>3. /\ Chat!Older \in Seq(Chat!Entry) /\ Len(Chat!Older) = Len(Chat!Transcript) - RECENT_WINDOW
          /\ \A i \in 1 .. Len(Chat!Older) : Chat!Older[i] = Chat!Transcript[i]
      BY <1>1, <2>1, <2>2, SubSeqProperties
    <2> QED
      BY <1>1, <2>2, <2>3, LenProperties
  <1>3. CASE ~ (Len(Chat!Transcript) > RECENT_WINDOW)
    BY <1>1, <1>3, EmptySeq DEF Chat!Older
  <1> QED
    BY <1>1, <1>2, <1>3

\* The steps of the request that holds the lock, as far as they change its record only.
LEMMA HolderStep ==
    ASSUME ChatInv, NEW r \in Requests, request[r].pc \in Busy, NEW p, Rec(p), p.pc \in Busy,
           request' = [request EXCEPT ![r] = p],
           UNCHANGED <<conversation, summaries, items, holder, sent, heard, trimmed, cut>>,
           Serving(p),
           \/ request[r].pc # "extract" \/ p.pc = "extract"
           \/ \A s \in summaries : s \notin cut => Missing(s) = {}
    PROVE  ChatInv'
  <1>1. request'[r] = p /\ DOMAIN request' = Requests
           /\ \A q \in Requests : q # r => request'[q] = request[q]
    BY DEF ChatInv
  <1>2. holder = r /\ \A q \in Requests : q # r => request[q].pc \in {"idle", "lock"}
    BY OthersWait
  <1>3. Chat!TypeOK' /\ Paired(Chat!Transcript)' /\ Distinct(Chat!Transcript)' /\ OneDomain'
           /\ (\A s, t \in summaries : s = t)'
    BY DEF ChatInv, Chat!TypeOK, Chat!Transcript, OneDomain, Paired, Distinct
  <1>4. HeardIsKept'
    BY DEF ChatInv, HeardIsKept, Chat!answer_for_message, Chat!Transcript
  <1>5. Serving(p)'
    BY DEF Serving, Shown, Fresh, Chat!Transcript, Chat!Recent, Chat!Older, Missing, Chat!answer_for_message
  <1>6. \A q \in Requests : Rec(request[q])' /\ request'[q].pc \in Busy \cup {"idle", "lock"}
           /\ (request'[q].pc \in Busy <=> holder' = q) /\ Serving(request[q])'
    <2> TAKE q \in Requests
    <2>1. CASE q = r
      BY <1>1, <1>2, <1>5, <2>1
    <2>2. CASE q # r
      <3>1. request'[q] = request[q] /\ Rec(request[q]) /\ Serving(request[q])
               /\ request[q].pc \in {"idle", "lock"} /\ holder # q
        BY <1>1, <1>2, <2>2 DEF ChatInv
      <3>2. Serving(request[q])'
        BY <3>1, WaitingServed DEF Serving
      <3> QED
        BY <3>1, <3>2 DEF Rec, Busy
    <2> QED
      BY <2>1, <2>2
  <1>7. SummariesAreExtracted'
    <2>1. \A s : Missing(s)' = Missing(s)
      BY DEF Missing
    <2>2. CASE \A s \in summaries : s \notin cut => Missing(s) = {}
      BY <2>1, <2>2 DEF SummariesAreExtracted
    <2>3. CASE request[r].pc # "extract" \/ p.pc = "extract"
      BY <1>1, <2>1, <2>3 DEF ChatInv, SummariesAreExtracted, Chat!At
    <2> QED
      BY <2>2, <2>3
  <1> QED
    BY <1>1, <1>3, <1>4, <1>6, <1>7 DEF ChatInv

\* The lock is given back, whatever became of the request.
LEMMA ReleaseStep ==
    ASSUME ChatInv, NEW r \in Requests, request[r].pc \in Busy, holder' = None,
           None \notin Requests, request' = [request EXCEPT ![r] = Chat!Idle],
           UNCHANGED <<conversation, summaries, items, sent, trimmed>>,
           HeardIsKept', SummariesAreExtracted'
    PROVE  ChatInv'
  <1>1. request'[r] = Chat!Idle /\ DOMAIN request' = Requests
           /\ \A q \in Requests : q # r => request'[q] = request[q]
    BY DEF ChatInv
  <1>2. \A q \in Requests : q # r => request[q].pc \in {"idle", "lock"}
    BY OthersWait
  <1>3. Chat!TypeOK' /\ Paired(Chat!Transcript)' /\ Distinct(Chat!Transcript)' /\ OneDomain'
           /\ (\A s, t \in summaries : s = t)'
    BY DEF ChatInv, Chat!TypeOK, Chat!Transcript, OneDomain, Paired, Distinct
  <1>4. \A q \in Requests : Rec(request[q])' /\ request'[q].pc \in {"idle", "lock"}
           /\ Serving(request[q])'
    <2> TAKE q \in Requests
    <2>1. CASE q = r
      BY <1>1, <2>1, IdleRecord, WaitingServed DEF Rec
    <2>2. CASE q # r
      <3>1. request'[q] = request[q] /\ Rec(request[q]) /\ Serving(request[q])
               /\ request[q].pc \in {"idle", "lock"}
        BY <1>1, <1>2, <2>2 DEF ChatInv
      <3>2. Serving(request[q])'
        BY <3>1, WaitingServed DEF Serving
      <3> QED
        BY <3>1, <3>2 DEF Rec
    <2> QED
      BY <2>1, <2>2
  <1>5. \A q \in Requests : request'[q].pc \in Busy <=> holder' = q
    BY <1>4 DEF Busy
  <1> QED
    BY <1>1, <1>3, <1>4, <1>5 DEF ChatInv, Busy

\* A refusal leaves the summary as extracted as it was: a request that extracts never refuses.
LEMMA RefuseKept ==
    ASSUME Chat!ChatAssumption, ChatInv, NEW r \in Requests, request[r].pc \in Busy \ {"extract"},
           Chat!Refuse(r)
    PROVE  ChatInv'
  <1>1. HeardIsKept'
    BY DEF ChatInv, HeardIsKept, Chat!answer_for_message, Chat!Transcript, Chat!Refuse
  <1>2. \A q \in Requests : request[q].pc # "extract"
    BY OthersWait DEF Busy
  <1>3. SummariesAreExtracted'
    BY <1>2 DEF ChatInv, SummariesAreExtracted, Chat!At, Missing, Chat!Refuse
  <1> QED
    BY <1>1, <1>3, ReleaseStep DEF Chat!Refuse, Chat!ChatAssumption

\* An answer leaves that is on the transcript.
LEMMA RespondKept ==
    ASSUME Chat!ChatAssumption, ChatInv, NEW r \in Requests, request[r].pc \in Busy \ {"extract"},
           NEW reply, NEW replayed, Chat!Respond(r, reply, replayed),
           UNCHANGED <<conversation, summaries, items, sent, trimmed, cut>>,
           \/ request[r].of \in trimmed
           \/ \E prior \in Chat!answer_for_message(request[r].of) : prior.reply = reply
    PROVE  ChatInv'
  <1>1. HeardIsKept'
    <2>1. \A m : Chat!answer_for_message(m)' = Chat!answer_for_message(m)
      BY DEF Chat!answer_for_message, Chat!Transcript
    <2> QED
      BY <2>1 DEF ChatInv, HeardIsKept, Chat!Respond
  <1>2. \A q \in Requests : request[q].pc # "extract"
    BY OthersWait DEF Busy
  <1>3. SummariesAreExtracted'
    BY <1>2 DEF ChatInv, SummariesAreExtracted, Chat!At, Missing
  <1> QED
    BY <1>1, <1>3, ReleaseStep DEF Chat!Respond, Chat!ChatAssumption

\* A message is sent, and a request takes the lock.
LEMMA SendKept ==
    ASSUME Chat!ChatAssumption, ChatInv, NEW r \in Requests, NEW m \in Messages,
           NEW domain \in Chat!Domains,
           Chat!Send(r, m, domain)
    PROVE  ChatInv'
  <1> PICK p : p = [Chat!Idle EXCEPT !.pc = "lock", !.serial = sent + 1, !.of = m, !.domain = domain]
    OBVIOUS
  <1>1. Rec(p) /\ p.pc = "lock" /\ p.of = m /\ p.domain = domain /\ p.serial = sent + 1
    BY DEF Rec, Chat!Idle
  <1>2. p.serial \in Chat!Replies /\ sent' \in 0 .. MaxSent
    BY <1>1 DEF Chat!Send, ChatInv, Chat!TypeOK, Chat!Replies, Chat!ChatAssumption
  <1>3. request' = [request EXCEPT ![r] = p] /\ request[r].pc = "idle"
           /\ UNCHANGED <<conversation, summaries, items, holder, heard, trimmed, cut>>
    BY DEF Chat!Send, Chat!At
  <1>4. request'[r] = p /\ DOMAIN request' = Requests
           /\ \A q \in Requests : q # r => request'[q] = request[q]
    BY <1>3 DEF ChatInv
  <1>5. Chat!TypeOK' /\ Paired(Chat!Transcript)' /\ Distinct(Chat!Transcript)' /\ OneDomain'
           /\ (\A s, t \in summaries : s = t)'
    BY <1>2, <1>3 DEF ChatInv, Chat!TypeOK, Chat!Transcript, OneDomain, Paired, Distinct
  <1>6. HeardIsKept'
    BY <1>3 DEF ChatInv, HeardIsKept, Chat!answer_for_message, Chat!Transcript
  <1>7. ASSUME NEW q \in Requests
        PROVE  Rec(request[q])' /\ request'[q].pc \in Busy \cup {"idle", "lock"}
               /\ (request'[q].pc \in Busy <=> holder' = q) /\ Serving(request[q])'
    <2>1. CASE q = r
      <3>1. Serving(p)'
        BY <1>1, <1>2 DEF Serving, Busy, Served
      <3> QED
        BY <1>1, <1>3, <1>4, <2>1, <3>1 DEF ChatInv, Rec, Busy
    <2>2. CASE q # r
      <3>1. request'[q] = request[q] /\ Serving(request[q])
        BY <1>4, <2>2 DEF ChatInv
      <3>2. Serving(request[q])'
        <4> PICK s : s = request[q]
          OBVIOUS
        <4>1. Serving(s)'
          BY <1>3, <3>1 DEF Serving, Shown, Fresh, Chat!Transcript, Chat!Recent, Chat!Older, Missing,
             Chat!answer_for_message
        <4> QED
          BY <3>1, <4>1
      <3> QED
        BY <1>3, <3>1, <3>2 DEF ChatInv, Rec
    <2> QED
      BY <2>1, <2>2
  <1>8. SummariesAreExtracted'
    <2>1. \A s : Missing(s)' = Missing(s)
      BY <1>3 DEF Missing
    <2> QED
      BY <1>1, <1>3, <1>4, <2>1 DEF ChatInv, SummariesAreExtracted, Chat!At
  <1> QED
    BY <1>4, <1>5, <1>6, <1>7, <1>8 DEF ChatInv

\* Taking the lock changes nothing that is stored.
LEMMA LockedKept ==
    ASSUME Chat!ChatAssumption, ChatInv, NEW r \in Requests, Chat!Locked(r)
    PROVE  ChatInv'
  <1> PICK p : p = [request[r] EXCEPT !.pc = "check"]
    OBVIOUS
  <1>1. Rec(request[r]) /\ request[r].pc = "lock" /\ Serving(request[r])
    BY DEF ChatInv, Chat!Locked, Chat!At
  <1>2. Rec(p) /\ p.pc = "check" /\ p.of = request[r].of /\ p.domain = request[r].domain
           /\ p.serial = request[r].serial
    BY <1>1 DEF Rec
  <1>3. request' = [request EXCEPT ![r] = p] /\ holder = None /\ holder' = r
           /\ UNCHANGED <<conversation, summaries, items, sent, heard, trimmed, cut>>
    BY DEF Chat!Locked, Chat!Move
  <1>4. request'[r] = p /\ DOMAIN request' = Requests
           /\ \A q \in Requests : q # r => request'[q] = request[q]
    BY <1>3 DEF ChatInv
  <1>5. Chat!TypeOK' /\ Paired(Chat!Transcript)' /\ Distinct(Chat!Transcript)' /\ OneDomain'
           /\ (\A s, t \in summaries : s = t)'
    BY <1>3 DEF ChatInv, Chat!TypeOK, Chat!Transcript, OneDomain, Paired, Distinct
  <1>6. HeardIsKept'
    BY <1>3 DEF ChatInv, HeardIsKept, Chat!answer_for_message, Chat!Transcript
  <1>7. ASSUME NEW q \in Requests
        PROVE  Rec(request[q])' /\ request'[q].pc \in Busy \cup {"idle", "lock"}
               /\ (request'[q].pc \in Busy <=> holder' = q) /\ Serving(request[q])'
    <2>1. CASE q = r
      <3>1. Serving(p)'
        BY <1>1, <1>2 DEF Serving, Busy, Served
      <3> QED
        BY <1>2, <1>3, <1>4, <2>1, <3>1 DEF Rec, Busy
    <2>2. CASE q # r
      <3>1. request'[q] = request[q] /\ Serving(request[q]) /\ request[q].pc \in {"idle", "lock"}
        BY <1>3, <1>4, <2>2 DEF ChatInv, Chat!ChatAssumption
      <3>2. Serving(request[q])'
        BY <3>1, WaitingServed DEF Serving
      <3> QED
        BY <1>3, <2>2, <3>1, <3>2 DEF ChatInv, Rec, Busy
    <2> QED
      BY <2>1, <2>2
  <1>8. SummariesAreExtracted'
    <2>1. \A s : Missing(s)' = Missing(s)
      BY <1>3 DEF Missing
    <2> QED
      BY <1>1, <1>3, <1>4, <2>1 DEF ChatInv, SummariesAreExtracted, Chat!At
  <1> QED
    BY <1>4, <1>5, <1>6, <1>7, <1>8 DEF ChatInv

\* A message without an answer on the transcript is not there at all.
LEMMA UnansweredIsFresh ==
    ASSUME Chat!ChatAssumption, ChatInv, NEW m, Chat!answer_for_message(m) = {}
    PROVE  Fresh(m)
  <1>1. Chat!Transcript \in Seq(Chat!Entry) /\ Paired(Chat!Transcript)
    BY OlderParts DEF ChatInv
  <1> SUFFICES ASSUME NEW i \in DOMAIN Chat!Transcript, Chat!Transcript[i].of = m PROVE FALSE
    BY DEF Fresh
  <1>2. Chat!Transcript[i].role \in {"user", "assistant"}
    <2>1. Chat!Transcript[i] \in Chat!Entry
      BY <1>1, ElementOfSeq, LenProperties
    <2> QED
      BY <2>1 DEF Chat!Entry
  <1>3. \E j \in DOMAIN Chat!Transcript : Chat!Transcript[j].role = "assistant"
           /\ Chat!Transcript[j].of = m
    BY <1>1, <1>2 DEF Paired
  <1> QED
    BY <1>3 DEF Chat!answer_for_message

\* A retry is given the stored answer, or refused when it changes the data source.
LEMMA ReplayKept ==
    ASSUME Chat!ChatAssumption, ChatInv, NEW r \in Requests, Chat!Replay(r) \/ Chat!ChangesDomain(r)
    PROVE  ChatInv'
  <1>1. request[r].pc \in Busy \ {"extract"}
    BY DEF Chat!Replay, Chat!ChangesDomain, Chat!At, Busy
  <1>2. CASE Chat!ChangesDomain(r)
    BY <1>1, <1>2, RefuseKept DEF Chat!ChangesDomain
  <1>3. CASE Chat!Replay(r)
    BY <1>1, <1>3, RespondKept DEF Chat!Replay
  <1> QED
    BY <1>2, <1>3

\* A new message is not on the transcript, and is about its data source.
LEMMA AcceptKept ==
    ASSUME Chat!ChatAssumption, ChatInv, NEW r \in Requests, Chat!Accept(r)
    PROVE  ChatInv'
  <1> DEFINE m == request[r].of
             plan == Chat!plan_retrieval(TermsOf[m], conversation # None)
             remembers == conversation # None /\ "conversation_memory" \in plan
             pc == IF remembers /\ Chat!Older # <<>> THEN "compact" ELSE "reply"
             history == IF remembers THEN Chat!Ids(Chat!Recent) ELSE <<>>
  <1> PICK k : k = history
    OBVIOUS
  <1> PICK p : p = [request[r] EXCEPT !.pc = pc, !.history = k]
    OBVIOUS
  <1>1. Rec(request[r]) /\ request[r].pc = "check" /\ Serving(request[r])
    BY DEF ChatInv, Chat!Accept, Chat!At
  <1>2. Rec(p) /\ p.pc = pc /\ p.of = m /\ p.domain = request[r].domain
           /\ p.serial = request[r].serial
           /\ p.history = history
    <2> HIDE DEF pc, history, remembers
    <2> QED
      BY <1>1 DEF Rec
  <1>3. request' = [request EXCEPT ![r] = p] /\ Chat!answer_for_message(m) = {}
           /\ (Chat!existing_domains # {} => request[r].domain \in Chat!existing_domains)
           /\ UNCHANGED <<conversation, summaries, items, holder, sent, heard, trimmed, cut>>
    BY DEF Chat!Accept
  <1>4. Fresh(m)
    BY <1>3, UnansweredIsFresh
  <1>5. conversation # None => conversation.domain = request[r].domain
    BY <1>3 DEF Chat!existing_domains, ChatInv, OneDomain
  <1>6. remembers <=> conversation # None
    BY DEF Chat!plan_retrieval
  <1>7. conversation = None => Chat!Older = <<>> /\ Chat!Ids(Chat!Recent) = <<>>
    <2> SUFFICES ASSUME conversation = None PROVE Chat!Older = <<>>
                        /\ Chat!Ids(Chat!Recent) = <<>>
      OBVIOUS
    <2>1. Chat!Transcript = <<>> /\ Len(Chat!Transcript) = 0 /\ RECENT_WINDOW \in Nat
      BY EmptySeq DEF Chat!Transcript, Chat!ChatAssumption
    <2>2. Chat!Older = <<>>
      BY <2>1 DEF Chat!Older
    <2>3. Chat!Recent = <<>>
      BY <2>1 DEF Chat!Recent
    <2> QED
      BY <2>2, <2>3 DEF Chat!Ids
  <1>8. pc = "reply" => Chat!Older = <<>>
    BY <1>6, <1>7
  <1>9. Chat!Older = <<>> => Missing(Chat!Ids(Chat!Older)) = {}
    BY DEF Missing, Chat!Ids, Chat!ToSet
  <1>10. p.pc \in {"compact", "reply"}
    BY <1>2
  <1>11. p.history = Chat!Ids(Chat!Recent)
    BY <1>2, <1>6, <1>7
  <1> HIDE DEF pc, m, remembers, history
  <1>12. Serving(p)
    BY <1>1, <1>2, <1>4, <1>5, <1>8, <1>9, <1>10, <1>11 DEF Serving, Busy, Served
  <1> QED
    BY <1>1, <1>2, <1>3, <1>10, <1>12, HolderStep DEF Busy

\* The first class items of the older turns hold their corrections.
LEMMA ItemsOfTurns ==
    ASSUME Chat!ChatAssumption, ChatInv
    PROVE  /\ Chat!FirstClassItems(Chat!Older) \subseteq
                 [at : Nat, kind : {"objective", "correction"}, of : Messages]
           /\ \A m \in Missing(Chat!Ids(Chat!Older)) :
                 \E x \in Chat!FirstClassItems(Chat!Older) : x.kind = "correction" /\ x.of = m
  <1>1. Chat!Older \in Seq(Chat!Entry) /\ \A i \in DOMAIN Chat!Older : i \in Nat
           /\ Chat!Older[i] \in Chat!Entry
    BY OlderParts, ElementOfSeq, LenProperties DEF ChatInv
  <1>2. ASSUME NEW x \in Chat!FirstClassItems(Chat!Older)
        PROVE  x \in [at : Nat, kind : {"objective", "correction"}, of : Messages]
    BY <1>1 DEF Chat!FirstClassItems, Chat!Entry
  <1>3. ASSUME NEW m \in Missing(Chat!Ids(Chat!Older))
        PROVE  \E x \in Chat!FirstClassItems(Chat!Older) : x.kind = "correction" /\ x.of = m
    <2>1. m \in Corrections /\ <<m, "user">> \in Chat!ToSet(Chat!Ids(Chat!Older))
      BY DEF Missing, Chat!Asked
    <2>2. PICK i \in DOMAIN Chat!Older : Chat!Ids(Chat!Older)[i] = <<m, "user">>
      BY <2>1 DEF Chat!ToSet, Chat!Ids
    <2>3. Chat!Older[i].of = m /\ Chat!Older[i].role = "user"
      BY <2>2 DEF Chat!Ids, Chat!Id
    <2>4. [at |-> i, kind |-> "correction", of |-> m] \in Chat!FirstClassItems(Chat!Older)
      BY <2>1, <2>3 DEF Chat!FirstClassItems
    <2> QED
      BY <2>4
  <1> QED
    BY <1>2, <1>3

\* The older turns become the one summary, or are it already.
LEMMA CompactKept ==
    ASSUME Chat!ChatAssumption, ChatInv, NEW r \in Requests, Chat!Compact(r)
    PROVE  ChatInv'
  <1> PICK covers : covers = Chat!Ids(Chat!Older)
    OBVIOUS
  <1>1. Rec(request[r]) /\ request[r].pc = "compact" /\ Serving(request[r])
    BY DEF ChatInv, Chat!Compact, Chat!At
  <1>2. Fresh(request[r].of) /\ request[r].history = Chat!Ids(Chat!Recent)
           /\ (conversation # None => conversation.domain = request[r].domain)
           /\ request[r].of \in Messages /\ request[r].domain \in Chat!Domains
           /\ request[r].serial \in Chat!Replies
    BY <1>1 DEF Serving, Busy, Served
  <1>3. holder = r /\ \A q \in Requests : q # r => request[q].pc \in {"idle", "lock"}
    BY <1>1, OthersWait DEF Busy
  <1>4. UNCHANGED <<conversation, items, holder, sent, heard, trimmed, cut>>
    BY DEF Chat!Compact
  <1>5. CASE ~ Chat!SummaryOutdated(covers)
    <2>1. PICK active \in summaries :
             request' = [request EXCEPT ![r].pc = "reply", ![r].text = Chat!SummaryText(active)]
      BY <1>5 DEF Chat!Compact
    <2>2. active = covers /\ covers \in summaries
      BY <1>5 DEF Chat!SummaryOutdated, ChatInv
    <2> PICK p : p = [request[r] EXCEPT !.pc = "reply", !.text = Chat!SummaryText(active)]
      OBVIOUS
    <2>3. Rec(p) /\ p.pc = "reply" /\ p.of = request[r].of /\ p.domain = request[r].domain
             /\ p.serial = request[r].serial /\ p.history = request[r].history
             /\ p.text = Chat!SummaryText(covers)
      BY <1>1, <2>2 DEF Rec
    <2>4. request' = [request EXCEPT ![r] = p] /\ UNCHANGED summaries
      BY <1>1, <1>5, <2>1 DEF Chat!Compact
    <2>5. \A s \in summaries : s \notin cut => Missing(s) = {}
      BY <1>1, <1>3 DEF ChatInv, SummariesAreExtracted, Chat!At
    <2>6. Serving(p)
      BY <1>2, <2>2, <2>3, <2>5 DEF Serving, Busy, Served
    <2> QED
      BY <1>1, <1>4, <2>3, <2>4, <2>5, <2>6, HolderStep DEF Busy
  <1>6. CASE Chat!SummaryOutdated(covers)
    <2> PICK todo : todo = Chat!FirstClassItems(Chat!Older)
      OBVIOUS
    <2> PICK p : p = [request[r] EXCEPT !.pc = "extract", !.todo = todo,
                                        !.text = Chat!SummaryText(covers)]
      OBVIOUS
    <2>1. Rec(p) /\ p.pc = "extract" /\ p.of = request[r].of /\ p.domain = request[r].domain
             /\ p.serial = request[r].serial /\ p.history = request[r].history
             /\ p.todo = todo /\ p.text = Chat!SummaryText(covers)
      BY <1>1 DEF Rec
    <2>2. request' = [request EXCEPT ![r] = p] /\ summaries' = {covers}
      BY <1>1, <1>6 DEF Chat!Compact
    <2>3. request'[r] = p /\ DOMAIN request' = Requests
             /\ \A q \in Requests : q # r => request'[q] = request[q]
      BY <2>2 DEF ChatInv
    <2>4. Chat!Ids(Chat!Older)' = covers /\ Missing(covers)' = Missing(covers)
      BY <1>4 DEF Chat!Older, Chat!Transcript, Missing
    <2>5. Fresh(p.of)' /\ (conversation' # None => conversation'.domain = p.domain)
             /\ p.history = Chat!Ids(Chat!Recent)'
      BY <1>2, <1>4, <2>1 DEF Fresh, Chat!Transcript, Chat!Recent
    <2>6. Serving(p)'
      BY <1>2, <2>1, <2>2, <2>4, <2>5, ItemsOfTurns DEF Serving, Busy, Served
    <2>7. \A q \in Requests : Rec(request[q])' /\ request'[q].pc \in Busy \cup {"idle", "lock"}
             /\ (request'[q].pc \in Busy <=> holder' = q) /\ Serving(request[q])'
      <3> TAKE q \in Requests
      <3>1. CASE q = r
        BY <1>3, <1>4, <2>1, <2>3, <2>6, <3>1 DEF Busy, Rec
      <3>2. CASE q # r
        <4>1. request'[q] = request[q] /\ Rec(request[q]) /\ Serving(request[q])
                 /\ request[q].pc \in {"idle", "lock"} /\ holder # q
          BY <1>3, <2>3, <3>2 DEF ChatInv
        <4>2. Serving(request[q])'
          BY <4>1, WaitingServed DEF Serving
        <4> QED
          BY <1>4, <4>1, <4>2 DEF Rec, Busy
      <3> QED
        BY <3>1, <3>2
    <2>8. SummariesAreExtracted'
      BY <2>1, <2>3 DEF SummariesAreExtracted, Chat!At
    <2>9. Chat!TypeOK' /\ Paired(Chat!Transcript)' /\ Distinct(Chat!Transcript)' /\ OneDomain'
             /\ HeardIsKept'
      BY <1>4 DEF ChatInv, Chat!TypeOK, Chat!Transcript, OneDomain, Paired, Distinct, HeardIsKept,
                  Chat!answer_for_message
    <2> QED
      BY <2>2, <2>3, <2>7, <2>8, <2>9 DEF ChatInv
  <1> QED
    BY <1>5, <1>6

\* The next item is stored.
LEMMA ExtractItemKept ==
    ASSUME Chat!ChatAssumption, ChatInv, NEW r \in Requests, Chat!ExtractItem(r)
    PROVE  ChatInv'
  <1>1. Rec(request[r]) /\ request[r].pc = "extract" /\ Serving(request[r])
    BY DEF ChatInv, Chat!ExtractItem, Chat!At
  <1>2. PICK next \in request[r].todo :
           /\ items' = items \cup {[kind |-> next.kind, of |-> next.of]}
           /\ request' = [request EXCEPT ![r].todo = @ \ {next}]
    BY DEF Chat!ExtractItem
  <1> PICK todo : todo = request[r].todo \ {next}
    OBVIOUS
  <1> PICK p : p = [request[r] EXCEPT !.todo = todo]
    OBVIOUS
  <1>3. Rec(p) /\ p.pc = "extract" /\ p.of = request[r].of /\ p.domain = request[r].domain
           /\ p.serial = request[r].serial /\ p.history = request[r].history
           /\ p.text = request[r].text /\ p.todo = todo
    BY <1>1 DEF Rec
  <1>4. request' = [request EXCEPT ![r] = p]
           /\ UNCHANGED <<conversation, summaries, holder, sent, heard, trimmed, cut>>
    BY <1>1, <1>2 DEF Chat!ExtractItem
  <1>5. request'[r] = p /\ DOMAIN request' = Requests
           /\ \A q \in Requests : q # r => request'[q] = request[q]
    BY <1>4 DEF ChatInv
  <1>6. holder = r /\ \A q \in Requests : q # r => request[q].pc \in {"idle", "lock"}
    BY <1>1, OthersWait DEF Busy
  <1>7. next \in [at : Nat, kind : {"objective", "correction"}, of : Messages]
    BY <1>1, <1>2 DEF Serving
  <1>8. items' \subseteq [kind : {"objective", "correction"}, of : Messages]
    BY <1>2, <1>7 DEF ChatInv, Chat!TypeOK
  <1>9. Chat!Ids(Chat!Older)' = Chat!Ids(Chat!Older)
           /\ Chat!Ids(Chat!Recent)' = Chat!Ids(Chat!Recent)
           /\ \A m : Fresh(m)' = Fresh(m)
    BY <1>4 DEF Chat!Older, Chat!Recent, Fresh, Chat!Transcript
  <1>10. \A m \in Missing(Chat!Ids(Chat!Older))' :
            m \in Missing(Chat!Ids(Chat!Older)) /\ ~ (next.kind = "correction" /\ next.of = m)
    BY <1>2, <1>9 DEF Missing, Item
  <1>11. Serving(p)'
    <2>1. \A m \in Missing(Chat!Ids(Chat!Older))' : \E x \in todo : x.kind = "correction" /\ x.of = m
      BY <1>1, <1>10 DEF Serving
    <2>2. todo \subseteq [at : Nat, kind : {"objective", "correction"}, of : Messages]
      BY <1>1 DEF Serving
    <2> QED
      BY <1>1, <1>3, <1>4, <1>9, <2>1, <2>2 DEF Serving, Busy, Served
  <1>12. \A q \in Requests : Rec(request[q])' /\ request'[q].pc \in Busy \cup {"idle", "lock"}
             /\ (request'[q].pc \in Busy <=> holder' = q) /\ Serving(request[q])'
    <2> TAKE q \in Requests
    <2>1. CASE q = r
      BY <1>3, <1>4, <1>5, <1>6, <1>11, <2>1 DEF Busy, Rec
    <2>2. CASE q # r
      <3>1. request'[q] = request[q] /\ Rec(request[q]) /\ Serving(request[q])
               /\ request[q].pc \in {"idle", "lock"} /\ holder # q
        BY <1>5, <1>6, <2>2 DEF ChatInv
      <3>2. Serving(request[q])'
        BY <3>1, WaitingServed DEF Serving
      <3> QED
        BY <1>4, <3>1, <3>2 DEF Rec, Busy
    <2> QED
      BY <2>1, <2>2
  <1>13. SummariesAreExtracted'
    BY <1>3, <1>5 DEF SummariesAreExtracted, Chat!At
  <1>14. Chat!TypeOK' /\ Paired(Chat!Transcript)' /\ Distinct(Chat!Transcript)' /\ OneDomain'
            /\ HeardIsKept'
            /\ (\A s, t \in summaries : s = t)'
    BY <1>4, <1>8 DEF ChatInv, Chat!TypeOK, Chat!Transcript, OneDomain, Paired, Distinct, HeardIsKept,
                Chat!answer_for_message
  <1> QED
    BY <1>5, <1>12, <1>13, <1>14 DEF ChatInv

\* All items are stored.
LEMMA ExtractedKept ==
    ASSUME Chat!ChatAssumption, ChatInv, NEW r \in Requests, Chat!Extracted(r)
    PROVE  ChatInv'
  <1>1. Rec(request[r]) /\ request[r].pc = "extract" /\ Serving(request[r])
           /\ request[r].todo = {}
    BY DEF ChatInv, Chat!Extracted, Chat!At
  <1> PICK p : p = [request[r] EXCEPT !.pc = "reply"]
    OBVIOUS
  <1>2. Rec(p) /\ p.pc = "reply" /\ p.of = request[r].of /\ p.domain = request[r].domain
           /\ p.serial = request[r].serial /\ p.history = request[r].history
           /\ p.text = request[r].text
    BY <1>1 DEF Rec
  <1>3. request' = [request EXCEPT ![r] = p]
           /\ UNCHANGED <<conversation, summaries, items, holder, sent, heard, trimmed, cut>>
    BY DEF Chat!Extracted, Chat!Move
  <1>4. Missing(Chat!Ids(Chat!Older)) = {} /\ summaries = {Chat!Ids(Chat!Older)}
    BY <1>1 DEF Serving
  <1>5. Serving(p)
    BY <1>1, <1>2, <1>4 DEF Serving, Busy, Served
  <1> QED
    BY <1>1, <1>2, <1>3, <1>4, <1>5, HolderStep DEF Busy

\* The recent turns are as many as the window has room for.
LEMMA RecentFits ==
    ASSUME Chat!ChatAssumption, Chat!TypeOK
    PROVE  /\ Chat!Ids(Chat!Recent) \in Seq(Messages \X {"user", "assistant"})
           /\ Len(Chat!Ids(Chat!Recent)) <= Chat!MAX_LIST_ITEMS
  <1>1. Chat!Transcript \in Seq(Chat!Entry) /\ RECENT_WINDOW \in Nat \ {0} /\ RECENT_WINDOW <= 32
           /\ Len(Chat!Transcript) \in Nat
    BY OlderParts, LenProperties DEF Chat!ChatAssumption, Chat!MAX_LIST_ITEMS
  <1> DEFINE n == Len(Chat!Transcript)
             first == IF n > RECENT_WINDOW THEN n - RECENT_WINDOW + 1 ELSE 1
  <1>2. first \in 1 .. n + 1 /\ n \in first - 1 .. n /\ n - first + 1 <= 32 /\ n - first + 1 \in Nat
    BY <1>1
  <1>3. Chat!Recent = SubSeq(Chat!Transcript, first, n)
    BY DEF Chat!Recent
  <1> HIDE DEF n, first
  <1>4. Chat!Recent \in Seq(Chat!Entry) /\ Len(Chat!Recent) = n - first + 1
    BY <1>1, <1>2, <1>3, SubSeqProperties DEF n
  <1>5. DOMAIN Chat!Recent = 1 .. Len(Chat!Recent) /\ Len(Chat!Recent) \in Nat
           /\ \A i \in DOMAIN Chat!Recent : Chat!Recent[i] \in Chat!Entry
    BY <1>4, LenProperties, ElementOfSeq
  <1>6. \A i \in 1 .. Len(Chat!Recent) :
           Chat!Id(Chat!Recent[i]) \in Messages \X {"user", "assistant"}
    BY <1>5 DEF Chat!Id, Chat!Entry
  <1>7. Chat!Ids(Chat!Recent) = [i \in 1 .. Len(Chat!Recent) |-> Chat!Id(Chat!Recent[i])]
    BY <1>5 DEF Chat!Ids
  <1>8. Chat!Ids(Chat!Recent) \in Seq(Messages \X {"user", "assistant"})
           /\ Len(Chat!Ids(Chat!Recent)) = Len(Chat!Recent)
    BY <1>5, <1>6, <1>7, IsASeq, LenProperties
  <1> QED
    BY <1>2, <1>4, <1>8 DEF Chat!MAX_LIST_ITEMS

\* What is not longer than the room there is, is cut to itself.
LEMMA CutToItself ==
    ASSUME NEW n \in Nat, NEW room \in Nat, n <= room
    PROVE  n = IF n < room THEN n ELSE room
  OBVIOUS

\* What assembling the prompt leaves of the turns and of the summary is current, and says
\* whether it is whole (assemble_context).
LEMMA AssembledShows ==
    ASSUME Chat!ChatAssumption, Chat!TypeOK, NEW text,
           Chat!Older # <<>> => text = Chat!SummaryText(Chat!Ids(Chat!Older)),
           NEW shown \in Chat!assemble_context(Chat!Ids(Chat!Recent), text)
    PROVE  Shown(shown)
  <1> DEFINE turns == Chat!Ids(Chat!Recent)
  <1>1. MAX_FIELD_LINES \in Nat \ {0}
    BY DEF Chat!ChatAssumption
  <1>2. PICK cuts \in Chat!Cuts, pruned \in BOOLEAN :
           shown = [turns |-> Chat!FirstItems(turns, cuts.items),
                    lines |-> Chat!FirstLines(text, cuts.lines),
                    truncated |-> cuts.items # Chat!MAX_LIST_ITEMS \/ pruned]
    BY DEF Chat!assemble_context
  <1>3. cuts.items \in 0 .. Chat!MAX_LIST_ITEMS /\ cuts.lines \in 0 .. MAX_FIELD_LINES
           /\ (cuts.items = Chat!MAX_LIST_ITEMS => cuts.lines = MAX_FIELD_LINES)
    BY <1>1 DEF Chat!Cuts, Chat!MAX_LIST_ITEMS
  <1>4. Chat!FirstItems(turns, Chat!MAX_LIST_ITEMS) = turns
    <2> PICK t : t = turns
      OBVIOUS
    <2>1. t \in Seq(Messages \X {"user", "assistant"}) /\ Len(t) <= Chat!MAX_LIST_ITEMS
      BY RecentFits
    <2>2. SubSeq(t, 1, Len(t)) = t
      BY <2>1
    <2>3. Len(t) = IF Len(t) < Chat!MAX_LIST_ITEMS THEN Len(t) ELSE Chat!MAX_LIST_ITEMS
      <3> PICK n : n = Len(t)
        OBVIOUS
      <3>1. n \in Nat /\ n <= Chat!MAX_LIST_ITEMS
        BY <2>1, LenProperties
      <3> QED
        BY <3>1, CutToItself DEF Chat!MAX_LIST_ITEMS
    <2>4. Chat!FirstItems(t, Chat!MAX_LIST_ITEMS) = SubSeq(t, 1, Len(t))
      BY <2>3 DEF Chat!FirstItems
    <2> QED
      BY <2>2, <2>4
  <1> QED
    BY <1>2, <1>3, <1>4 DEF Shown

\* An attempt fails, or there is an answer: it is made from what the request gathered, and
\* one about the live store is not made from the simulated world.
LEMMA ReplyKept ==
    ASSUME Chat!ChatAssumption, ChatInv, NEW r \in Requests, Chat!ModelAnswers(r) \/ Chat!FallsBack(r)
    PROVE  ChatInv'
  <1>1. PICK grounds : Chat!Reply(r, grounds)
           /\ (grounds = Chat!Grounding(r)
              \/ grounds = IF Chat!Grounding(r) = "twin" THEN "none" ELSE Chat!Grounding(r))
    BY DEF Chat!ModelAnswers, Chat!FallsBack
  <1>2. Rec(request[r]) /\ request[r].pc = "reply" /\ Serving(request[r])
    BY <1>1 DEF ChatInv, Chat!Reply, Chat!At
  <1>3. PICK shown \in Chat!assemble_context(request[r].history, request[r].text) :
           request' = [request EXCEPT ![r].pc = "append", ![r].shown = shown,
                                      ![r].answer = grounds]
    BY <1>1 DEF Chat!Reply
  <1> PICK p : p = [request[r] EXCEPT !.pc = "append", !.shown = shown,
                                      !.answer = grounds]
    OBVIOUS
  <1>4. Rec(p) /\ p.pc = "append" /\ p.of = request[r].of /\ p.domain = request[r].domain
           /\ p.serial = request[r].serial /\ p.history = request[r].history /\ p.shown = shown
           /\ p.answer = grounds
    BY <1>2 DEF Rec
  <1>5. request' = [request EXCEPT ![r] = p]
           /\ UNCHANGED <<conversation, summaries, items, holder, sent, heard, trimmed, cut>>
    BY <1>1, <1>2, <1>3 DEF Chat!Reply
  <1>6. (p.domain = "operational_twin"
            /\ "live_facts" \in Chat!plan_retrieval(TermsOf[p.of], conversation # None))
               => p.answer # "world"
    BY <1>1, <1>4 DEF Chat!Grounding, Chat!Plan
  <1>7. Shown(shown)
    <2>1. Chat!TypeOK /\ request[r].history = Chat!Ids(Chat!Recent)
             /\ (Chat!Older # <<>> => request[r].text = Chat!SummaryText(Chat!Ids(Chat!Older)))
      BY <1>2 DEF ChatInv, Serving, Served
    <2> PICK text : text = request[r].text
      OBVIOUS
    <2>2. shown \in Chat!assemble_context(Chat!Ids(Chat!Recent), text)
      BY <1>3, <2>1
    <2> QED
      BY <2>1, <2>2, AssembledShows
  <1>8. Serving(p)
    BY <1>2, <1>4, <1>6, <1>7 DEF Serving, Busy, Served
  <1> QED
    BY <1>2, <1>4, <1>5, <1>8, HolderStep DEF Busy

\* A failed attempt only counts.
LEMMA AttemptKept ==
    ASSUME Chat!ChatAssumption, ChatInv, NEW r \in Requests, Chat!AttemptFails(r)
    PROVE  ChatInv'
  <1>1. Rec(request[r]) /\ request[r].pc = "reply" /\ Serving(request[r])
    BY DEF ChatInv, Chat!AttemptFails, Chat!At
  <1> PICK p : p = [request[r] EXCEPT !.tries = @ + 1]
    OBVIOUS
  <1>2. Rec(p) /\ p.pc = "reply" /\ p.of = request[r].of /\ p.domain = request[r].domain
           /\ p.serial = request[r].serial /\ p.history = request[r].history
           /\ p.text = request[r].text
    BY <1>1 DEF Rec
  <1>3. request' = [request EXCEPT ![r] = p]
           /\ UNCHANGED <<conversation, summaries, items, holder, sent, heard, trimmed, cut>>
    BY <1>1 DEF Chat!AttemptFails
  <1>4. Serving(p)
    BY <1>1, <1>2 DEF Serving, Busy, Served
  <1> QED
    BY <1>1, <1>2, <1>3, <1>4, HolderStep DEF Busy

\* M is T with a question that T does not hold and its answer appended, and k entries trimmed.
Exchange(T, u, a, k, M) ==
    /\ T \in Seq(Chat!Entry) /\ Paired(T) /\ Distinct(T) /\ \A i \in DOMAIN T : T[i].of # u.of
    /\ u \in Chat!Entry /\ a \in Chat!Entry /\ u.role = "user" /\ a.role = "assistant" /\ u.of = a.of
    /\ k \in 0 .. Len(T) + 1
    /\ M = SubSeq(T \o <<u, a>>, k + 1, Len(T \o <<u, a>>))

\* What such an M keeps of T.
Appended(T, u, a, k, M) ==
    /\ \A i \in DOMAIN T : (T \o <<u, a>>)[i] = T[i]
    /\ M \in Seq(Chat!Entry) /\ Len(M) = Len(T) + 2 - k /\ Paired(M) /\ Distinct(M)
    /\ \A i \in DOMAIN M : M[i] \in {u, a} \/ \E j \in DOMAIN T : M[i] = T[j]
    /\ \A j \in DOMAIN T : j \notin 1 .. k => \E i \in DOMAIN M : M[i] = T[j]
    /\ \E i \in DOMAIN M : M[i] = a

\* The trimmed transcript is a transcript again, and lost nothing but its first k entries.
LEMMA ExchangeAppended ==
    ASSUME NEW T, NEW u, NEW a, NEW k, NEW M, Exchange(T, u, a, k, M)
    PROVE  Appended(T, u, a, k, M)
  <1> PICK ext : ext = T \o <<u, a>>
    OBVIOUS
  <1>0. /\ T \in Seq(Chat!Entry) /\ Paired(T) /\ Distinct(T) /\ \A i \in DOMAIN T : T[i].of # u.of
        /\ u \in Chat!Entry /\ a \in Chat!Entry /\ u.role = "user" /\ a.role = "assistant"
           /\ u.of = a.of
        /\ k \in 0 .. Len(T) + 1
        /\ M = SubSeq(ext, k + 1, Len(ext))
    BY DEF Exchange
  <1>1. Len(T) \in Nat /\ DOMAIN T = 1 .. Len(T) /\ <<u, a>> \in Seq(Chat!Entry) /\ Len(<<u, a>>) = 2
    BY <1>0, LenProperties
  <1>2. /\ ext \in Seq(Chat!Entry) /\ Len(ext) = Len(T) + 2 /\ DOMAIN ext = 1 .. Len(T) + 2
        /\ \A i \in 1 .. Len(T) : ext[i] = T[i]
        /\ ext[Len(T) + 1] = u /\ ext[Len(T) + 2] = a
    BY <1>0, <1>1, ConcatProperties, LenProperties
  <1>3. Len(ext) \in Nat /\ k + 1 \in 1 .. Len(ext) + 1 /\ Len(ext) \in k + 1 - 1 .. Len(ext)
    BY <1>0, <1>1, <1>2
  <1>4. /\ M \in Seq(Chat!Entry) /\ Len(M) = Len(T) + 2 - k /\ DOMAIN M = 1 .. Len(T) + 2 - k
        /\ \A i \in 1 .. Len(T) + 2 - k : M[i] = ext[k + i]
    <2>1. /\ M \in Seq(Chat!Entry) /\ Len(M) = Len(ext) - (k + 1) + 1
          /\ \A i \in 1 .. Len(ext) - (k + 1) + 1 : M[i] = ext[(k + 1) + i - 1]
      BY <1>0, <1>2, <1>3, SubSeqProperties
    <2>2. Len(M) = Len(T) + 2 - k /\ DOMAIN M = 1 .. Len(M)
      BY <1>0, <1>1, <1>2, <2>1, LenProperties
    <2>3. Len(ext) - (k + 1) + 1 = Len(T) + 2 - k
      BY <1>0, <1>1, <1>2
    <2>4. ASSUME NEW i \in 1 .. Len(T) + 2 - k PROVE M[i] = ext[k + i]
      <3>1. M[i] = ext[(k + 1) + i - 1]
        BY <2>1, <2>3
      <3>2. (k + 1) + i - 1 = k + i
        BY <1>0, <1>1
      <3> QED
        BY <3>1, <3>2
    <2> QED
      BY <2>1, <2>2, <2>4
  <1> DEFINE n == Len(T)
             L == Len(T) + 2 - k
  <1>n. n \in Nat /\ k \in 0 .. n + 1 /\ L \in Nat /\ L + k = n + 2
           /\ DOMAIN T = 1 .. n /\ DOMAIN ext = 1 .. n + 2 /\ DOMAIN M = 1 .. L
    BY <1>0, <1>1, <1>2, <1>4
  <1>m. \A i \in 1 .. L : M[i] = ext[k + i]
    BY <1>4
  <1> HIDE DEF n, L
  <1>5. \A i \in DOMAIN M : k + i \in DOMAIN ext /\ M[i] = ext[k + i]
    <2> TAKE i \in DOMAIN M
    <2>1. i \in 1 .. L /\ k + i \in 1 .. n + 2
      BY <1>n
    <2> QED
      BY <1>m, <1>n, <2>1
  <1>6. \A i \in DOMAIN ext : i \in DOMAIN T \/ i = Len(T) + 1 \/ i = Len(T) + 2
    BY <1>1, <1>2
  <1>7. Paired(M)
    <2>1. \A i \in DOMAIN ext : ext[i].role = "user" =>
             i + 1 \in DOMAIN ext /\ ext[i + 1].role = "assistant" /\ ext[i + 1].of = ext[i].of
      <3> TAKE i \in DOMAIN ext
      <3>1. CASE i \in DOMAIN T
        BY <1>1, <1>2, <1>0, <3>1 DEF Paired
      <3>2. CASE i = Len(T) + 1
        BY <1>0, <1>1, <1>2, <3>2
      <3>3. CASE i = Len(T) + 2
        BY <1>0, <1>2, <3>3
      <3> QED
        BY <1>6, <3>1, <3>2, <3>3
    <2> SUFFICES ASSUME NEW i \in DOMAIN M, M[i].role = "user"
                 PROVE  i + 1 \in DOMAIN M /\ M[i + 1].role = "assistant" /\ M[i + 1].of = M[i].of
      BY DEF Paired
    <2>2. i \in 1 .. L /\ k + i \in DOMAIN ext /\ M[i] = ext[k + i]
      BY <1>5, <1>n
    <2> DEFINE e == k + i
    <2>3. e \in DOMAIN ext /\ ext[e].role = "user" /\ ext[e].of = M[i].of
      BY <2>2
    <2> HIDE DEF e
    <2>4. e + 1 \in DOMAIN ext /\ ext[e + 1].role = "assistant" /\ ext[e + 1].of = M[i].of
      BY <2>1, <2>3
    <2>5. i + 1 \in DOMAIN M /\ k + (i + 1) = e + 1
      BY <1>n, <2>2, <2>4 DEF e
    <2>6. M[i + 1] = ext[k + (i + 1)]
      BY <1>5, <2>5
    <2> QED
      BY <2>4, <2>5, <2>6
  <1>8. Distinct(M)
    <2>1. \A i, j \in DOMAIN ext : Chat!Id(ext[i]) = Chat!Id(ext[j]) => i = j
      <3> SUFFICES ASSUME NEW i \in DOMAIN ext, NEW j \in DOMAIN ext, ext[i].of = ext[j].of,
                          ext[i].role = ext[j].role
                   PROVE  i = j
        BY DEF Chat!Id
      <3>1. CASE i \in DOMAIN T /\ j \in DOMAIN T
        BY <1>0, <1>1, <1>2, <3>1 DEF Distinct, Chat!Id
      <3>2. CASE i \in DOMAIN T /\ j \notin DOMAIN T
        BY <1>1, <1>2, <1>6, <1>0, <3>2
      <3>3. CASE i \notin DOMAIN T /\ j \in DOMAIN T
        BY <1>1, <1>2, <1>6, <1>0, <3>3
      <3>4. CASE i \notin DOMAIN T /\ j \notin DOMAIN T
        BY <1>1, <1>2, <1>6, <1>0, <3>4
      <3> QED
        BY <3>1, <3>2, <3>3, <3>4
    <2> SUFFICES ASSUME NEW i \in DOMAIN M, NEW j \in DOMAIN M, Chat!Id(M[i]) = Chat!Id(M[j])
                 PROVE i = j
      BY DEF Distinct
    <2>2. k + i \in DOMAIN ext /\ k + j \in DOMAIN ext /\ Chat!Id(ext[k + i]) = Chat!Id(ext[k + j])
      BY <1>5
    <2>3. k + i = k + j
      BY <2>1, <2>2
    <2> QED
      BY <1>n, <2>3
  <1>9. \A i \in DOMAIN M : M[i] \in {u, a} \/ \E j \in DOMAIN T : M[i] = T[j]
    BY <1>1, <1>2, <1>5, <1>6
  <1>10. ASSUME NEW j \in DOMAIN T, j \notin 1 .. k PROVE \E i \in DOMAIN M : M[i] = T[j]
    <2>1. j - k \in DOMAIN M /\ k + (j - k) = j
      BY <1>n, <1>10
    <2>2. M[j - k] = ext[k + (j - k)] /\ ext[j] = T[j]
      BY <1>2, <1>n, <1>5, <2>1 DEF n
    <2> QED
      BY <2>1, <2>2
  <1>11. Len(T) + 2 - k \in DOMAIN M /\ k + (Len(T) + 2 - k) = Len(T) + 2
    BY <1>0, <1>1, <1>4
  <1>12. M[Len(T) + 2 - k] = a
    BY <1>2, <1>5, <1>11
  <1> QED
    BY <1>1, <1>2, <1>4, <1>7, <1>8, <1>9, <1>10, <1>11, <1>12 DEF Appended

\* The exchange is appended: the transcript grows by one answer, and loses its oldest.
LEMMA AppendKept ==
    ASSUME Chat!ChatAssumption, ChatInv, NEW r \in Requests, Chat!AppendExchange(r)
    PROVE  ChatInv'
  <1> PICK m, domain, serial, T : m = request[r].of /\ domain = request[r].domain
             /\ serial = request[r].serial /\ T = Chat!Transcript
    OBVIOUS
  <1> DEFINE u == [of |-> m, role |-> "user", domain |-> domain, reply |-> None]
             a == [of |-> m, role |-> "assistant", domain |-> domain, reply |-> serial]
             ext == T \o <<u, a>>
             k == IF Len(ext) > HISTORY_LIMIT THEN Len(ext) - HISTORY_LIMIT ELSE 0
             M == SubSeq(ext, k + 1, Len(ext))
  <1>1. Rec(request[r]) /\ request[r].pc = "append" /\ Serving(request[r])
    BY DEF ChatInv, Chat!AppendExchange, Chat!At
  <1>2. Fresh(m) /\ m \in Messages /\ domain \in Chat!Domains /\ serial \in Chat!Replies
           /\ (conversation # None => conversation.domain = domain)
    BY <1>1 DEF Serving, Busy, Served
  <1>3. T \in Seq(Chat!Entry) /\ u \in Chat!Entry /\ a \in Chat!Entry /\ Paired(T) /\ Distinct(T)
    BY <1>2, OlderParts DEF ChatInv, Chat!Entry
  <1>4. Len(T) \in Nat /\ Len(ext) = Len(T) + 2 /\ HISTORY_LIMIT \in Nat \ {0}
    BY <1>3, ConcatProperties, LenProperties DEF Chat!ChatAssumption
  <1>5. k \in 0 .. Len(T) + 1 /\ Len(T) + 2 - k <= HISTORY_LIMIT
    BY <1>4
  <1>6. \A i \in DOMAIN T : T[i].of # u.of
    BY <1>2 DEF Fresh
  <1>7. PICK p : p = [request[r] EXCEPT !.pc = "respond", !.shown = None]
    OBVIOUS
  <1>8. Rec(p) /\ p.pc = "respond" /\ p.of = m /\ p.domain = domain /\ p.serial = serial
    BY <1>1, <1>7 DEF Rec
  <1>9. request' = [request EXCEPT ![r] = p] /\ trimmed' = trimmed \cup {ext[i].of : i \in 1 .. k}
           /\ conversation' = [domain |-> IF conversation = None THEN domain ELSE conversation.domain,
                               messages |-> M]
           /\ UNCHANGED <<summaries, items, holder, sent, heard, cut>>
    BY <1>1, <1>7 DEF Chat!AppendExchange
  <1>10. u.role = "user" /\ a.role = "assistant" /\ u.of = m /\ a.of = m /\ a.reply = p.serial
            /\ u.domain = domain /\ a.domain = domain
    BY <1>8
  <1> HIDE DEF u, a, k, ext, M
  <1>11. /\ \A i \in DOMAIN T : ext[i] = T[i]
         /\ M \in Seq(Chat!Entry) /\ Len(M) = Len(T) + 2 - k /\ Paired(M) /\ Distinct(M)
         /\ \A i \in DOMAIN M : M[i] \in {u, a} \/ \E j \in DOMAIN T : M[i] = T[j]
         /\ \A j \in DOMAIN T : j \notin 1 .. k => \E i \in DOMAIN M : M[i] = T[j]
         /\ \E i \in DOMAIN M : M[i] = a
    <2>1. Exchange(T, u, a, k, M)
      BY <1>3, <1>5, <1>6, <1>10 DEF Exchange, ext, M
    <2>2. Appended(T, u, a, k, M)
      BY <2>1, ExchangeAppended
    <2> QED
      BY <2>2 DEF Appended, ext
  <1>12. conversation' \in Chat!Conversation /\ conversation' # None /\ conversation'.domain = domain
            /\ Chat!Transcript' = M
    BY <1>2, <1>9, <1>11 DEF Chat!Conversation, Chat!ChatAssumption, Chat!Transcript
  <1>13. holder = r /\ \A q \in Requests : q # r => request[q].pc \in {"idle", "lock"}
    BY <1>1, OthersWait DEF Busy
  <1>14. request'[r] = p /\ DOMAIN request' = Requests
           /\ \A q \in Requests : q # r => request'[q] = request[q]
    BY <1>9 DEF ChatInv
  <1>15. Chat!TypeOK'
    BY <1>5, <1>9, <1>11, <1>12 DEF ChatInv, Chat!TypeOK
  <1>16. Paired(Chat!Transcript)' /\ Distinct(Chat!Transcript)'
    BY <1>11, <1>12 DEF Paired, Distinct
  <1>17. OneDomain'
    <2>1. \A j \in DOMAIN T : T[j].domain = domain
      <3>1. CASE conversation = None
        BY <3>1, EmptySeq DEF Chat!Transcript
      <3>2. CASE conversation # None
        BY <1>2, <3>2 DEF ChatInv, OneDomain
      <3> QED
        BY <3>1, <3>2
    <2> QED
      BY <1>10, <1>11, <1>12, <2>1 DEF OneDomain
  <1>18. HeardIsKept'
    <2> SUFFICES ASSUME NEW h \in heard, h.of \notin trimmed'
                 PROVE  \E prior \in Chat!answer_for_message(h.of)' : prior.reply = h.reply
      BY <1>9 DEF HeardIsKept
    <2>1. h.of \notin trimmed
      BY <1>9
    <2>2. PICK j \in DOMAIN T : T[j].role = "assistant" /\ T[j].of = h.of /\ T[j].reply = h.reply
      BY <2>1 DEF ChatInv, HeardIsKept, Chat!answer_for_message
    <2>3. j \notin 1 .. k
      BY <1>9, <1>11, <2>2
    <2>4. PICK i \in DOMAIN M : M[i] = T[j]
      BY <1>11, <2>3
    <2> QED
      BY <1>12, <2>2, <2>4 DEF Chat!answer_for_message
  <1>19. Serving(p)'
    <2>1. \E prior \in Chat!answer_for_message(m)' : prior.reply = p.serial
      BY <1>10, <1>11, <1>12 DEF Chat!answer_for_message
    <2>2. \E prior \in Chat!answer_for_message(p.of)' : prior.reply = p.serial
      BY <1>8, <2>1 DEF Chat!answer_for_message
    <2> QED
      BY <1>2, <1>8, <2>2 DEF Serving, Busy, Served
  <1>20. \A q \in Requests : Rec(request[q])' /\ request'[q].pc \in Busy \cup {"idle", "lock"}
             /\ (request'[q].pc \in Busy <=> holder' = q) /\ Serving(request[q])'
    <2> TAKE q \in Requests
    <2>1. CASE q = r
      BY <1>8, <1>9, <1>13, <1>14, <1>19, <2>1 DEF Busy, Rec
    <2>2. CASE q # r
      <3>1. request'[q] = request[q] /\ Rec(request[q]) /\ Serving(request[q])
               /\ request[q].pc \in {"idle", "lock"} /\ holder # q
        BY <1>13, <1>14, <2>2 DEF ChatInv
      <3>2. Serving(request[q])'
        BY <3>1, WaitingServed DEF Serving
      <3> QED
        BY <1>9, <3>1, <3>2 DEF Rec, Busy
    <2> QED
      BY <2>1, <2>2
  <1>21. SummariesAreExtracted'
    <2>1. \A s \in summaries : s \notin cut => Missing(s) = {}
      BY <1>1, <1>13 DEF ChatInv, SummariesAreExtracted, Chat!At
    <2>2. \A s : Missing(s)' = Missing(s)
      BY <1>9 DEF Missing
    <2> QED
      BY <1>9, <2>1, <2>2 DEF SummariesAreExtracted
  <1> QED
    BY <1>9, <1>14, <1>15, <1>16, <1>17, <1>18, <1>20, <1>21 DEF ChatInv

\* A request dies: what it had not extracted of the summary is cut.
LEMMA RequestDies ==
    ASSUME Chat!ChatAssumption, ChatInv, NEW r \in Requests, Chat!Die(r)
    PROVE  ChatInv'
  <1>1. request[r].pc \in Busy
    BY DEF ChatInv, Chat!Die
  <1>2. HeardIsKept'
    BY DEF ChatInv, HeardIsKept, Chat!answer_for_message, Chat!Transcript, Chat!Die
  <1>3. \A s : Missing(s)' = Missing(s)
    BY DEF Missing, Chat!Die
  <1>4. SummariesAreExtracted'
    <2>1. CASE Chat!At(r, "extract")
      BY <2>1 DEF SummariesAreExtracted, Chat!Die
    <2>2. CASE ~ Chat!At(r, "extract")
      <3>1. \A q \in Requests : ~ Chat!At(q, "extract")
        BY <1>1, <2>2, OthersWait DEF Chat!At
      <3> QED
        BY <1>3, <2>2, <3>1 DEF ChatInv, SummariesAreExtracted, Chat!Die
    <2> QED
      BY <2>1, <2>2
  <1> QED
    BY <1>1, <1>2, <1>4, ReleaseStep DEF Chat!Die, Chat!ChatAssumption

\* The answer leaves; or inference failed, and nothing does.
LEMMA AnswerKept ==
    ASSUME Chat!ChatAssumption, ChatInv, NEW r \in Requests, Chat!Answer(r) \/ Chat!InferenceFails(r)
    PROVE  ChatInv'
  <1>1. request[r].pc \in Busy \ {"extract"}
    BY DEF Chat!Answer, Chat!InferenceFails, Chat!At, Busy
  <1>2. CASE Chat!InferenceFails(r)
    BY <1>1, <1>2, RefuseKept DEF Chat!InferenceFails
  <1>3. CASE Chat!Answer(r)
    <2>1. \/ request[r].of \in trimmed
          \/ \E prior \in Chat!answer_for_message(request[r].of) : prior.reply = request[r].serial
      BY <1>3 DEF Chat!Answer, Chat!At, ChatInv, Serving
    <2> QED
      BY <1>1, <1>3, <2>1, RespondKept DEF Chat!Answer
  <1> QED
    BY <1>2, <1>3

\* The inductive invariant of a conversation.
THEOREM ChatInvariance ==
    ASSUME Chat!ChatAssumption PROVE Chat!Spec => []ChatInv
  <1>1. Chat!Init => ChatInv
    <2> SUFFICES ASSUME Chat!Init PROVE ChatInv
      OBVIOUS
    <2>1. Chat!Transcript = <<>> /\ Len(<<>>) = 0 /\ DOMAIN <<>> = {}
      BY EmptySeq DEF Chat!Init, Chat!Transcript
    <2>2. Chat!TypeOK
      BY <2>1 DEF Chat!Init, Chat!TypeOK, Chat!ChatAssumption
    <2>3. Serving(Chat!Idle)
      BY IdleRecord DEF Serving, Busy, Served
    <2>4. DOMAIN request = Requests /\ \A r \in Requests : request[r] = Chat!Idle /\ holder # r
      BY DEF Chat!Init, Chat!ChatAssumption
    <2>5. HeardIsKept /\ SummariesAreExtracted /\ \A s, t \in summaries : s = t
      BY DEF Chat!Init, HeardIsKept, SummariesAreExtracted
    <2> QED
      BY <2>1, <2>2, <2>3, <2>4, <2>5, IdleRecord DEF ChatInv, Busy, Paired, Distinct, OneDomain
  <1>2. ChatInv /\ [Chat!Next]_(Chat!vars) => ChatInv'
    <2> SUFFICES ASSUME ChatInv, [Chat!Next]_(Chat!vars) PROVE ChatInv'
      OBVIOUS
    <2>1. CASE UNCHANGED Chat!vars
      <3>1. UNCHANGED <<conversation, summaries, items, holder, request, sent, heard, trimmed, cut>>
        BY <2>1 DEF Chat!vars
      <3>2. Chat!TypeOK' /\ Paired(Chat!Transcript)' /\ Distinct(Chat!Transcript)' /\ OneDomain'
               /\ HeardIsKept'
               /\ SummariesAreExtracted' /\ (\A s, t \in summaries : s = t)'
        BY <3>1 DEF ChatInv, Chat!TypeOK, Chat!Transcript, OneDomain, Paired, Distinct, HeardIsKept,
                Chat!answer_for_message, SummariesAreExtracted, Missing, Chat!At
      <3>3. ASSUME NEW r \in Requests PROVE Serving(request[r])'
        <4> PICK s : s = request[r]
          OBVIOUS
        <4>1. Serving(s)'
          BY <3>1 DEF ChatInv, Serving, Shown, Fresh, Chat!Transcript, Chat!Recent, Chat!Older, Missing,
                      Chat!answer_for_message
        <4> QED
          BY <3>1, <4>1
      <3> QED
        BY <3>1, <3>2, <3>3 DEF ChatInv, Rec
    <2>2. CASE Chat!Next
      BY <2>2, SendKept, LockedKept, ReplayKept, AcceptKept, CompactKept, ExtractItemKept,
         ExtractedKept, ReplyKept, AttemptKept, AppendKept, AnswerKept, RequestDies DEF Chat!Next
    <2> QED
      BY <2>1, <2>2
  <1> QED
    BY <1>1, <1>2, PTL DEF Chat!Spec

\* A message has one answer, which every retry is given while it is on the transcript:
\* Spec => []OneAnswerPerMessage.
THEOREM ChatIsAnsweredOnce ==
    ASSUME Chat!ChatAssumption PROVE Chat!Spec => []OneAnswerPerMessage
  <1>1. ASSUME ChatInv PROVE Chat!OneAnswerPerMessage
    <2>1. \A i, j \in DOMAIN Chat!Transcript :
             Chat!Id(Chat!Transcript[i]) = Chat!Id(Chat!Transcript[j]) => i = j
      BY <1>1 DEF ChatInv, Distinct
    <2>2. \A h \in heard : h.of \notin trimmed =>
             \E prior \in Chat!answer_for_message(h.of) : prior.reply = h.reply
      BY <1>1 DEF ChatInv, HeardIsKept
    <2>3. ASSUME NEW m, NEW x \in Chat!answer_for_message(m), NEW y \in Chat!answer_for_message(m)
          PROVE x = y
      BY <2>1 DEF Chat!answer_for_message, Chat!Id
    <2>4. \A h, g \in heard : (h.of = g.of /\ h.of \notin trimmed) => h.reply = g.reply
      BY <2>2, <2>3
    <2>5. Cardinality(Chat!existing_domains) <= 1
      <3>1. CASE conversation = None
        BY <3>1, FS_EmptySet DEF Chat!existing_domains
      <3>2. CASE conversation # None
        <4>1. Chat!existing_domains = {conversation.domain}
          BY <1>1, <3>2 DEF ChatInv, OneDomain, Chat!existing_domains
        <4>2. Cardinality(Chat!existing_domains) = 1
          BY <4>1, FS_Singleton
        <4> QED
          BY <4>2
      <3> QED
        BY <3>1, <3>2
    <2> QED
      BY <2>1, <2>2, <2>4, <2>5, OneCardinality DEF Chat!OneAnswerPerMessage
  <1>2. ChatInv => OneAnswerPerMessage
    BY <1>1 DEF ChatInv, OneAnswerPerMessage
  <1> QED
    BY <1>2, ChatInvariance, PTL

\* There is one summary; what a prompt quotes of the turns and of the summary is current,
\* and whole as far as one string has room unless its manifest says that it was cut
\* (assemble_context); the corrections are items by then: Spec => []MemoryIsCurrent.
THEOREM ChatMemoryIsCurrent ==
    ASSUME Chat!ChatAssumption PROVE Chat!Spec => []MemoryIsCurrent
  <1>1. ASSUME ChatInv PROVE MemoryIsCurrent
    <2>1. Cardinality(summaries) <= 1
      <3>1. CASE summaries = {}
        BY <3>1, FS_EmptySet
      <3>2. CASE \E s : s \in summaries
        <4> PICK s : s \in summaries
          BY <3>2
        <4>1. summaries = {s}
          BY <1>1 DEF ChatInv
        <4>2. Cardinality(summaries) = 1
          BY <4>1, FS_Singleton
        <4> QED
          BY <4>2
      <3> QED
        BY <3>1, <3>2
    <2>2. ASSUME NEW r \in Requests, Chat!At(r, "append")
          PROVE  /\ Shown(request[r].shown)
                 /\ Chat!Ids(Chat!Older) \notin cut => Missing(Chat!Ids(Chat!Older)) = {}
                 /\ request[r].domain = "operational_twin" /\ "live_facts" \in Chat!Plan(r)
                      => request[r].answer # "world"
      BY <1>1, <2>2 DEF ChatInv, Chat!At, Serving, Served, Chat!Plan
    <2> QED
      BY <2>1, <2>2, OneCardinality DEF MemoryIsCurrent, Chat!MemoryIsCurrent, Shown, Missing, Item
  <1> QED
    BY <1>1, ChatInvariance, PTL

-----------------------------------------------------------------------------
(* The governed skills (SkillRegistry). *)

\* The evidence on record earns this version its promotion.
Proven(version) == \E e \in EvaluationsOf[version] : Skills!Earned(version, e)

\* A request under way: what it read and what it is about.
Deciding(t) ==
    \/ job[t].op = "none" /\ job[t] = Skills!Free
    \/ /\ job[t].op = "promote" /\ job[t].at \in {"judge", "reread"}
       /\ job[t].seen \in Skills!Manifest /\ job[t].seen.status # "retired"
       /\ job[t].of \in EvaluationsOf[job[t].seen.version]
    \/ /\ job[t].op = "promote" /\ job[t].at = "write"
       /\ job[t].seen \in Skills!Manifest /\ job[t].of \in Skills!Owners /\ skill[job[t].of] # None
    \/ /\ job[t].op = "retire"
       /\ job[t].seen \in Skills!Manifest /\ job[t].of \in Skills!Owners /\ skill[job[t].of] # None
    \/ job[t].op = "evaluate" /\ job[t].seen \in Skills!Evaluation /\ job[t].of \in Evaluations

\* A promotion that was judged still finds the tenant's draft it was judged for, or none.
Judged(t) ==
    job[t].op = "promote" =>
      /\ (job[t].at \in {"judge", "reread"} /\ job[t].seen.status = "draft") =>
            /\ skill["tenant"] # None
            /\ skill["tenant"].status = "draft" => skill["tenant"].version = job[t].seen.version
      /\ job[t].at = "reread" =>
            job[t].seen.status = "draft" /\ Skills!Earned(job[t].seen.version, job[t].of)
      /\ job[t].at = "write" =>
            /\ skill["tenant"] # None
            /\ skill["tenant"].status = "draft" => Proven(job[t].seen.version)

\* A request's record.
Operations == {"none", "promote", "retire", "evaluate"}
OpStages == {"none", "judge", "reread", "write"}
Request == [op : Operations, at : OpStages, seen : Skills!Manifest \cup Skills!Evaluation \cup {None},
            of : Skills!Owners \cup Evaluations \cup {None}]

\* The inductive invariant.
SkillInv ==
    /\ Skills!TypeOK
    /\ skill["platform"].status # "draft"
    /\ job \in [Threads -> Request]
    /\ \A t \in Threads : Deciding(t)
    /\ \A owner \in down : skill[owner] # None /\ skill[owner].status = "retired"
    /\ ~ unearned => (\A t \in Threads : Judged(t)) /\ Skills!PromotionIsEarned

\* The edits of a request's record.
LEMMA RequestEdits ==
    ASSUME NEW r \in Request
    PROVE  /\ \A at \in OpStages : [r EXCEPT !.at = at] \in Request
           /\ \A at \in OpStages, seen \in Skills!Manifest, of \in Skills!Owners :
                 [r EXCEPT !.at = at, !.seen = seen, !.of = of] \in Request
           /\ \A op \in Operations, at \in OpStages, seen \in Skills!Manifest,
              of \in Skills!Owners \cup Evaluations :
                 [r EXCEPT !.op = op, !.at = at, !.seen = seen, !.of = of] \in Request
           /\ \A op \in Operations, of \in Evaluations, seen \in Skills!Evaluation :
                 [r EXCEPT !.op = op, !.of = of, !.seen = seen] \in Request
  BY DEF Request

\* A thread without a request has such a record.
LEMMA FreeRequest == Skills!Free \in Request /\ Skills!Free.op = "none"
  BY DEF Skills!Free, Request, Operations, OpStages

\* The effective manifest is a row that is there.
LEMMA EffectiveRow ==
    ASSUME Skills!GovernanceAssumption, SkillInv
    PROVE  /\ Skills!Effective \in Skills!Owners /\ Skills!Row(Skills!Effective) \in Skills!Manifest
              /\ Skills!Row(Skills!Effective) # None
           /\ Skills!Row(Skills!Effective).status = "draft" => Skills!Effective = "tenant"
  BY DEF SkillInv, Skills!TypeOK, Skills!Effective, Skills!Row, Skills!Owners,
     Skills!GovernanceAssumption

\* A step of one request that leaves the skills and the evidence alone.
LEMMA RequestKept ==
    ASSUME Skills!GovernanceAssumption, SkillInv, NEW t \in Threads, NEW r \in Request,
           job' = [job EXCEPT ![t] = r], UNCHANGED Skills!skillVars,
           Deciding(t)', ~ unearned => Judged(t)'
    PROVE  SkillInv'
  <1>1. job' \in [Threads -> Request] /\ UNCHANGED <<skill, evidence, down, unearned>>
    BY DEF SkillInv, Skills!skillVars
  <1>2. Skills!TypeOK' /\ (skill["platform"].status # "draft")'
           /\ (\A owner \in down : skill[owner] # None /\ skill[owner].status = "retired")'
           /\ (~ unearned => Skills!PromotionIsEarned')
    BY <1>1 DEF SkillInv, Skills!TypeOK, Skills!PromotionIsEarned, Skills!Row
  <1>3. ASSUME NEW s \in Threads, s # t PROVE Deciding(s)' /\ (~ unearned => Judged(s)')
    <2>1. job'[s] = job[s] /\ Deciding(s) /\ (~ unearned => Judged(s))
      BY <1>3 DEF SkillInv
    <2> QED
      BY <1>1, <2>1 DEF Deciding, Judged, Proven, Skills!Earned
  <1> QED
    BY <1>1, <1>2, <1>3 DEF SkillInv

\* A request that ends is free.
LEMMA RequestFinishes ==
    ASSUME Skills!GovernanceAssumption, SkillInv, NEW t \in Threads, Skills!Finish(t),
           UNCHANGED Skills!skillVars
    PROVE  SkillInv'
  <1>1. job' = [job EXCEPT ![t] = Skills!Free] /\ job'[t] = Skills!Free
    BY DEF Skills!Finish, Skills!Goto, SkillInv
  <1> QED
    BY <1>1, FreeRequest, RequestKept DEF Deciding, Judged

\* The reads of a promotion and of a retirement, and a judgement.
LEMMA RequestReads ==
    ASSUME Skills!GovernanceAssumption, SkillInv, NEW t \in Threads,
           \/ \E e \in Evaluations : Skills!PromoteRead(t, e)
           \/ Skills!PromoteJudge(t) \/ Skills!PromoteReread(t) \/ Skills!RetireRead(t)
           \/ \E e \in Evaluations, rate \in Rates, passed \in BOOLEAN :
                 Skills!EvaluationRead(t, e, rate, passed)
    PROVE  SkillInv'
  <1>1. job \in [Threads -> Request] /\ job[t] \in Request /\ Deciding(t)
           /\ (~ unearned => Judged(t)) /\ Skills!TypeOK
    BY DEF SkillInv
  <1>2. ASSUME NEW e \in Evaluations, Skills!PromoteRead(t, e) PROVE SkillInv'
    <2> DEFINE r == [Skills!Free EXCEPT !.op = "promote", !.at = "judge",
           !.seen = Skills!Row(Skills!Effective), !.of = e]
    <2>1. r \in Request /\ r.op = "promote" /\ r.at = "judge" /\ r.seen = Skills!Row(Skills!Effective)
             /\ r.of = e
      <3>1. r \in Request
        BY FreeRequest, RequestEdits, EffectiveRow DEF Operations, OpStages
      <3> QED
        BY <3>1 DEF Skills!Free
    <2>2. job' = [job EXCEPT ![t] = r] /\ UNCHANGED Skills!skillVars
      BY <1>2 DEF Skills!PromoteRead, Skills!Begin
    <2> HIDE DEF r
    <2>3. job'[t] = r /\ e \in EvaluationsOf[Skills!Row(Skills!Effective).version]
             /\ Skills!Row(Skills!Effective).status # "retired"
      BY <1>1, <1>2, <2>2 DEF Skills!PromoteRead
    <2>4. Deciding(t)'
      BY <2>1, <2>3, EffectiveRow DEF Deciding
    <2>5. r.seen.status = "draft" => r.seen = skill["tenant"]
      BY <2>1, EffectiveRow DEF Skills!Row
    <2>6. Judged(t)'
      BY <2>1, <2>2, <2>3, <2>5, EffectiveRow DEF Judged, Skills!skillVars
    <2> QED
      BY <2>1, <2>2, <2>4, <2>6, RequestKept
  <1>3. CASE Skills!PromoteJudge(t)
    <2>1. CASE Skills!Finish(t)
      BY <1>3, <2>1, RequestFinishes DEF Skills!PromoteJudge
    <2>2. CASE /\ Skills!Earned(job[t].seen.version, job[t].of) /\ job[t].seen.status # "promoted"
               /\ Skills!Goto(t, [job[t] EXCEPT !.at = "reread"])
      <3> DEFINE r == [job[t] EXCEPT !.at = "reread"]
      <3>1. r \in Request /\ r.op = job[t].op /\ r.at = "reread" /\ r.seen = job[t].seen
               /\ r.of = job[t].of
        <4>1. r \in Request
          BY <1>1, RequestEdits DEF OpStages
        <4> QED
          BY <1>1, <4>1 DEF Request
      <3>2. job' = [job EXCEPT ![t] = r] /\ UNCHANGED Skills!skillVars
        BY <1>3, <2>2 DEF Skills!PromoteJudge, Skills!Goto
      <3> HIDE DEF r
      <3>3. job'[t] = r
        BY <1>1, <3>2
      <3>4. Deciding(t)'
        BY <1>1, <1>3, <3>1, <3>3 DEF Deciding, Skills!PromoteJudge, Skills!At
      <3>5. ~ unearned => Judged(t)'
        <4>1. job[t].seen.status = "draft"
          BY <1>1, <1>3, <2>2 DEF Deciding, Skills!PromoteJudge, Skills!At, Skills!Manifest
        <4> QED
          BY <1>1, <1>3, <2>2, <3>1, <3>2, <3>3, <4>1 DEF Judged, Skills!PromoteJudge, Skills!At,
             Skills!skillVars, Skills!Earned
      <3> QED
        BY <3>1, <3>2, <3>4, <3>5, RequestKept
    <2> QED
      BY <1>3, <2>1, <2>2 DEF Skills!PromoteJudge
  <1>4. CASE Skills!PromoteReread(t)
    <2> DEFINE r == [job[t] EXCEPT !.at = "write", !.seen = Skills!Row(Skills!Effective),
           !.of = Skills!Effective]
    <2>1. r \in Request /\ r.op = "promote" /\ r.at = "write" /\ r.seen = Skills!Row(Skills!Effective)
             /\ r.of = Skills!Effective
      <3>1. r \in Request
        BY <1>1, RequestEdits, EffectiveRow DEF OpStages
      <3> QED
        BY <1>1, <1>4, <3>1 DEF Request, Skills!PromoteReread
    <2>2. job' = [job EXCEPT ![t] = r] /\ UNCHANGED Skills!skillVars
      BY <1>4 DEF Skills!PromoteReread, Skills!Goto
    <2> HIDE DEF r
    <2>3. job'[t] = r
      BY <1>1, <2>2
    <2>4. Deciding(t)'
      BY <2>1, <2>2, <2>3, EffectiveRow DEF Deciding, Skills!Row, Skills!skillVars
    <2>5. ~ unearned => Judged(t)'
      <3> SUFFICES ASSUME ~ unearned PROVE Judged(t)'
        OBVIOUS
      <3>1. /\ skill["tenant"] # None
            /\ skill["tenant"].status = "draft" => skill["tenant"].version = job[t].seen.version
            /\ Skills!Earned(job[t].seen.version, job[t].of)
            /\ job[t].of \in EvaluationsOf[job[t].seen.version]
        BY <1>1, <1>4 DEF Judged, Skills!PromoteReread, Skills!At, Deciding
      <3>2. r.seen = skill["tenant"]
        BY <2>1, <3>1 DEF Skills!Effective, Skills!Row
      <3>3. skill["tenant"].status = "draft" => Proven(r.seen.version)
        BY <3>1, <3>2 DEF Proven
      <3> QED
        BY <2>1, <2>2, <2>3, <3>1, <3>3 DEF Judged, Skills!skillVars, Proven, Skills!Earned
    <2> QED
      BY <2>1, <2>2, <2>4, <2>5, RequestKept
  <1>5. CASE Skills!RetireRead(t)
    <2> DEFINE r == [Skills!Free EXCEPT !.op = "retire", !.at = "write",
           !.seen = Skills!Row(Skills!Effective), !.of = Skills!Effective]
    <2>1. r \in Request /\ r.op = "retire" /\ r.seen = Skills!Row(Skills!Effective)
             /\ r.of = Skills!Effective
      <3>1. r \in Request
        BY FreeRequest, RequestEdits, EffectiveRow DEF Operations, OpStages
      <3> QED
        BY <3>1 DEF Skills!Free
    <2>2. job' = [job EXCEPT ![t] = r] /\ UNCHANGED Skills!skillVars
      BY <1>5 DEF Skills!RetireRead, Skills!Begin
    <2> HIDE DEF r
    <2>3. job'[t] = r
      BY <1>1, <2>2
    <2>4. Deciding(t)' /\ Judged(t)'
      BY <2>1, <2>2, <2>3, EffectiveRow DEF Deciding, Judged, Skills!Row, Skills!skillVars
    <2> QED
      BY <2>1, <2>2, <2>4, RequestKept
  <1>6. ASSUME NEW e \in Evaluations, NEW rate \in Rates, NEW passed \in BOOLEAN,
               Skills!EvaluationRead(t, e, rate, passed)
        PROVE  SkillInv'
    <2> DEFINE r == [Skills!Free EXCEPT !.op = "evaluate", !.of = e,
           !.seen = [rate |-> rate, passed |-> passed]]
    <2>0. [rate |-> rate, passed |-> passed] \in Skills!Evaluation
      BY DEF Skills!Evaluation
    <2>1. r \in Request /\ r.op = "evaluate" /\ r.of = e /\ r.seen \in Skills!Evaluation
      <3>1. r \in Request
        BY <2>0, FreeRequest, RequestEdits DEF Operations
      <3> QED
        BY <2>0, <3>1 DEF Skills!Free
    <2>2. job' = [job EXCEPT ![t] = r] /\ UNCHANGED Skills!skillVars
      BY <1>6 DEF Skills!EvaluationRead, Skills!Begin
    <2> HIDE DEF r
    <2>3. job'[t] = r
      BY <1>1, <2>2
    <2>4. Deciding(t)' /\ Judged(t)'
      BY <2>1, <2>3 DEF Deciding, Judged
    <2> QED
      BY <2>1, <2>2, <2>4, RequestKept
  <1> QED
    BY <1>2, <1>3, <1>4, <1>5, <1>6

\* A manifest is registered, over the one before it: what was judged no longer counts.
LEMMA RegisterKept ==
    ASSUME Skills!GovernanceAssumption, SkillInv, NEW v \in Versions, Skills!Register(v)
    PROVE  SkillInv'
  <1> DEFINE row == [version |-> v, status |-> "draft"]
  <1>1. skill' = [skill EXCEPT !["tenant"] = row] /\ down' = down \ {"tenant"}
           /\ UNCHANGED <<evidence, job>>
           /\ (unearned' = (unearned \/ \E t \in Threads : job[t].op = "promote"))
    BY DEF Skills!Register
  <1>2. row \in Skills!Manifest /\ row # None /\ row.status = "draft"
    BY DEF Skills!Manifest, Skills!GovernanceAssumption
  <1> HIDE DEF row
  <1>3. skill' \in [Skills!Owners -> Skills!Manifest \cup {None}] /\ skill'["tenant"] = row
           /\ skill'["platform"] = skill["platform"]
    BY <1>1, <1>2 DEF SkillInv, Skills!TypeOK, Skills!Owners
  <1>4. Skills!TypeOK' /\ (job \in [Threads -> Request])' /\ (skill["platform"].status # "draft")'
    BY <1>1, <1>3 DEF SkillInv, Skills!TypeOK
  <1>5. \A t \in Threads : Deciding(t)'
    BY <1>1, <1>2, <1>3 DEF SkillInv, Deciding, Skills!Owners
  <1>6. \A owner \in down' : skill'[owner] # None /\ skill'[owner].status = "retired"
    BY <1>1, <1>3 DEF SkillInv, Skills!TypeOK, Skills!Owners
  <1>7. ~ unearned' => \A t \in Threads : Judged(t)'
    BY <1>1 DEF Judged
  <1>8. Skills!PromotionIsEarned'
    BY <1>2, <1>3 DEF Skills!PromotionIsEarned, Skills!Row
  <1> QED
    BY <1>4, <1>5, <1>6, <1>7, <1>8 DEF SkillInv

\* A process start writes the platform's row only.
LEMMA SeedKept ==
    ASSUME Skills!GovernanceAssumption, SkillInv, NEW v \in Versions, Skills!_seed_platform_skills(v)
    PROVE  SkillInv'
  <1> DEFINE row == [version |-> v, status |-> "promoted"]
  <1>1. skill' = [skill EXCEPT !["platform"] = row] /\ down' = down \ {"platform"}
           /\ UNCHANGED <<evidence, job, unearned>>
    BY DEF Skills!_seed_platform_skills
  <1>2. row \in Skills!Manifest /\ row # None /\ row.status # "draft"
    BY DEF Skills!Manifest, Skills!GovernanceAssumption
  <1> HIDE DEF row
  <1>3. skill' \in [Skills!Owners -> Skills!Manifest \cup {None}] /\ skill'["platform"] = row
           /\ skill'["tenant"] = skill["tenant"]
    BY <1>1, <1>2 DEF SkillInv, Skills!TypeOK, Skills!Owners
  <1>4. Skills!TypeOK' /\ (job \in [Threads -> Request])' /\ (skill["platform"].status # "draft")'
    BY <1>1, <1>2, <1>3 DEF SkillInv, Skills!TypeOK
  <1>5. \A t \in Threads : Deciding(t)'
    BY <1>1, <1>2, <1>3 DEF SkillInv, Deciding, Skills!Owners
  <1>6. \A owner \in down' : skill'[owner] # None /\ skill'[owner].status = "retired"
    BY <1>1, <1>3 DEF SkillInv, Skills!TypeOK, Skills!Owners
  <1>7. ~ unearned' => (\A t \in Threads : Judged(t)') /\ Skills!PromotionIsEarned'
    BY <1>1, <1>3 DEF SkillInv, Judged, Proven, Skills!Earned, Skills!PromotionIsEarned, Skills!Row
  <1> QED
    BY <1>4, <1>5, <1>6, <1>7 DEF SkillInv

\* A promotion writes over a draft only, and what it writes was earned.
LEMMA PromoteKept ==
    ASSUME Skills!GovernanceAssumption, SkillInv, NEW t \in Threads, Skills!PromoteWrite(t)
    PROVE  SkillInv'
  <1> DEFINE owner == job[t].of
  <1>1. Deciding(t) /\ (~ unearned => Judged(t)) /\ job \in [Threads -> Request] /\ Skills!TypeOK
    BY DEF SkillInv
  <1>2. job[t].op = "promote" /\ job[t].at = "write" /\ owner \in Skills!Owners /\ skill[owner] # None
           /\ job[t].seen \in Skills!Manifest
    BY <1>1 DEF Skills!PromoteWrite, Skills!At, Deciding
  <1>3. Skills!Finish(t) /\ UNCHANGED <<evidence, down, unearned>>
    BY DEF Skills!PromoteWrite
  <1>4. CASE ~ Skills!Swappable(Skills!Row(owner))
    BY <1>3, <1>4, RequestFinishes DEF Skills!PromoteWrite, Skills!skillVars
  <1>5. CASE Skills!Swappable(Skills!Row(owner))
    <2> DEFINE row == [job[t].seen EXCEPT !.status = "promoted"]
    <2>1. row \in Skills!Manifest /\ row # None /\ row.status = "promoted"
             /\ row.version = job[t].seen.version
      BY <1>2 DEF Skills!Manifest, Skills!GovernanceAssumption
    <2>2. skill' = [skill EXCEPT ![owner] = row]
      BY <1>5 DEF Skills!PromoteWrite
    <2>3. owner = "tenant" /\ skill["tenant"].status = "draft"
      BY <1>2, <1>5 DEF Skills!Swappable, Skills!Row, SkillInv, Skills!Owners
    <2> HIDE DEF row, owner
    <2>4. skill' \in [Skills!Owners -> Skills!Manifest \cup {None}] /\ skill'["tenant"] = row
             /\ skill'["platform"] = skill["platform"]
      BY <1>1, <2>1, <2>2, <2>3 DEF Skills!TypeOK, Skills!Owners
    <2>5. job' = [job EXCEPT ![t] = Skills!Free] /\ job' \in [Threads -> Request]
             /\ job'[t] = Skills!Free
      BY <1>1, <1>3, FreeRequest DEF Skills!Finish, Skills!Goto
    <2>6. Skills!TypeOK' /\ (skill["platform"].status # "draft")'
      BY <1>1, <1>3, <2>4 DEF SkillInv, Skills!TypeOK
    <2>7. \A own \in down' : skill'[own] # None /\ skill'[own].status = "retired"
      BY <1>1, <1>3, <2>3, <2>4 DEF SkillInv, Skills!TypeOK, Skills!Owners
    <2>8. ASSUME NEW s \in Threads PROVE Deciding(s)' /\ (~ unearned => Judged(s)')
      <3>1. CASE s = t
        BY <2>5, <3>1, FreeRequest DEF Deciding, Judged
      <3>2. CASE s # t
        <4>1. job'[s] = job[s] /\ Deciding(s) /\ (~ unearned => Judged(s))
          BY <2>5, <3>2 DEF SkillInv
        <4>2. Deciding(s)'
          BY <2>1, <2>4, <4>1 DEF Deciding, Skills!Owners
        <4>3. ~ unearned => Judged(s)'
          BY <1>3, <2>1, <2>4, <4>1 DEF Judged, Skills!Earned
        <4> QED
          BY <4>2, <4>3
      <3> QED
        BY <3>1, <3>2
    <2>9. ~ unearned => Skills!PromotionIsEarned'
      <3> SUFFICES ASSUME ~ unearned PROVE Skills!PromotionIsEarned'
        OBVIOUS
      <3>1. Proven(row.version)
        BY <1>1, <1>2, <2>1, <2>3 DEF Judged
      <3> QED
        BY <1>3, <2>4, <3>1 DEF Skills!PromotionIsEarned, Proven, Skills!Earned, Skills!Row
    <2> QED
      BY <1>3, <2>5, <2>6, <2>7, <2>8, <2>9 DEF SkillInv
  <1> QED
    BY <1>4, <1>5

\* A retirement writes its row back retired, whatever it is by then.
LEMMA RetireKept ==
    ASSUME Skills!GovernanceAssumption, SkillInv, NEW t \in Threads, Skills!RetireWrite(t)
    PROVE  SkillInv'
  <1> DEFINE owner == job[t].of  row == [job[t].seen EXCEPT !.status = "retired"]
  <1>1. Deciding(t) /\ job \in [Threads -> Request] /\ Skills!TypeOK
    BY DEF SkillInv
  <1>2. owner \in Skills!Owners /\ skill[owner] # None /\ job[t].seen \in Skills!Manifest
    BY <1>1 DEF Skills!RetireWrite, Deciding
  <1>3. Skills!Finish(t) /\ UNCHANGED <<evidence, unearned>> /\ skill' = [skill EXCEPT ![owner] = row]
           /\ down' = down \cup {owner}
    BY DEF Skills!RetireWrite
  <1>4. row \in Skills!Manifest /\ row # None /\ row.status = "retired"
    BY <1>2 DEF Skills!Manifest, Skills!GovernanceAssumption
  <1> HIDE DEF owner, row
  <1>5. skill' \in [Skills!Owners -> Skills!Manifest \cup {None}] /\ skill'[owner] = row
           /\ \A own \in Skills!Owners : own # owner => skill'[own] = skill[own]
    BY <1>1, <1>2, <1>3, <1>4 DEF Skills!TypeOK
  <1>6. job' = [job EXCEPT ![t] = Skills!Free] /\ job' \in [Threads -> Request] /\ job'[t] = Skills!Free
    BY <1>1, <1>3, FreeRequest DEF Skills!Finish, Skills!Goto
  <1>7. "platform" \in Skills!Owners /\ "tenant" \in Skills!Owners
    BY DEF Skills!Owners
  <1>8. Skills!TypeOK' /\ (skill["platform"].status # "draft")'
    BY <1>1, <1>2, <1>3, <1>4, <1>5, <1>7 DEF SkillInv, Skills!TypeOK
  <1>9. \A own \in down' : skill'[own] # None /\ skill'[own].status = "retired"
    BY <1>1, <1>3, <1>4, <1>5 DEF SkillInv, Skills!TypeOK
  <1>10. \A own \in Skills!Owners : skill[own] # None => skill'[own] # None
    BY <1>4, <1>5
  <1>11. skill'["tenant"] = skill["tenant"] \/ (skill'["tenant"] = row)
    BY <1>5, <1>7
  <1>12. ASSUME NEW s \in Threads PROVE Deciding(s)' /\ (~ unearned => Judged(s)')
    <2>1. CASE s = t
      BY <1>6, <2>1, FreeRequest DEF Deciding, Judged
    <2>2. CASE s # t
      <3>1. job'[s] = job[s] /\ Deciding(s) /\ (~ unearned => Judged(s))
        BY <1>6, <2>2 DEF SkillInv
      <3>2. Deciding(s)'
        BY <1>10, <3>1 DEF Deciding
      <3>3. ~ unearned => Judged(s)'
        BY <1>3, <1>4, <1>7, <1>10, <1>11, <3>1 DEF Judged, Skills!Earned, Proven
      <3> QED
        BY <3>2, <3>3
    <2> QED
      BY <2>1, <2>2
  <1>13. ~ unearned => Skills!PromotionIsEarned'
    BY <1>3, <1>4, <1>11 DEF SkillInv, Skills!PromotionIsEarned, Skills!Row
  <1> QED
    BY <1>3, <1>6, <1>8, <1>9, <1>12, <1>13 DEF SkillInv

\* Recorded evidence stays as it is.
LEMMA EvidenceStays ==
    ASSUME SkillInv, NEW t \in Threads, Skills!EvaluationWrite(t)
    PROVE  Skills!KeepsEvidence
  BY DEF Skills!EvaluationWrite, Skills!KeepsEvidence, Skills!Insert, SkillInv, Skills!TypeOK

\* An evaluation is recorded: evidence is only added.
LEMMA EvaluationKept ==
    ASSUME Skills!GovernanceAssumption, SkillInv, NEW t \in Threads, Skills!EvaluationWrite(t)
    PROVE  SkillInv'
  <1>1. Deciding(t) /\ job \in [Threads -> Request] /\ Skills!TypeOK
    BY DEF SkillInv
  <1>2. job[t].seen \in Skills!Evaluation /\ job[t].of \in Evaluations
    BY <1>1 DEF Skills!EvaluationWrite, Deciding
  <1>3. evidence' \in [Evaluations -> Skills!Evaluation \cup {None}]
    BY <1>1, <1>2 DEF Skills!EvaluationWrite, Skills!Insert, Skills!TypeOK
  <1>4. UNCHANGED <<skill, down, unearned>>
    BY DEF Skills!EvaluationWrite
  <1>5. job' = [job EXCEPT ![t] = Skills!Free] /\ job' \in [Threads -> Request] /\ job'[t] = Skills!Free
    BY <1>1, FreeRequest DEF Skills!Finish, Skills!Goto, Skills!EvaluationWrite
  <1>6. Skills!TypeOK' /\ (skill["platform"].status # "draft")'
           /\ (\A own \in down' : skill'[own] # None /\ skill'[own].status = "retired")
    BY <1>3, <1>4 DEF SkillInv, Skills!TypeOK
  <1>7. \A e \in Evaluations : evidence[e] # None => evidence'[e] = evidence[e]
    BY EvidenceStays DEF Skills!KeepsEvidence
  <1>8. \A v \in Versions : \A e \in EvaluationsOf[v] : Skills!Earned(v, e) => Skills!Earned(v, e)'
    BY <1>7 DEF Skills!Earned, Skills!GovernanceAssumption
  <1>9. ASSUME NEW s \in Threads PROVE Deciding(s)' /\ (~ unearned => Judged(s)')
    <2>1. CASE s = t
      BY <1>5, <2>1, FreeRequest DEF Deciding, Judged
    <2>2. CASE s # t
      <3>1. job'[s] = job[s] /\ Deciding(s) /\ (~ unearned => Judged(s))
        BY <1>5, <2>2 DEF SkillInv
      <3>2. Deciding(s)'
        BY <1>4, <3>1 DEF Deciding
      <3>3. job[s].op = "promote" => job[s].seen.version \in Versions
        BY <3>1 DEF Deciding, Skills!Manifest
      <3>4. ~ unearned => Judged(s)'
        BY <1>4, <1>8, <3>1, <3>3 DEF Judged, Proven, Deciding
      <3> QED
        BY <3>2, <3>4
    <2> QED
      BY <2>1, <2>2
  <1>10. ~ unearned => Skills!PromotionIsEarned'
    <2>1. skill["tenant"] # None => skill["tenant"].version \in Versions
      BY <1>1 DEF Skills!TypeOK, Skills!Owners, Skills!Manifest
    <2> QED
      BY <1>4, <1>8, <2>1 DEF SkillInv, Skills!PromotionIsEarned, Skills!Row, Skills!Earned
  <1> QED
    BY <1>4, <1>5, <1>6, <1>9, <1>10 DEF SkillInv

\* The inductive invariant of the registry.
THEOREM SkillInvariance ==
    ASSUME Skills!GovernanceAssumption PROVE Skills!Spec => []SkillInv
  <1>1. Skills!Init => SkillInv
    <2> SUFFICES ASSUME Skills!Init PROVE SkillInv
      OBVIOUS
    <2>1. [version |-> 1, status |-> "promoted"] \in Skills!Manifest
      BY DEF Skills!Manifest, Skills!GovernanceAssumption
    <2>2. Skills!TypeOK
      BY <2>1 DEF Skills!Init, Skills!TypeOK, Skills!Owners, Skills!GovernanceAssumption
    <2>3. job \in [Threads -> Request] /\ \A t \in Threads : job[t] = Skills!Free
      BY FreeRequest DEF Skills!Init
    <2>4. skill["platform"].status # "draft" /\ skill["tenant"] = None /\ down = {}
      BY DEF Skills!Init
    <2> QED
      BY <2>2, <2>3, <2>4, FreeRequest DEF SkillInv, Deciding, Judged, Skills!PromotionIsEarned,
         Skills!Row
  <1>2. SkillInv /\ [Skills!Next]_(Skills!vars) => SkillInv'
    <2> SUFFICES ASSUME SkillInv, [Skills!Next]_(Skills!vars) PROVE SkillInv'
      OBVIOUS
    <2>1. CASE UNCHANGED Skills!vars
      BY <2>1 DEF SkillInv, Skills!vars, Skills!TypeOK, Deciding, Judged, Proven, Skills!Earned,
         Skills!PromotionIsEarned, Skills!Row
    <2>2. ASSUME NEW t \in Threads, Skills!Die(t) PROVE SkillInv'
      BY <2>2, RequestFinishes DEF Skills!Die
    <2> QED
      BY <2>1, <2>2, RequestReads, RegisterKept, SeedKept, PromoteKept, RetireKept, EvaluationKept
         DEF Skills!Next
  <1> QED
    BY <1>1, <1>2, PTL DEF Skills!Spec

\* A retired skill is not discovered, and a promotion rests on evidence of that version
\* that reached its bar: Spec => []SkillsAreGoverned.
THEOREM SkillsStayGoverned ==
    ASSUME Skills!GovernanceAssumption PROVE Skills!Spec => []SkillsAreGoverned
  <1>1. SkillInv => SkillsAreGoverned
    <2> SUFFICES ASSUME SkillInv PROVE SkillsAreGoverned
      OBVIOUS
    <2>1. Skills!RetirementHolds
      BY DEF SkillInv, Skills!RetirementHolds, Skills!Row, Skills!discover, Skills!Effective
    <2>2. unearned => Skills!PromotionIsEarned
      BY DEF Skills!PromotionIsEarned
    <2> QED
      BY <2>1, <2>2 DEF SkillInv, SkillsAreGoverned
  <1> QED
    BY <1>1, SkillInvariance, PTL

\* Recorded evidence is never replaced: Spec => [][KeepsEvidence]_vars.
THEOREM EvidenceIsOnRecord ==
    ASSUME Skills!GovernanceAssumption PROVE Skills!Spec => EvidenceIsKept
  <1>1. SkillInv /\ [Skills!Next]_(Skills!vars) => [Skills!KeepsEvidence]_(Skills!vars)
    <2> SUFFICES ASSUME SkillInv, Skills!Next PROVE Skills!KeepsEvidence
      OBVIOUS
    <2>1. CASE UNCHANGED evidence
      BY <2>1 DEF Skills!KeepsEvidence
    <2>2. ASSUME NEW t \in Threads, Skills!EvaluationWrite(t) PROVE Skills!KeepsEvidence
      BY <2>2, EvidenceStays
    <2> QED
      BY <2>1, <2>2 DEF Skills!Next, Skills!Register, Skills!_seed_platform_skills, Skills!PromoteRead,
         Skills!PromoteJudge, Skills!PromoteReread, Skills!PromoteWrite, Skills!RetireRead,
         Skills!RetireWrite, Skills!EvaluationRead, Skills!Die, Skills!skillVars
  <1> QED
    BY <1>1, SkillInvariance, PTL DEF Skills!Spec, Skills!EvidenceIsKept, EvidenceIsKept

-----------------------------------------------------------------------------
(* The facts and playbooks learned from outcomes (OutcomeMemory). *)

\* An outcome that was learned.
Outcome == [group : Groups, good : BOOLEAN]

\* The outcomes among the first n that these are, as a set of places.
Wins(s, g, n) == {i \in 1 .. n : s[i] = [group |-> g, good |-> TRUE]}
Goods(s, n) == {i \in 1 .. n : s[i].good}

\* A record of a consolidation.
Jobs == [at : {"none", "journal", "facts"}, of : (0 .. MaxOutcomes) \cup {None}, todo : SUBSET Groups]

\* A consolidation at work writes facts of outcomes it has read.
Reading(p) ==
    /\ p.at = "none" <=> p = Memory!Free
    /\ p.at # "none" => p.of \in 0 .. Len(outcomes)
    /\ p.at = "facts" => p.todo \subseteq Memory!consolidate_outcomes(p.of)

\* A consolidation alone at work: nothing newer is journaled, and what it has written is current.
Alone(p) ==
    /\ p.at # "none" => journal \subseteq 0 .. p.of
    /\ p.at = "facts" =>
          /\ p.of \notin journal
          /\ \A g \in Memory!consolidate_outcomes(p.of) \ p.todo : facts[g] = Memory!Support(g, p.of)

\* The inductive invariant.
MemoryInv ==
    /\ Memory!TypeOK
    /\ outcomes \in Seq(Outcome) /\ Len(outcomes) <= MaxOutcomes
    /\ consolidation \in [Threads -> Jobs]
    /\ journal \subseteq 0 .. Len(outcomes) /\ overlapped \in BOOLEAN
    /\ \A t \in Threads : Reading(consolidation[t])
    /\ \A g \in Groups : facts[g] > 0 => facts[g] \in MIN_SUPPORT .. Memory!Support(g, Len(outcomes))
    /\ \A n \in plans : n <= Len(outcomes) /\ Cardinality(Goods(outcomes, n)) >= MIN_SUPPORT
    /\ ~ overlapped =>
          /\ \A s, t \in Threads : consolidation[s].at # "none" /\ consolidation[t].at # "none" => s = t
          /\ \A t \in Threads : Alone(consolidation[t])
          /\ Memory!Fingerprint \in journal =>
                \A g \in Memory!consolidate_outcomes(Memory!Fingerprint) :
                   facts[g] = Memory!Support(g, Memory!Fingerprint)

\* The places of the first n that have a property are finitely many, at most n, and
\* more of them the more places there are.
LEMMA PlacesCounted ==
    ASSUME NEW n \in Nat, NEW m \in Nat, n <= m, NEW A, NEW B, A \subseteq 1 .. n, B \subseteq 1 .. m,
           A \subseteq B
    PROVE  /\ Cardinality(A) \in 0 .. n /\ Cardinality(B) \in 0 .. m
           /\ Cardinality(A) <= Cardinality(B)
  <1>1. IsFiniteSet(1 .. n) /\ Cardinality(1 .. n) = n /\ IsFiniteSet(1 .. m) /\ Cardinality(1 .. m) = m
    <2>1. IsFiniteSet(1 .. n) /\ Cardinality(1 .. n) = n
      BY FS_Interval
    <2>2. IsFiniteSet(1 .. m) /\ Cardinality(1 .. m) = m
      BY FS_Interval
    <2> QED
      BY <2>1, <2>2
  <1>2. IsFiniteSet(A) /\ Cardinality(A) <= n /\ IsFiniteSet(B) /\ Cardinality(B) <= m
    <2>1. IsFiniteSet(A) /\ Cardinality(A) <= Cardinality(1 .. n)
      BY <1>1, FS_Subset
    <2>2. IsFiniteSet(B) /\ Cardinality(B) <= Cardinality(1 .. m)
      BY <1>1, FS_Subset
    <2> QED
      BY <1>1, <2>1, <2>2
  <1>3. Cardinality(A) \in Nat /\ Cardinality(B) \in Nat
    BY <1>2, FS_CardinalityType
  <1>4. Cardinality(A) <= Cardinality(B)
    BY <1>2, FS_Subset
  <1> QED
    BY <1>2, <1>3, <1>4

\* The successes of a group among the first outcomes are counted likewise.
LEMMA WinsCounted ==
    ASSUME NEW s, NEW g, NEW n \in Nat, NEW m \in Nat, n <= m
    PROVE  /\ Cardinality(Wins(s, g, n)) \in 0 .. n /\ Cardinality(Wins(s, g, m)) \in 0 .. m
           /\ Cardinality(Wins(s, g, n)) <= Cardinality(Wins(s, g, m))
  <1>1. Wins(s, g, n) \subseteq 1 .. n /\ Wins(s, g, m) \subseteq 1 .. m
           /\ Wins(s, g, n) \subseteq Wins(s, g, m)
    BY DEF Wins
  <1> QED
    BY <1>1, PlacesCounted

\* Support is a number, at most that of the outcomes counted, and grows with them.
LEMMA SupportBounds ==
    ASSUME NEW g, NEW n \in Nat, NEW m \in Nat, n <= m
    PROVE  Memory!Support(g, n) \in 0 .. n /\ Memory!Support(g, n) <= Memory!Support(g, m)
              /\ Memory!Support(g, m) \in 0 .. m
  <1>1. Memory!Support(g, n) = Cardinality(Wins(outcomes, g, n))
           /\ Memory!Support(g, m) = Cardinality(Wins(outcomes, g, m))
    BY OneCardinality DEF Memory!Support, Wins
  <1> QED
    BY <1>1, WinsCounted

\* What the first n outcomes say does not change when another one is learned.
LEMMA LearnedKeeps ==
    ASSUME outcomes \in Seq(Outcome), NEW o \in Outcome, outcomes' = Append(outcomes, o),
           NEW n \in 0 .. Len(outcomes)
    PROVE  /\ \A g : Memory!Support(g, n)' = Memory!Support(g, n)
           /\ Memory!consolidate_outcomes(n)' = Memory!consolidate_outcomes(n)
           /\ Goods(outcomes, n)' = Goods(outcomes, n)
  <1>1. Len(outcomes) \in Nat /\ \A i \in 1 .. n : outcomes'[i] = outcomes[i]
    BY AppendProperties, LenProperties
  <1>2. ASSUME NEW g PROVE Memory!Support(g, n)' = Memory!Support(g, n)
    BY <1>1 DEF Memory!Support
  <1>3. Goods(outcomes, n)' = Goods(outcomes, n)
    BY <1>1 DEF Goods
  <1> QED
    BY <1>2, <1>3 DEF Memory!consolidate_outcomes

\* The outcomes stay: so do their counts.
LEMMA CountsStay ==
    ASSUME UNCHANGED outcomes
    PROVE  /\ \A g, n : Memory!Support(g, n)' = Memory!Support(g, n)
           /\ \A n : Memory!consolidate_outcomes(n)' = Memory!consolidate_outcomes(n)
           /\ \A n : Goods(outcomes, n)' = Goods(outcomes, n)
           /\ Memory!Fingerprint' = Memory!Fingerprint
  BY DEF Memory!Support, Memory!consolidate_outcomes, Goods, Memory!Fingerprint

\* A new outcome lowers no group's support.
LEMMA LearnKept ==
    ASSUME Memory!MemoryAssumption, MemoryInv, NEW g \in Groups, NEW good \in BOOLEAN,
           Memory!Learn(g, good)
    PROVE  MemoryInv'
  <1> DEFINE o == [group |-> g, good |-> good]
  <1>1. outcomes' = Append(outcomes, o) /\ o \in Outcome /\ Len(outcomes) < MaxOutcomes
           /\ UNCHANGED <<facts, journal, consolidation, consolidations, plans, overlapped>>
    BY DEF Memory!Learn, Outcome
  <1> HIDE DEF o
  <1>2. outcomes' \in Seq(Outcome) /\ Len(outcomes') = Len(outcomes) + 1 /\ Len(outcomes) \in Nat
           /\ MaxOutcomes \in Nat
    BY <1>1, AppendProperties, LenProperties DEF MemoryInv, Memory!MemoryAssumption
  <1>3. \A n \in 0 .. Len(outcomes) : (\A h : Memory!Support(h, n)' = Memory!Support(h, n))
           /\ Memory!consolidate_outcomes(n)' = Memory!consolidate_outcomes(n)
           /\ Goods(outcomes, n)' = Goods(outcomes, n)
    BY <1>1, LearnedKeeps DEF MemoryInv
  <1>4. \A t \in Threads : Reading(consolidation[t])'
    BY <1>1, <1>2, <1>3 DEF MemoryInv, Reading
  <1>5. ASSUME NEW h \in Groups, facts[h] > 0
        PROVE  facts[h] \in MIN_SUPPORT .. Memory!Support(h, Len(outcomes))'
    <2>1. Memory!Support(h, Len(outcomes)) = Memory!Support(h, Len(outcomes))
      OBVIOUS
    <2> PICK n : n = Len(outcomes)
      OBVIOUS
    <2>2. n \in Nat /\ n + 1 \in Nat /\ n \in 0 .. n /\ Len(outcomes)' = n + 1
      BY <1>2
    <2>3. Memory!Support(h, n)' = Memory!Support(h, n)
      BY <1>3, <2>2
    <2>4. Memory!Support(h, n)' <= Memory!Support(h, n + 1)' /\ Memory!Support(h, n + 1)' \in Nat
      <3>1. \A k : Memory!Support(h, k)' = Cardinality(Wins(outcomes', h, k))
        BY OneCardinality DEF Memory!Support, Wins
      <3> QED
        BY <2>2, <3>1, WinsCounted
    <2>5. facts[h] \in MIN_SUPPORT .. Memory!Support(h, n)
      BY <1>5 DEF MemoryInv
    <2>6. Memory!Support(h, n) \in Nat /\ MIN_SUPPORT \in Nat
      BY <2>2, SupportBounds DEF Memory!MemoryAssumption
    <2> QED
      BY <2>2, <2>3, <2>4, <2>5, <2>6
  <1>6. \A n \in plans : n <= Len(outcomes)' /\ Cardinality(Goods(outcomes, n))' >= MIN_SUPPORT
    <2> TAKE n \in plans
    <2>1. n \in 0 .. Len(outcomes) /\ Cardinality(Goods(outcomes, n)) >= MIN_SUPPORT
      BY <1>2 DEF MemoryInv, Memory!TypeOK
    <2>2. Goods(outcomes, n)' = Goods(outcomes, n)
      BY <1>3, <2>1
    <2> QED
      BY <1>2, <2>1, <2>2
  <1>7. ASSUME ~ overlapped
        PROVE  /\ (\A s, t \in Threads :
                     consolidation[s].at # "none" /\ consolidation[t].at # "none" => s = t)'
               /\ \A t \in Threads : Alone(consolidation[t])'
               /\ Memory!Fingerprint' \notin journal'
    <2>1. \A t \in Threads : Alone(consolidation[t])'
      BY <1>1, <1>3, <1>7 DEF MemoryInv, Alone, Reading
    <2>2. Memory!Fingerprint' \notin journal'
      BY <1>1, <1>2 DEF MemoryInv, Memory!Fingerprint
    <2> QED
      BY <1>1, <1>7, <2>1, <2>2 DEF MemoryInv
  <1>8. Memory!TypeOK' /\ Len(outcomes)' <= MaxOutcomes /\ (consolidation \in [Threads -> Jobs])'
           /\ (journal \subseteq 0 .. Len(outcomes))' /\ (overlapped \in BOOLEAN)'
    BY <1>1, <1>2 DEF MemoryInv, Memory!TypeOK
  <1> QED
    BY <1>1, <1>2, <1>4, <1>5, <1>6, <1>7, <1>8 DEF MemoryInv

\* Steps that change one consolidation only, or take it away.
LEMMA JobStep ==
    ASSUME Memory!MemoryAssumption, MemoryInv, NEW t \in Threads, NEW p \in Jobs,
           consolidation' = [consolidation EXCEPT ![t] = p], Reading(p), overlapped' \in BOOLEAN,
           UNCHANGED <<outcomes, facts, plans, journal>>,
           ~ overlapped' => /\ ~ overlapped /\ Alone(p)
                            /\ p.at # "none" => \A s \in Threads : s # t => consolidation[s].at = "none"
    PROVE  MemoryInv'
  <1>1. consolidation'[t] = p /\ consolidation' \in [Threads -> Jobs]
           /\ \A s \in Threads : s # t => consolidation'[s] = consolidation[s]
    BY DEF MemoryInv
  <1>2. /\ \A g, n : Memory!Support(g, n)' = Memory!Support(g, n)
        /\ \A n : Memory!consolidate_outcomes(n)' = Memory!consolidate_outcomes(n)
        /\ \A n : Goods(outcomes, n)' = Goods(outcomes, n)
        /\ Memory!Fingerprint' = Memory!Fingerprint
    BY CountsStay
  <1>3. ASSUME NEW s \in Threads
        PROVE  Reading(consolidation[s])' /\ (~ overlapped' => Alone(consolidation[s])')
    <2>1. CASE s = t
      <3>1. Reading(p)' /\ (~ overlapped' => Alone(p)')
        BY <1>2 DEF Reading, Alone
      <3> QED
        BY <1>1, <2>1, <3>1
    <2>2. CASE s # t
      <3> PICK q : q = consolidation[s]
        OBVIOUS
      <3>1. Reading(q) /\ (~ overlapped' => Alone(q)) /\ consolidation'[s] = q
        BY <1>1, <2>2 DEF MemoryInv
      <3>2. Reading(q)' /\ (~ overlapped' => Alone(q)')
        BY <1>2, <3>1 DEF Reading, Alone
      <3> QED
        BY <3>1, <3>2
    <2> QED
      BY <2>1, <2>2
  <1>4. Memory!TypeOK' /\ (outcomes \in Seq(Outcome))' /\ Len(outcomes)' <= MaxOutcomes
           /\ (journal \subseteq 0 .. Len(outcomes))'
           /\ (\A g \in Groups : facts[g] > 0 =>
                 facts[g] \in MIN_SUPPORT .. Memory!Support(g, Len(outcomes)))'
           /\ (\A n \in plans : n <= Len(outcomes) /\ Cardinality(Goods(outcomes, n)) >= MIN_SUPPORT)'
    BY <1>2 DEF MemoryInv, Memory!TypeOK
  <1>5. ASSUME ~ overlapped'
        PROVE  /\ (\A s, q \in Threads :
                     consolidation[s].at # "none" /\ consolidation[q].at # "none" => s = q)'
               /\ (Memory!Fingerprint \in journal =>
                     \A g \in Memory!consolidate_outcomes(Memory!Fingerprint) :
                        facts[g] = Memory!Support(g, Memory!Fingerprint))'
    BY <1>1, <1>2, <1>5 DEF MemoryInv
  <1> QED
    BY <1>1, <1>3, <1>4, <1>5 DEF MemoryInv

\* No consolidation at work.
LEMMA FreeRecord == Memory!Free \in Jobs /\ Memory!Free.at = "none" /\ Reading(Memory!Free)
   /\ Alone(Memory!Free)
  BY DEF Memory!Free, Jobs, Reading, Alone

\* A consolidation reads the outcomes.
LEMMA ConsolidationReads ==
    ASSUME Memory!MemoryAssumption, MemoryInv, NEW t \in Threads, Memory!ConsolidateRead(t)
    PROVE  MemoryInv'
  <1> PICK p : p = [Memory!Free EXCEPT !.at = "journal", !.of = Memory!Fingerprint]
    OBVIOUS
  <1>1. consolidation' = [consolidation EXCEPT ![t] = p]
           /\ UNCHANGED <<outcomes, facts, journal, plans>>
           /\ overlapped' = (overlapped \/ Memory!Consolidating # {})
    <2>2. consolidation' = [consolidation EXCEPT ![t] = p]
      BY DEF Memory!ConsolidateRead
    <2>3. overlapped' = (overlapped \/ Memory!Consolidating # {})
      BY DEF Memory!ConsolidateRead
    <2> QED
      BY <2>2, <2>3 DEF Memory!ConsolidateRead
  <1>2. p \in Jobs /\ p.at = "journal" /\ p.of = Memory!Fingerprint
           /\ Memory!Fingerprint \in 0 .. Len(outcomes)
    <2>1. Memory!Fingerprint \in 0 .. Len(outcomes) /\ Memory!Fingerprint \in 0 .. MaxOutcomes
      BY LenProperties DEF MemoryInv, Memory!MemoryAssumption, Memory!Fingerprint
    <2> QED
      BY <2>1, FreeRecord DEF Jobs
  <1>3. Reading(p)
    BY <1>2 DEF Reading, Memory!Free
  <1>4. ASSUME ~ overlapped'
        PROVE  ~ overlapped /\ Alone(p) /\ \A s \in Threads : s # t => consolidation[s].at = "none"
    <2>1. ~ overlapped /\ Memory!Consolidating = {}
      BY <1>1, <1>4 DEF MemoryInv
    <2>2. \A s \in Threads : consolidation[s] = Memory!Free
      BY <2>1 DEF Memory!Consolidating
    <2>3. Alone(p)
      BY <1>2 DEF Alone, MemoryInv, Memory!Fingerprint
    <2> QED
      BY <2>1, <2>2, <2>3 DEF Memory!Free
  <1> QED
    BY <1>1, <1>2, <1>3, <1>4, JobStep DEF MemoryInv

\* A consolidation that dies leaves the rest as it is.
LEMMA ConsolidationDies ==
    ASSUME Memory!MemoryAssumption, MemoryInv, NEW t \in Threads, Memory!Finish(t),
           UNCHANGED <<outcomes, facts, journal, plans, overlapped>>
    PROVE  MemoryInv'
  <1>1. consolidation' = [consolidation EXCEPT ![t] = Memory!Free]
    BY DEF Memory!Finish, Memory!Goto
  <1> QED
    BY <1>1, FreeRecord, JobStep DEF MemoryInv

\* A consolidation begins with the groups that have support, or finds its fingerprint
\* in the journal.
LEMMA StartKept ==
    ASSUME Memory!MemoryAssumption, MemoryInv, NEW t \in Threads, Memory!ConsolidateStart(t)
    PROVE  MemoryInv'
  <1>1. CASE consolidation[t].of \in journal
    BY <1>1, ConsolidationDies DEF Memory!ConsolidateStart
  <1>2. CASE consolidation[t].of \notin journal
    <2> PICK q, todo : q = consolidation[t] /\ todo = Memory!consolidate_outcomes(consolidation[t].of)
      OBVIOUS
    <2> PICK p : p = [q EXCEPT !.at = "facts", !.todo = todo]
      OBVIOUS
    <2>1. q \in Jobs /\ q.at = "journal" /\ Reading(q) /\ todo \in SUBSET Groups
             /\ todo = Memory!consolidate_outcomes(q.of)
      BY DEF MemoryInv, Memory!ConsolidateStart, Memory!At, Memory!consolidate_outcomes
    <2>2. p \in Jobs /\ p.at = "facts" /\ p.of = q.of /\ p.todo = todo
      BY <2>1 DEF Jobs
    <2>3. consolidation' = [consolidation EXCEPT ![t] = p]
             /\ UNCHANGED <<outcomes, facts, journal, plans, overlapped>>
      BY <1>2 DEF Memory!ConsolidateStart, Memory!Goto
    <2>4. Reading(p)
      BY <2>1, <2>2 DEF Reading, Memory!Free
    <2>5. ~ overlapped => Alone(p) /\ \A s \in Threads : s # t => consolidation[s].at = "none"
      BY <1>2, <2>1, <2>2 DEF MemoryInv, Alone
    <2> QED
      BY <2>2, <2>3, <2>4, <2>5, JobStep DEF MemoryInv
  <1> QED
    BY <1>1, <1>2

\* A fact is written: it says what the outcomes that were read show.
LEMMA FactKept ==
    ASSUME Memory!MemoryAssumption, MemoryInv, NEW t \in Threads, Memory!ConsolidateFact(t)
    PROVE  MemoryInv'
  <1>1. PICK g \in consolidation[t].todo :
           /\ facts' = [facts EXCEPT ![g] = Memory!Support(g, consolidation[t].of)]
           /\ consolidation' = [consolidation EXCEPT ![t] = [consolidation[t] EXCEPT !.todo = @ \ {g}]]
    BY DEF Memory!ConsolidateFact, Memory!Goto
  <1> PICK q, n, todo : q = consolidation[t] /\ n = consolidation[t].of
         /\ todo = consolidation[t].todo \ {g}
    OBVIOUS
  <1> PICK p : p = [q EXCEPT !.todo = todo]
    OBVIOUS
  <1>2. q \in Jobs /\ q.at = "facts" /\ Reading(q) /\ q.of = n /\ q.todo \subseteq Groups
    BY DEF MemoryInv, Memory!ConsolidateFact, Memory!At, Jobs
  <1>3. p \in Jobs /\ p.at = "facts" /\ p.of = n /\ p.todo = todo /\ todo = q.todo \ {g}
    BY <1>2 DEF Jobs
  <1>4. n \in 0 .. Len(outcomes) /\ g \in Memory!consolidate_outcomes(n) /\ g \in Groups
           /\ todo \subseteq Memory!consolidate_outcomes(n) /\ Len(outcomes) \in Nat
           /\ Len(outcomes) <= MaxOutcomes /\ MaxOutcomes \in Nat
    BY <1>1, <1>2, <1>3, LenProperties DEF Reading, MemoryInv, Memory!MemoryAssumption
  <1>5. consolidation' = [consolidation EXCEPT ![t] = p]
           /\ facts' = [facts EXCEPT ![g] = Memory!Support(g, n)]
           /\ UNCHANGED <<outcomes, journal, plans, overlapped>>
    BY <1>1 DEF Memory!ConsolidateFact
  <1>6. Memory!Support(g, n) \in 0 .. n /\ Memory!Support(g, n) <= Memory!Support(g, Len(outcomes))
           /\ Memory!Support(g, Len(outcomes)) \in Nat /\ Memory!Support(g, n) >= MIN_SUPPORT
    BY <1>4, SupportBounds DEF Memory!consolidate_outcomes
  <1>7. /\ \A h, m : Memory!Support(h, m)' = Memory!Support(h, m)
        /\ \A m : Memory!consolidate_outcomes(m)' = Memory!consolidate_outcomes(m)
        /\ \A m : Goods(outcomes, m)' = Goods(outcomes, m)
        /\ Memory!Fingerprint' = Memory!Fingerprint
    BY <1>5, CountsStay
  <1>8. facts' \in [Groups -> 0 .. MaxOutcomes] /\ facts'[g] = Memory!Support(g, n)
           /\ \A h \in Groups : h # g => facts'[h] = facts[h]
    BY <1>4, <1>5, <1>6 DEF MemoryInv, Memory!TypeOK
  <1>9. consolidation'[t] = p /\ consolidation' \in [Threads -> Jobs]
           /\ \A s \in Threads : s # t => consolidation'[s] = consolidation[s]
    BY <1>3, <1>5 DEF MemoryInv
  <1>10. \A s \in Threads : Reading(consolidation[s])'
    <2> TAKE s \in Threads
    <2>1. CASE s = t
      <3>1. Reading(p)'
        BY <1>3, <1>4, <1>5, <1>7 DEF Reading, Memory!Free
      <3> QED
        BY <1>9, <2>1, <3>1
    <2>2. CASE s # t
      <3> PICK x : x = consolidation[s]
        OBVIOUS
      <3>1. Reading(x) /\ consolidation'[s] = x
        BY <1>9, <2>2 DEF MemoryInv
      <3>2. Reading(x)'
        BY <1>5, <1>7, <3>1 DEF Reading
      <3> QED
        BY <3>1, <3>2
    <2> QED
      BY <2>1, <2>2
  <1>11. \A h \in Groups : facts'[h] > 0 =>
               facts'[h] \in MIN_SUPPORT .. Memory!Support(h, Len(outcomes))'
    <2> TAKE h \in Groups
    <2>1. Memory!Support(h, Len(outcomes))' = Memory!Support(h, Len(outcomes))
      BY <1>5 DEF Memory!Support
    <2>2. CASE h = g
      BY <1>6, <1>8, <2>1, <2>2 DEF Memory!MemoryAssumption
    <2>3. CASE h # g
      BY <1>8, <2>1, <2>3 DEF MemoryInv
    <2> QED
      BY <2>2, <2>3
  <1>12. ASSUME ~ overlapped'
         PROVE  /\ (\A s, r \in Threads :
                      consolidation[s].at # "none" /\ consolidation[r].at # "none" => s = r)'
                /\ \A s \in Threads : Alone(consolidation[s])'
                /\ Memory!Fingerprint' \in journal' =>
                      \A h \in Memory!consolidate_outcomes(Memory!Fingerprint)' :
                         facts'[h] = Memory!Support(h, Memory!Fingerprint)'
    <2>1. ~ overlapped /\ Alone(q) /\ \A s \in Threads : s # t => consolidation[s].at = "none"
      BY <1>2, <1>5, <1>12 DEF MemoryInv
    <2>2. Alone(p)'
      <3>1. \A h \in Memory!consolidate_outcomes(n) \ todo : h \in Groups
               /\ (h = g \/ facts[h] = Memory!Support(h, n))
        BY <1>2, <1>3, <2>1 DEF Alone, Memory!consolidate_outcomes
      <3>2. \A h \in Memory!consolidate_outcomes(n) \ todo : facts'[h] = Memory!Support(h, n)
        BY <1>8, <3>1
      <3> QED
        BY <1>2, <1>3, <1>5, <1>7, <2>1, <3>2 DEF Alone
    <2>3. \A s \in Threads : s # t => Alone(consolidation[s])'
      BY <1>9, <2>1 DEF Alone
    <2>4. Memory!Fingerprint \notin journal
      BY <1>2, <1>4, <2>1 DEF Alone, Memory!Fingerprint
    <2> QED
      BY <1>5, <1>7, <1>9, <2>1, <2>2, <2>3, <2>4
  <1>13. Memory!TypeOK' /\ (outcomes \in Seq(Outcome))' /\ Len(outcomes)' <= MaxOutcomes
           /\ (journal \subseteq 0 .. Len(outcomes))' /\ (overlapped \in BOOLEAN)'
           /\ (\A m \in plans : m <= Len(outcomes) /\ Cardinality(Goods(outcomes, m)) >= MIN_SUPPORT)'
    BY <1>5, <1>7, <1>8 DEF MemoryInv, Memory!TypeOK
  <1> QED
    BY <1>9, <1>10, <1>11, <1>12, <1>13 DEF MemoryInv

\* The step is journaled once all of its facts are written.
LEMMA EndKept ==
    ASSUME Memory!MemoryAssumption, MemoryInv, NEW t \in Threads, Memory!ConsolidateEnd(t)
    PROVE  MemoryInv'
  <1> PICK q, n : q = consolidation[t] /\ n = consolidation[t].of
    OBVIOUS
  <1>1. q \in Jobs /\ q.at = "facts" /\ Reading(q) /\ q.of = n /\ q.todo = {}
           /\ consolidation' = [consolidation EXCEPT ![t] = Memory!Free] /\ journal' = journal \cup {n}
           /\ UNCHANGED <<outcomes, facts, plans, overlapped>>
    BY DEF MemoryInv, Memory!ConsolidateEnd, Memory!At, Memory!FactsWritten, Memory!Finish, Memory!Goto
  <1>2. n \in 0 .. Len(outcomes) /\ Len(outcomes) \in Nat /\ Len(outcomes) <= MaxOutcomes
           /\ MaxOutcomes \in Nat
    BY <1>1, LenProperties DEF Reading, MemoryInv, Memory!MemoryAssumption
  <1>3. /\ \A h, m : Memory!Support(h, m)' = Memory!Support(h, m)
        /\ \A m : Memory!consolidate_outcomes(m)' = Memory!consolidate_outcomes(m)
        /\ \A m : Goods(outcomes, m)' = Goods(outcomes, m)
        /\ Memory!Fingerprint' = Memory!Fingerprint
    BY <1>1, CountsStay
  <1>4. consolidation'[t] = Memory!Free /\ consolidation' \in [Threads -> Jobs]
           /\ \A s \in Threads : s # t => consolidation'[s] = consolidation[s]
    BY <1>1, FreeRecord DEF MemoryInv
  <1>5. \A s \in Threads : Reading(consolidation[s])'
    <2> TAKE s \in Threads
    <2> PICK x : x = consolidation'[s]
      OBVIOUS
    <2>1. Reading(x)
      BY <1>4, FreeRecord DEF MemoryInv
    <2>2. Reading(x)'
      BY <1>1, <1>3, <2>1 DEF Reading
    <2> QED
      BY <2>2
  <1>6. ASSUME ~ overlapped'
        PROVE  /\ (\A s, r \in Threads :
                     consolidation[s].at # "none" /\ consolidation[r].at # "none" => s = r)'
               /\ \A s \in Threads : Alone(consolidation[s])'
               /\ Memory!Fingerprint' \in journal' =>
                     \A h \in Memory!consolidate_outcomes(Memory!Fingerprint)' :
                        facts'[h] = Memory!Support(h, Memory!Fingerprint)'
    <2>1. ~ overlapped /\ Alone(q) /\ \A s \in Threads : s # t => consolidation[s].at = "none"
      BY <1>1, <1>6 DEF MemoryInv
    <2>2. \A s \in Threads : consolidation'[s].at = "none"
      BY <1>4, <2>1 DEF Memory!Free
    <2>3. \A s \in Threads : Alone(consolidation[s])'
      BY <2>2 DEF Alone
    <2>4. \A h \in Memory!consolidate_outcomes(n) : facts[h] = Memory!Support(h, n)
      BY <1>1, <2>1 DEF Alone
    <2>5. Memory!Fingerprint \in journal =>
             \A h \in Memory!consolidate_outcomes(Memory!Fingerprint) :
                facts[h] = Memory!Support(h, Memory!Fingerprint)
      BY <2>1 DEF MemoryInv
    <2> QED
      BY <1>1, <1>3, <2>2, <2>3, <2>4, <2>5
  <1>7. Memory!TypeOK' /\ (outcomes \in Seq(Outcome))' /\ Len(outcomes)' <= MaxOutcomes
           /\ (journal \subseteq 0 .. Len(outcomes))' /\ (overlapped \in BOOLEAN)'
           /\ (\A m \in plans : m <= Len(outcomes) /\ Cardinality(Goods(outcomes, m)) >= MIN_SUPPORT)'
           /\ (\A g \in Groups : facts[g] > 0 =>
                 facts[g] \in MIN_SUPPORT .. Memory!Support(g, Len(outcomes)))'
    <2>1. journal' \subseteq 0 .. Len(outcomes)
      BY <1>1, <1>2 DEF MemoryInv
    <2>2. journal' \subseteq 0 .. MaxOutcomes
      BY <1>2, <2>1
    <2> QED
      BY <1>1, <1>2, <1>3, <2>1, <2>2 DEF MemoryInv, Memory!TypeOK
  <1> QED
    BY <1>4, <1>5, <1>6, <1>7 DEF MemoryInv

\* A playbook is compiled: 70 percent of enough records are enough of them.
LEMMA ActivateKept ==
    ASSUME Memory!MemoryAssumption, MemoryInv, Memory!Activate
    PROVE  MemoryInv'
  <1> PICK n : n = Len(outcomes)
    OBVIOUS
  <1>1. plans' = plans \cup {n} /\ UNCHANGED <<outcomes, facts, journal, consolidation, overlapped>>
           /\ n >= MIN_SUPPORT /\ 10 * Cardinality(Goods(outcomes, n)) >= 7 * n
    BY OneCardinality DEF Memory!Activate, Memory!draft_skills, Goods
  <1>2. n \in 0 .. MaxOutcomes /\ MIN_SUPPORT \in 1 .. 3
    BY LenProperties DEF MemoryInv, Memory!MemoryAssumption
  <1>3. Cardinality(Goods(outcomes, n)) \in Nat
    <2>1. Goods(outcomes, n) \subseteq 1 .. n /\ n \in Nat
      BY <1>2 DEF Goods
    <2> QED
      BY <2>1, PlacesCounted
  <1>4. Cardinality(Goods(outcomes, n)) >= MIN_SUPPORT
    BY <1>1, <1>2, <1>3
  <1>5. /\ \A h, m : Memory!Support(h, m)' = Memory!Support(h, m)
        /\ \A m : Memory!consolidate_outcomes(m)' = Memory!consolidate_outcomes(m)
        /\ \A m : Goods(outcomes, m)' = Goods(outcomes, m)
        /\ Memory!Fingerprint' = Memory!Fingerprint
    BY <1>1, CountsStay
  <1>6. \A s \in Threads : Reading(consolidation[s])' /\ (~ overlapped => Alone(consolidation[s])')
    <2> TAKE s \in Threads
    <2> PICK x : x = consolidation[s]
      OBVIOUS
    <2>1. Reading(x)' /\ (~ overlapped => Alone(x)')
      BY <1>1, <1>5 DEF MemoryInv, Reading, Alone
    <2> QED
      BY <1>1, <2>1
  <1>7. \A m \in plans' : m <= Len(outcomes)' /\ Cardinality(Goods(outcomes, m))' >= MIN_SUPPORT
    BY <1>1, <1>2, <1>4, <1>5 DEF MemoryInv
  <1>8. Memory!TypeOK' /\ (outcomes \in Seq(Outcome))' /\ Len(outcomes)' <= MaxOutcomes
           /\ (consolidation \in [Threads -> Jobs])'
           /\ (journal \subseteq 0 .. Len(outcomes))' /\ (overlapped \in BOOLEAN)'
           /\ (\A g \in Groups : facts[g] > 0 =>
                 facts[g] \in MIN_SUPPORT .. Memory!Support(g, Len(outcomes)))'
    BY <1>1, <1>2, <1>5 DEF MemoryInv, Memory!TypeOK
  <1> QED
    BY <1>1, <1>5, <1>6, <1>7, <1>8 DEF MemoryInv

\* The inductive invariant of what is learned.
THEOREM MemoryInvariance ==
    ASSUME Memory!MemoryAssumption PROVE Memory!Spec => []MemoryInv
  <1>1. Memory!Init => MemoryInv
    <2> SUFFICES ASSUME Memory!Init PROVE MemoryInv
      OBVIOUS
    <2>1. outcomes \in Seq(Outcome) /\ Len(outcomes) = 0 /\ MaxOutcomes \in Nat
      BY EmptySeq DEF Memory!Init, Memory!MemoryAssumption
    <2>2. Memory!TypeOK /\ \A g \in Groups : facts[g] = 0
      BY <2>1 DEF Memory!Init, Memory!TypeOK
    <2>3. consolidation \in [Threads -> Jobs] /\ \A t \in Threads : consolidation[t] = Memory!Free
      BY FreeRecord DEF Memory!Init
    <2>4. journal = {} /\ plans = {} /\ overlapped = FALSE
      BY DEF Memory!Init
    <2>5. \A t \in Threads : Reading(consolidation[t]) /\ Alone(consolidation[t])
             /\ consolidation[t].at = "none"
      BY <2>3, FreeRecord
    <2>6. \A g \in Groups : facts[g] > 0 => facts[g] \in MIN_SUPPORT .. Memory!Support(g, Len(outcomes))
      BY <2>2
    <2>7. \A n \in plans : n <= Len(outcomes) /\ Cardinality(Goods(outcomes, n)) >= MIN_SUPPORT
      BY <2>4
    <2>8. /\ \A s, t \in Threads : consolidation[s].at # "none" /\ consolidation[t].at # "none" => s = t
          /\ \A t \in Threads : Alone(consolidation[t])
          /\ Memory!Fingerprint \in journal =>
                \A g \in Memory!consolidate_outcomes(Memory!Fingerprint) :
                   facts[g] = Memory!Support(g, Memory!Fingerprint)
      BY <2>4, <2>5
    <2>9. Len(outcomes) <= MaxOutcomes
      BY <2>1
    <2>10. journal \subseteq 0 .. Len(outcomes) /\ overlapped \in BOOLEAN
      BY <2>4
    <2> QED
      BY <2>1, <2>2, <2>3, <2>5, <2>6, <2>7, <2>8, <2>9, <2>10 DEF MemoryInv
  <1>2. MemoryInv /\ [Memory!Next]_(Memory!vars) => MemoryInv'
    <2> SUFFICES ASSUME MemoryInv, [Memory!Next]_(Memory!vars) PROVE MemoryInv'
      OBVIOUS
    <2>1. CASE UNCHANGED Memory!vars
      <3>1. UNCHANGED <<outcomes, facts, journal, consolidation, plans, overlapped>>
        BY <2>1 DEF Memory!vars
      <3>2. /\ \A h, m : Memory!Support(h, m)' = Memory!Support(h, m)
            /\ \A m : Memory!consolidate_outcomes(m)' = Memory!consolidate_outcomes(m)
            /\ \A m : Goods(outcomes, m)' = Goods(outcomes, m)
            /\ Memory!Fingerprint' = Memory!Fingerprint
        BY <3>1, CountsStay
      <3>3. \A t \in Threads : Reading(consolidation[t])' /\ (~ overlapped => Alone(consolidation[t])')
        <4> TAKE t \in Threads
        <4> PICK x : x = consolidation[t]
          OBVIOUS
        <4>1. Reading(x)' /\ (~ overlapped => Alone(x)')
          BY <3>1, <3>2 DEF MemoryInv, Reading, Alone
        <4> QED
          BY <3>1, <4>1
      <3> QED
        BY <3>1, <3>2, <3>3 DEF MemoryInv, Memory!TypeOK
    <2>2. ASSUME NEW t \in Threads, Memory!Die(t) PROVE MemoryInv'
      BY <2>2, ConsolidationDies DEF Memory!Die
    <2>3. CASE Memory!Next
      BY <2>2, <2>3, LearnKept, ActivateKept, ConsolidationReads, StartKept, FactKept,
         EndKept DEF Memory!Next
    <2> QED
      BY <2>1, <2>3
  <1> QED
    BY <1>1, <1>2, PTL DEF Memory!Spec

\* What is learned rests on successes.
THEOREM LearningIsEarned ==
    ASSUME Memory!MemoryAssumption PROVE Memory!Spec => []FactsAreEarned
  <1>1. ASSUME MemoryInv PROVE FactsAreEarned
    BY <1>1, OneCardinality DEF MemoryInv, FactsAreEarned, Memory!FactsAreEarned, Goods,
       Memory!Fingerprint
  <1> QED
    BY <1>1, MemoryInvariance, PTL

-----------------------------------------------------------------------------
(* The capability contract (CapabilityContract). *)

\* A row with a status the contract knows.
StatedRow(c) == "status" \in DOMAIN c /\ c.status \in Statuses

\* A policy gives an id one annotation.
OneEach(annotations) == \A a, b \in annotations : a.id = b.id => a = b

\* A branch, whatever was edited in it.
Worked(change) ==
    /\ DOMAIN change = {"source", "annotations", "waivers", "manifest"}
    /\ change.source \subseteq First \cup Source
    /\ change.annotations \subseteq Annotations /\ OneEach(change.annotations)
    /\ DOMAIN change.manifest = {"capabilities", "fingerprint"}
    /\ \A c \in change.manifest.capabilities : StatedRow(c)

\* The rows of a manifest that was merged have different ids.
DifferentIds(rows) == \A c, d \in rows : c.id = d.id => c = d

\* The inductive invariant.
ContractInv ==
    /\ Worked(branch) /\ Worked(base)
    /\ DifferentIds(base.manifest.capabilities)
    /\ \A i \in DOMAIN best : best[i] \in Nat
    /\ RegressionsAreWaived /\ ClaimsAreDiscovered

\* What is not waived under any rule.
Unwaived(waivers, i) == \A rule : ~ is_waived(waivers, i, rule)

\* A rank is a number (STATUS_RANK).
LEMMA RanksAreNumbers == \A s \in Statuses : STATUS_RANK[s] \in 0 .. 4
  BY DEF Statuses, STATUS_RANK

\* Every scan gives its rows a status (the discover_* functions).
LEMMA ScansAreTyped ==
    ASSUME ContractAssumption, NEW source, source \subseteq First \cup Source
    PROVE  \A c \in discover_agents(source) \cup discover_workflows(source)
                \cup discover_openapi_routes(source) \cup discover_connectors(source)
                \cup discover_tools(source) \cup discover_workers(source)
                \cup discover_events(source)
                \cup discover_backends(source, "storage_backend")
                \cup discover_backends(source, "bus_backend")
                \cup discover_worldgen_scenarios(source) \cup discover_multimodal_features(source)
                \cup discover_training_stages(source) \cup discover_frontend_surfaces(source)
                \cup discover_deployment_profiles : StatedRow(c)
  <1>1. \A kind, name, status, edges, typed :
            status \in Statuses => StatedRow(Capability(kind, name, status, edges, typed))
    BY DEF Capability, StatedRow
  <1>2. \A kind, name, edges : StatedRow(Verified(kind, name, edges))
    BY <1>1 DEF Verified, Statuses
  <1>3. \A c \in discover_agents(source) : StatedRow(c)
    <2> SUFFICES ASSUME NEW c \in discover_agents(source) PROVE StatedRow(c)
      OBVIOUS
    <2> DEFINE MetadataOnly(n) == n \notin Found(source, "AgentName")
                                  /\ ~ Has(source, "class", "AgentOrchestrator")
               status(n) == IF MetadataOnly(n) THEN "declaration_only"
                            ELSE IF n = "orchestrator" /\ ~ Has(source, "call", "AgentOrchestrator")
                            THEN "partial" ELSE "verified"
    <2>1. \E n : c = Capability("agent", n, status(n), {}, [metadata_only |-> MetadataOnly(n)])
      BY DEF discover_agents
    <2>2. \A n : status(n) \in Statuses
      BY DEF Statuses
    <2> QED
      BY <2>1, <2>2, <1>1
  <1>4. \A c \in discover_workflows(source) \cup discover_openapi_routes(source)
                    \cup discover_tools(source) \cup discover_workers(source) : StatedRow(c)
    BY <1>2 DEF discover_workflows, discover_openapi_routes, discover_tools, discover_workers
  <1>5. \A c \in discover_connectors(source) : StatedRow(c)
    <2> SUFFICES ASSUME NEW c \in discover_connectors(source) PROVE StatedRow(c)
      OBVIOUS
    <2> DEFINE Is(what, n) == Has(source, what, n)
               status(n) == IF Is("catalogue", n) /\ Is("mapper", n) THEN "verified"
                            ELSE IF Is("catalogue", n) \/ Is("mapper", n) THEN "partial"
                            ELSE "declaration_only"
    <2>1. \E n, typed : c = Capability("connector", n, status(n), {}, typed)
      BY DEF discover_connectors
    <2>2. \A n : status(n) \in Statuses
      BY DEF Statuses
    <2> QED
      BY <2>1, <2>2, <1>1
  <1>6. \A c \in discover_events(source) : StatedRow(c)
    <2> SUFFICES ASSUME NEW c \in discover_events(source) PROVE StatedRow(c)
      OBVIOUS
    <2>1. PICK n, edges, id :
             c \in {Capability("event_type", n, "verified", {}, [consumer |-> id]),
                    [Capability("event_consumer", n, "verified", edges, [event_type |-> n])
                       EXCEPT !.id = id]}
      BY DEF discover_events
    <2>2. c \in {[id |-> <<"event_type", n>>, status |-> "verified", edges |-> {},
                  typed |-> [consumer |-> id], tests |-> {}],
                 [id |-> id, status |-> "verified", edges |-> edges,
                  typed |-> [event_type |-> n], tests |-> {}]}
      BY <2>1 DEF Capability
    <2> QED
      BY <2>2 DEF StatedRow, Statuses
  <1>7. \A kind : \A c \in discover_backends(source, kind) : StatedRow(c)
    BY <1>2 DEF discover_backends
  <1>8. \A c \in discover_worldgen_scenarios(source) \cup discover_multimodal_features(source)
                    \cup discover_frontend_surfaces(source) : StatedRow(c)
    BY <1>2 DEF discover_worldgen_scenarios, discover_multimodal_features,
       discover_frontend_surfaces
  <1>9. \A c \in discover_training_stages(source) : StatedRow(c)
    <2>1. \A n \in Found(source, "stage") : Stages[n].status \in Statuses
      BY DEF ContractAssumption, Found
    <2> QED
      BY <2>1, <1>1 DEF discover_training_stages
  <1>10. \A c \in discover_deployment_profiles : StatedRow(c)
    BY <1>1 DEF discover_deployment_profiles, ContractAssumption
  <1> QED
    BY <1>3, <1>4, <1>5, <1>6, <1>7, <1>8, <1>9, <1>10

\* A policy leaves a row a status (apply_policy): its annotation's, where it gives one.
LEMMA PoliciesAreTyped ==
    ASSUME ContractAssumption, NEW annotations, annotations \subseteq Annotations,
           OneEach(annotations), NEW c, StatedRow(c)
    PROVE  StatedRow(apply_policy(c, annotations))
  <1> DEFINE own == {a \in annotations : a.id = c.id}
             status == IF \E a \in own : a.status # Unset
                       THEN (CHOOSE a \in own : TRUE).status ELSE c.status
  <1>1. status \in Statuses
    <2>1. CASE \E a \in own : a.status # Unset
      <3>1. PICK a \in own : a.status # Unset
        BY <2>1
      <3>2. \A b \in own : b = a
        BY <3>1 DEF OneEach
      <3>3. (CHOOSE b \in own : TRUE) = a
        BY <3>1, <3>2
      <3>4. a.status \in Statuses
        BY <3>1 DEF ContractAssumption
      <3> QED
        BY <2>1, <3>3, <3>4
    <2> QED
      BY <2>1 DEF StatedRow
  <1> HIDE DEF status
  <1>2. \A tests : StatedRow([c EXCEPT !.status = status, !.tests = tests])
    BY <1>1 DEF StatedRow
  <1> QED
    BY <1>2 DEF apply_policy, status, own

\* What discovery makes of a source and a policy is typed (discover_manifest).
LEMMA DiscoveryIsTyped ==
    ASSUME ContractAssumption, NEW source, source \subseteq First \cup Source,
           NEW annotations, annotations \subseteq Annotations, OneEach(annotations)
    PROVE  \A c \in discover_manifest(source, annotations) : StatedRow(c)
  BY ScansAreTyped, PoliciesAreTyped DEF discover_manifest

\* What a sound manifest shows (collect_contract_violations).
LEMMA SoundManifest ==
    ASSUME NEW change, collect_contract_violations(change) = {}
    PROVE  LET rows == change.manifest.capabilities
           IN /\ DifferentIds(rows)
              /\ \A c \in rows :
                    /\ \A e \in c.edges : e.target \in IdsOf(rows)
                    /\ c.status \in VerificationRequired =>
                          /\ \A t \in c.tests : nodeid_resolves(change.source, t)
                          /\ Unwaived(change.waivers, c.id) => c.tests # {}
  <1> DEFINE rows == change.manifest.capabilities
  <1>1. {Violation("duplicate_capability_id", c.id) :
            c \in {d \in rows : \E e \in rows : e # d /\ e.id = d.id}} = {}
    BY DEF collect_contract_violations
  <1>2. DifferentIds(rows)
    BY <1>1 DEF DifferentIds
  <1>3. \A c \in rows : RowViolations(c, rows, change.waivers, change.source) = {}
    BY DEF collect_contract_violations
  <1>4. ASSUME NEW c \in rows
        PROVE  /\ \A e \in c.edges : e.target \in IdsOf(rows)
               /\ c.status \in VerificationRequired =>
                     /\ \A t \in c.tests : nodeid_resolves(change.source, t)
                     /\ Unwaived(change.waivers, c.id) => c.tests # {}
    <2>1. RowViolations(c, rows, change.waivers, change.source) = {}
      BY <1>3
    <2>2. {Violation("unresolved_relationship", c.id) :
            e \in {f \in c.edges : f.target # c.id /\ f.target \notin IdsOf(rows)}} = {}
      BY <2>1 DEF RowViolations
    <2>3. \A e \in c.edges : e.target \in IdsOf(rows)
      BY <2>2 DEF IdsOf
    <2>4. ASSUME c.status \in VerificationRequired
          PROVE  /\ {Violation("unresolved_verification_nodeid", c.id) :
                        t \in {u \in c.tests : ~nodeid_resolves(change.source, u)}} = {}
                 /\ ~ (c.tests = {} /\ ~is_waived(change.waivers, c.id, "missing_verification"))
      BY <2>1, <2>4 DEF RowViolations
    <2> QED
      BY <2>3, <2>4 DEF Unwaived
  <1> QED
    BY <1>2, <1>4

\* What is as discovered is in both manifests (compare_discovered_manifest).
LEMMA NoDrift ==
    ASSUME NEW committed, NEW discovered, NEW waivers,
           compare_discovered_manifest(committed, discovered, waivers) = {},
           NEW c \in committed \cup discovered, Unwaived(waivers, c.id)
    PROVE  c \in committed /\ c \in discovered
  <1>1. c.id \in IdsOf(committed) \cup IdsOf(discovered)
    BY DEF IdsOf
  <1>2. {d \in committed : d.id = c.id} = {d \in discovered : d.id = c.id}
    BY <1>1 DEF compare_discovered_manifest, Unwaived
  <1> QED
    BY <1>2

\* What regresses in nothing keeps its row and its rank (compare_baseline_manifests).
LEMMA NoRegression ==
    ASSUME NEW baseline, NEW current, NEW waivers,
           compare_baseline_manifests(baseline, current, waivers) = {},
           NEW i \in IdsOf(baseline), Unwaived(waivers, i)
    PROVE  /\ i \in IdsOf(current)
           /\ ~ (STATUS_RANK[ById(current, i).status] < STATUS_RANK[ById(baseline, i).status])
  <1>1. i \in IdsOf(current)
    BY DEF compare_baseline_manifests, Unwaived
  <1>2. ~ (STATUS_RANK[ById(current, i).status] < STATUS_RANK[ById(baseline, i).status])
    BY <1>1 DEF compare_baseline_manifests, Unwaived
  <1> QED
    BY <1>1, <1>2

\* A merge gives the base what is sound, as discovered and no regression.
LEMMA MergeKept ==
    ASSUME ContractAssumption, ContractInv, Merge PROVE ContractInv'
  <1> DEFINE rows == branch.manifest.capabilities
             was == base.manifest.capabilities
  <1>1. /\ base' = branch /\ branch' = branch
        /\ excused' = excused \cup {w.id : w \in {v \in branch.waivers : day <= v.expires}}
        /\ collect_contract_violations(branch) = {}
        /\ compare_discovered_manifest(rows,
               discover_manifest(branch.source, branch.annotations), branch.waivers) = {}
        /\ compare_baseline_manifests(was, rows, branch.waivers) = {}
    BY DEF Merge, load_baseline
  <1>2. Worked(branch)' /\ Worked(base)'
    BY <1>1 DEF ContractInv, Worked
  <1>3. \A i : i \notin excused' => i \notin excused /\ Unwaived(branch.waivers, i)
    BY <1>1 DEF Unwaived, is_waived
  <1>4. DifferentIds(rows)
    BY <1>1, SoundManifest
  <1>5. \A d \in rows : ById(rows, d.id) = d
    BY <1>4 DEF ById, DifferentIds
  <1>6. \A d \in was : ById(was, d.id) = d
    BY DEF ById, ContractInv, DifferentIds
  <1>7. /\ DOMAIN best' = DOMAIN best \cup IdsOf(rows)
        /\ \A i \in DOMAIN best' :
              LET old == IF i \in DOMAIN best THEN best[i] ELSE 0
                  new == IF i \in IdsOf(rows) THEN STATUS_RANK[ById(rows, i).status] ELSE 0
              IN best'[i] = IF new > old THEN new ELSE old
    BY DEF Merge
  <1>8. \A d \in rows \cup was : STATUS_RANK[d.status] \in Nat
    BY RanksAreNumbers DEF ContractInv, Worked, StatedRow
  <1>9. \A i \in DOMAIN best : best[i] \in Nat
    BY DEF ContractInv
  <1>10. \A i \in IdsOf(rows) : STATUS_RANK[ById(rows, i).status] \in Nat
    BY <1>5, <1>8 DEF IdsOf
  <1>11. \A i \in DOMAIN best' : best'[i] \in Nat
    BY <1>7, <1>9, <1>10
  <1>12. ASSUME NEW i \in DOMAIN best', i \notin excused'
         PROVE  \E d \in rows : d.id = i /\ STATUS_RANK[d.status] >= best'[i]
    <2>1. i \notin excused /\ Unwaived(branch.waivers, i)
      BY <1>3, <1>12
    <2>2. CASE i \in DOMAIN best
      <3>1. PICK c \in was : c.id = i /\ STATUS_RANK[c.status] >= best[i]
        BY <2>1, <2>2 DEF ContractInv, RegressionsAreWaived
      <3>2. i \in IdsOf(was) /\ ById(was, i) = c
        BY <3>1, <1>6 DEF IdsOf
      <3>3. /\ i \in IdsOf(rows)
            /\ ~ (STATUS_RANK[ById(rows, i).status] < STATUS_RANK[ById(was, i).status])
        BY <3>2, <2>1, <1>1, NoRegression
      <3>4. PICK d \in rows : d.id = i
        BY <3>3 DEF IdsOf
      <3>5. ById(rows, i) = d
        BY <3>4, <1>5
      <3>6. STATUS_RANK[d.status] >= best[i]
        <4>1. ~ (STATUS_RANK[d.status] < STATUS_RANK[c.status])
          BY <3>2, <3>3, <3>5
        <4>2. STATUS_RANK[d.status] \in Nat /\ STATUS_RANK[c.status] \in Nat /\ best[i] \in Nat
          BY <1>8, <1>9, <2>2
        <4> HIDE DEF rows, was
        <4> QED
          BY <4>1, <4>2, <3>1
      <3>7. best'[i] = IF STATUS_RANK[d.status] > best[i] THEN STATUS_RANK[d.status] ELSE best[i]
        BY <1>7, <2>2, <3>3, <3>5
      <3>8. STATUS_RANK[d.status] \in Nat
        BY <1>8
      <3> QED
        BY <3>4, <3>6, <3>7, <3>8
    <2>3. CASE i \notin DOMAIN best
      <3>1. i \in IdsOf(rows)
        BY <1>7, <2>3
      <3>2. PICK d \in rows : d.id = i
        BY <3>1 DEF IdsOf
      <3>3. ById(rows, i) = d
        BY <3>2, <1>5
      <3>4. best'[i] = IF STATUS_RANK[d.status] > 0 THEN STATUS_RANK[d.status] ELSE 0
        BY <1>7, <2>3, <3>1, <3>3
      <3>5. STATUS_RANK[d.status] \in Nat
        BY <1>8
      <3> QED
        BY <3>2, <3>4, <3>5
    <2> QED
      BY <2>2, <2>3
  <1>13. RegressionsAreWaived'
    BY <1>1, <1>12 DEF RegressionsAreWaived
  <1>14. \A c \in rows \cup discover_manifest(branch.source, branch.annotations) :
            c.id \notin excused' =>
                c \in rows /\ c \in discover_manifest(branch.source, branch.annotations)
    BY <1>1, <1>3, NoDrift
  <1>15. \A c \in rows :
            /\ \A e \in c.edges : e.target \in IdsOf(rows)
            /\ c.status \in VerificationRequired =>
                  /\ \A t \in c.tests : nodeid_resolves(branch.source, t)
                  /\ Unwaived(branch.waivers, c.id) => c.tests # {}
    BY <1>1, SoundManifest
  <1>16. ClaimsAreDiscovered'
    <2>1. discover_manifest(base.source, base.annotations)'
             = discover_manifest(branch.source, branch.annotations)
      BY <1>1
    <2> QED
      BY <1>1, <1>3, <1>14, <1>15, <2>1 DEF ClaimsAreDiscovered
  <1> QED
    BY <1>1, <1>2, <1>4, <1>11, <1>13, <1>16 DEF ContractInv

\* What leaves the base and its history alone, and a branch a branch, keeps the rest.
LEMMA EditKept ==
    ASSUME ContractInv, UNCHANGED <<base, best, excused>>, Worked(branch)' PROVE ContractInv'
  <1>1. ClaimsAreDiscovered'
    BY DEF ContractInv, ClaimsAreDiscovered
  <1>2. RegressionsAreWaived'
    BY DEF ContractInv, RegressionsAreWaived
  <1> QED
    BY <1>1, <1>2 DEF ContractInv, Worked

\* An edit leaves a branch a branch.
LEMMA EditsAreWork ==
    ASSUME ContractAssumption, ContractInv
    PROVE  /\ \A e \in Source : EditSource(e) => Worked(branch)'
           /\ \A a \in Annotations : Annotate(a) => Worked(branch)'
           /\ \A w, expires : Waive(w, expires) => Worked(branch)'
           /\ \A w : DropWaiver(w) => Worked(branch)'
           /\ \A c, refresh : HandEdit(c, "demo_verified", refresh) => Worked(branch)'
           /\ Write => Worked(branch)'
  <1>0. Worked(branch)
    BY DEF ContractInv
  <1>1. ASSUME NEW e \in Source, EditSource(e) PROVE Worked(branch)'
    BY <1>0, <1>1 DEF EditSource, Worked
  <1>2. ASSUME NEW a \in Annotations, Annotate(a) PROVE Worked(branch)'
    BY <1>0, <1>2 DEF Annotate, Worked, OneEach
  <1>3. ASSUME NEW w, NEW expires, Waive(w, expires) PROVE Worked(branch)'
    BY <1>0, <1>3 DEF Waive, Worked
  <1>4. ASSUME NEW w, DropWaiver(w) PROVE Worked(branch)'
    BY <1>0, <1>4 DEF DropWaiver, Worked
  <1>5. ASSUME NEW c, NEW refresh, HandEdit(c, "demo_verified", refresh) PROVE Worked(branch)'
    <2> DEFINE rows == (branch.manifest.capabilities \ {c})
                           \cup {[c EXCEPT !.status = "demo_verified"]}
               manifest == IF refresh THEN build_manifest(rows)
                           ELSE [branch.manifest EXCEPT !.capabilities = rows]
    <2>1. StatedRow(c)
      BY <1>0, <1>5 DEF HandEdit, Worked
    <2>2. StatedRow([c EXCEPT !.status = "demo_verified"])
      BY <2>1 DEF StatedRow, Statuses
    <2>3. \A d \in rows : StatedRow(d)
      BY <1>0, <2>2 DEF Worked
    <2> HIDE DEF rows
    <2>4. manifest.capabilities = rows /\ DOMAIN manifest = {"capabilities", "fingerprint"}
      BY <1>0 DEF Worked, build_manifest
    <2>5. branch' = [branch EXCEPT !.manifest = manifest]
      BY <1>5 DEF HandEdit, rows
    <2> HIDE DEF manifest
    <2> QED
      BY <1>0, <2>3, <2>4, <2>5 DEF Worked
  <1>6. ASSUME Write PROVE Worked(branch)'
    <2> DEFINE rows == discover_manifest(branch.source, branch.annotations)
    <2>1. \A d \in rows : StatedRow(d)
      BY <1>0, DiscoveryIsTyped DEF Worked
    <2>2. branch' = [branch EXCEPT !.manifest = build_manifest(rows)]
      BY <1>6 DEF Write
    <2> HIDE DEF rows
    <2> QED
      BY <1>0, <2>1, <2>2 DEF Worked, build_manifest
  <1> QED
    BY <1>1, <1>2, <1>3, <1>4, <1>5, <1>6

\* The base branch begins with what was merged.
LEMMA ContractBegins ==
    ASSUME ContractAssumption, ContractInit PROVE ContractInv
  <1> DEFINE rows == discover_manifest(First, {})
  <1>1. /\ base = [source |-> First, annotations |-> {}, waivers |-> {},
                   manifest |-> build_manifest(rows)]
        /\ branch = base /\ excused = {} /\ collect_contract_violations(base) = {}
        /\ best = [i \in IdsOf(rows) |-> STATUS_RANK[ById(rows, i).status]]
    BY DEF ContractInit, build_manifest
  <1>2. \A c \in rows : StatedRow(c)
    BY DiscoveryIsTyped DEF OneEach
  <1>3. /\ DifferentIds(rows)
        /\ \A c \in rows :
              /\ \A e \in c.edges : e.target \in IdsOf(rows)
              /\ c.status \in VerificationRequired =>
                    /\ \A t \in c.tests : nodeid_resolves(First, t)
                    /\ Unwaived({}, c.id) => c.tests # {}
    <2>1. base.manifest.capabilities = rows /\ base.source = First /\ base.waivers = {}
      BY <1>1 DEF build_manifest
    <2> HIDE DEF rows
    <2> QED
      BY <1>1, <2>1, SoundManifest
  <1>4. \A i : Unwaived({}, i)
    BY DEF Unwaived, is_waived
  <1>5. /\ base.source = First /\ base.annotations = {} /\ base.manifest.capabilities = rows
        /\ DOMAIN base = {"source", "annotations", "waivers", "manifest"}
        /\ DOMAIN base.manifest = {"capabilities", "fingerprint"}
    BY <1>1 DEF build_manifest
  <1>6. Worked(base)
    BY <1>2, <1>5 DEF Worked, OneEach
  <1>7. \A d \in rows : ById(rows, d.id) = d /\ STATUS_RANK[d.status] \in Nat
    BY <1>2, <1>3, RanksAreNumbers DEF ById, DifferentIds, StatedRow
  <1>8. \A i \in DOMAIN best : \E c \in rows : c.id = i /\ best[i] = STATUS_RANK[c.status]
                                                  /\ best[i] \in Nat
    BY <1>1, <1>7 DEF IdsOf
  <1>9. RegressionsAreWaived
    <2> HIDE DEF rows
    <2> SUFFICES ASSUME NEW i \in DOMAIN best
                 PROVE  \E c \in rows : c.id = i /\ STATUS_RANK[c.status] >= best[i]
      BY <1>5 DEF RegressionsAreWaived
    <2>1. PICK c \in rows : c.id = i /\ best[i] = STATUS_RANK[c.status] /\ best[i] \in Nat
      BY <1>8
    <2>2. STATUS_RANK[c.status] >= best[i]
      BY <2>1
    <2> QED
      BY <2>1, <2>2
  <1>10. ClaimsAreDiscovered
    <2>1. discover_manifest(base.source, base.annotations) = rows
      BY <1>5
    <2> HIDE DEF rows
    <2> QED
      BY <1>3, <1>4, <1>5, <2>1 DEF ClaimsAreDiscovered
  <1> QED
    BY <1>1, <1>3, <1>5, <1>6, <1>8, <1>9, <1>10 DEF ContractInv

\* The contract's invariant holds of every sequence of changes (Merge, Write, HandEdit).
THEOREM ContractInvariance ==
    ASSUME ContractAssumption PROVE ContractSpec => []ContractInv
  <1>1. ContractInit => ContractInv
    BY ContractBegins
  <1>2. ContractInv /\ [ContractNext]_contractVars => ContractInv'
    <2> SUFFICES ASSUME ContractInv, [ContractNext]_contractVars PROVE ContractInv'
      OBVIOUS
    <2>1. CASE UNCHANGED contractVars
      <3>1. UNCHANGED <<branch, base, best, excused>>
        BY <2>1 DEF contractVars
      <3>2. Worked(branch)'
        BY <3>1 DEF ContractInv, Worked
      <3> QED
        BY <3>1, <3>2, EditKept
    <2>2. ASSUME Merge PROVE ContractInv'
      BY <2>2, MergeKept
    <2>3. ASSUME Abandon PROVE ContractInv'
      <3>1. UNCHANGED <<base, best, excused>> /\ branch' = base
        BY <2>3 DEF Abandon
      <3>2. Worked(branch)'
        BY <3>1 DEF ContractInv, Worked
      <3> QED
        BY <3>1, <3>2, EditKept
    <2>4. ASSUME Tomorrow PROVE ContractInv'
      <3>1. UNCHANGED <<branch, base, best, excused>>
        BY <2>4 DEF Tomorrow
      <3>2. Worked(branch)'
        BY <3>1 DEF ContractInv, Worked
      <3> QED
        BY <3>1, <3>2, EditKept
    <2>5. CASE ContractNext
      <3>1. CASE Merge \/ Abandon \/ Tomorrow
        BY <3>1, <2>2, <2>3, <2>4
      <3>2. CASE ~ (Merge \/ Abandon \/ Tomorrow)
        <4>1. UNCHANGED <<base, best, excused>>
          BY <2>5, <3>2 DEF ContractNext, EditSource, Annotate, Waive, DropWaiver, HandEdit,
             Write, Edit
        <4>2. Worked(branch)'
          BY <2>5, <3>2, EditsAreWork DEF ContractNext
        <4> QED
          BY <4>1, <4>2, EditKept
      <3> QED
        BY <3>1, <3>2
    <2> QED
      BY <2>1, <2>5
  <1> QED
    BY <1>1, <1>2, PTL DEF ContractSpec

\* What is merged is what was discovered, and no merge takes a claim back without a waiver,
\* for any source, policy and waivers, and any number of changes (compare_discovered_manifest,
\* compare_baseline_manifests, collect_contract_violations).
THEOREM ClaimsAreKept ==
    ASSUME ContractAssumption PROVE ContractSpec => []ContractHolds
  <1>1. ContractInv => ContractHolds
    BY DEF ContractInv, ContractHolds
  <1> QED
    BY <1>1, ContractInvariance, PTL

-----------------------------------------------------------------------------
(* The system. *)

\* The parts share no table, so what each of them guarantees holds of all of them together.
THEOREM SystemIsSound ==
    ASSUME AgentSystemAssumption
    PROVE  System => /\ [](CardsAreEarned /\ VerdictIsConsistent /\ OneAnswerPerMessage
                             /\ MemoryIsCurrent /\ SkillsAreGoverned /\ FactsAreEarned)
                     /\ EvidenceIsKept
  <1>1. Agency!Spec => []CardsAreEarned
    BY AgentsEarnTheirCards DEF AgentSystemAssumption
  <1>2. Rules!Spec => []VerdictIsConsistent
    BY CascadesDecideConsistently
  <1>3. Chat!Spec => []OneAnswerPerMessage /\ []MemoryIsCurrent
    BY ChatIsAnsweredOnce, ChatMemoryIsCurrent DEF AgentSystemAssumption
  <1>4. Skills!Spec => []SkillsAreGoverned /\ EvidenceIsKept
    BY SkillsStayGoverned, EvidenceIsOnRecord DEF AgentSystemAssumption
  <1>5. Memory!Spec => []FactsAreEarned
    BY LearningIsEarned DEF AgentSystemAssumption
  <1> QED
    BY <1>1, <1>2, <1>3, <1>4, <1>5, PTL DEF System

-----------------------------------------------------------------------------
(* The training (TrainingPipeline). *)

\* An adapter as it is written: the model, its tokenizer, its manifest (run_training).
Written(c) == WithTokenizer(SavedAdapter(c))
Parts(c) == {SavedAdapter(c), Written(c), FinishedAdapter(c)}

\* What such an adapter is.
LEMMA PartsHave ==
    ASSUME NEW c, NEW a \in Parts(c)
    PROVE  /\ a.peft = [base |-> c.model, revision |-> c.revision]
           /\ a.truth = [base |-> c.model, revision |-> c.revision]
           /\ a.manifest \in {Absent, Manifest(c)}
  <1> DEFINE saved == SavedAdapter(c)
             written == [saved EXCEPT !.tokens = TRUE]
             finished == [written EXCEPT !.manifest = Manifest(c)]
  <1>1. /\ saved.peft = [base |-> c.model, revision |-> c.revision]
        /\ saved.truth = [base |-> c.model, revision |-> c.revision] /\ saved.manifest = Absent
        /\ DOMAIN saved = {"peft", "manifest", "tokens", "truth"}
    BY DEF SavedAdapter
  <1> HIDE DEF saved
  <1>2. /\ written.peft = saved.peft /\ written.truth = saved.truth
        /\ written.manifest = saved.manifest /\ DOMAIN written = DOMAIN saved
    BY <1>1
  <1> HIDE DEF written
  <1>3. /\ finished.peft = written.peft /\ finished.truth = written.truth
        /\ finished.manifest = Manifest(c)
    BY <1>1, <1>2
  <1> HIDE DEF finished
  <1>4. a \in {saved, written, finished}
    BY DEF Parts, Written, WithTokenizer, FinishedAdapter, WithManifest, saved, written, finished
  <1> QED
    BY <1>1, <1>2, <1>3, <1>4

\* With or without its tokenizer and manifest an adapter goes with the same
\* configurations, and is of their base model and revision
\* (validate_adapter_compatibility).
LEMMA PartsAreAlike ==
    ASSUME TrainingAssumption, NEW c \in Settings, NEW d \in Settings, NEW a \in Parts(c)
    PROVE  Compatible(a, d) <=> Compatible(FinishedAdapter(c), d)
  <1> SUFFICES ASSUME NEW b \in Parts(c)
               PROVE  Compatible(b, d) <=> /\ \A p \in ProfilesOf(c.model) :
                                                 Profiles[p].size = Profiles[d.profile].size
                                           /\ c.model = d.model /\ c.revision = d.revision
    BY DEF Parts
  <1>1. /\ c.profile \in DOMAIN Profiles /\ c.model = Profiles[c.profile].model
        /\ c.revision # Absent /\ Manifest(c) # Absent
    BY DEF TrainingAssumption, ValidSettings
  <1>2. /\ b.peft.base = c.model /\ b.peft.revision = c.revision
        /\ b.manifest \in {Absent, Manifest(c)}
    <2>1. b.peft = [base |-> c.model, revision |-> c.revision]
      BY PartsHave
    <2>2. b.manifest \in {Absent, Manifest(c)}
      BY PartsHave
    <2> QED
      BY <2>1, <2>2
  <1>3. /\ Manifest(c).base = c.model /\ Manifest(c).profile = c.profile
        /\ Manifest(c).size = Profiles[c.profile].size /\ Manifest(c).revision = c.revision
    BY DEF Manifest
  <1>4. c.profile \in ProfilesOf(c.model)
    BY <1>1 DEF ProfilesOf
  <1>5. MetadataAgrees(b)
    BY <1>1, <1>2, <1>3, <1>4 DEF MetadataAgrees
  <1>6. KnownRevision(b) = c.revision
    BY <1>1, <1>2, <1>3 DEF KnownRevision
  <1> QED
    BY <1>1, <1>2, <1>5, <1>6 DEF Compatible

\* And a compatible one is of the configuration's base model and revision.
LEMMA PartsAreOfTheirBase ==
    ASSUME TrainingAssumption, NEW c \in Settings, NEW d \in Settings, NEW a \in Parts(c),
           Compatible(a, d)
    PROVE  c.model = d.model /\ c.revision = d.revision
  <1>1. c.revision # Absent
    BY DEF TrainingAssumption, ValidSettings
  <1>2. /\ a.peft.base = c.model /\ a.peft.revision = c.revision
        /\ a.manifest \in {Absent, Manifest(c)} /\ Manifest(c).revision = c.revision
    <2>1. a.peft = [base |-> c.model, revision |-> c.revision]
      BY PartsHave
    <2>2. a.manifest \in {Absent, Manifest(c)}
      BY PartsHave
    <2> QED
      BY <2>1, <2>2 DEF Manifest
  <1>3. KnownRevision(a) = c.revision
    BY <1>1, <1>2 DEF KnownRevision
  <1> QED
    BY <1>1, <1>2, <1>3 DEF Compatible

\* The same of an adapter that was there before, if it is what its metadata say.
LEMMA OldIsFound ==
    ASSUME TrainingAssumption, NEW p \in DOMAIN OldAdapters, NEW d \in Settings,
           Compatible(OldAdapters[p], d)
    PROVE  OldAdapters[p].truth.base = d.model /\ OldAdapters[p].truth.revision = d.revision
  <1>1. MadeAsSaid(OldAdapters[p]) /\ d.profile \in ProfilesOf(d.model)
    BY DEF TrainingAssumption, ValidSettings, ProfilesOf
  <1>2. OldAdapters[p].peft.base = d.model
    BY DEF Compatible
  <1> QED
    BY <1>1, <1>2 DEF MadeAsSaid, Compatible

\* Where an adapter is, and what it can be.
AdaptersMade ==
    /\ \A p \in DOMAIN OldAdapters : adapters[p] = OldAdapters[p]
    /\ \A s \in Runs, stage \in {"smoke", "full"} :
          /\ adapters[<<s, stage>>] \in {Absent} \cup Parts(ConfigOf(s))
          /\ At(s, Saved[stage]) => adapters[<<s, stage>>] = SavedAdapter(ConfigOf(s))
          /\ At(s, Tokenized[stage]) => adapters[<<s, stage>>] = Written(ConfigOf(s))

\* So one that is loaded is of the configuration's base model and revision.
LEMMA CompatibleIsTrue ==
    ASSUME TrainingAssumption, AdaptersMade, options \in Commands, NEW p \in Places,
           NEW d \in Settings, adapters[p] # Absent, Compatible(adapters[p], d)
    PROVE  adapters[p].truth.base = d.model /\ adapters[p].truth.revision = d.revision
  <1>1. CASE p \in DOMAIN OldAdapters
    BY <1>1, OldIsFound DEF AdaptersMade
  <1>2. ASSUME NEW s \in Runs, NEW stage \in {"smoke", "full"}, p = <<s, stage>>
        PROVE  adapters[p].truth.base = d.model /\ adapters[p].truth.revision = d.revision
    <2> DEFINE c == ConfigOf(s)
    <2>1. c \in Settings
      BY DEF TrainingAssumption, ConfigOf
    <2>2. adapters[p] \in Parts(c)
      BY <1>2 DEF AdaptersMade
    <2>3. adapters[p].truth = [base |-> c.model, revision |-> c.revision]
      BY <2>2, PartsHave
    <2>4. c.model = d.model /\ c.revision = d.revision
      BY <2>1, <2>2, PartsAreOfTheirBase
    <2> HIDE DEF c
    <2> QED
      BY <2>2, <2>3, <2>4
  <1> QED
    BY <1>1, <1>2 DEF Places

\* What a shakedown keeps, and the stages of its report.
RunFields == {"at", "dir", "rows", "batch", "place", "inference", "answers", "summary", "serving",
              "stages"}
StageNames == {"simulation_dataset_generation", "preflight", "smoke_train", "full_train",
               "dry_run_eval", "generated_evaluation", "fixture_only_evaluation", "serving_check"}
RunShape ==
    \A s \in Runs : DOMAIN training[s] = RunFields /\ training[s].stages \in Seq(StageNames)

Did(s, name) == \E i \in DOMAIN training[s].stages : training[s].stages[i] = name

\* Before its evaluation: the rows are those that were generated, and an adapter whose
\* training the run reports is complete and is not trained again.
Saving == {"smoke_saved", "full_saved", "smoke_tokenized", "full_tokenized"}
WithRows == {"preflight", "smoke", "full"} \cup Saving
Before == {"new", "mkdir", "dataset"} \cup WithRows
Prepared(s) ==
    /\ training[s].at \in WithRows =>
          \E refrigerated \in BOOLEAN : training[s].rows = GenerateRows(refrigerated)
    /\ Did(s, "full_train") =>
          training[s].at \notin Before /\ adapters[<<s, "full">>] = FinishedAdapter(ConfigOf(s))
    /\ \A i \in DOMAIN training[s].batch : Teaches(training[s].batch[i])

\* From its evaluation on: the adapter it chose stays compatible, whoever trains over it.
Chosen(s, p) ==
    /\ p \in Places /\ ~options[s].dry_run
    /\ adapters[p] # Absent /\ Compatible(adapters[p], ConfigOf(s))
Evaluating(s) ==
    /\ training[s].at \in {"generate", "summarize", "serving", "report", "done"} =>
          /\ training[s].inference = (training[s].place # Absent)
          /\ training[s].place # Absent => Chosen(s, training[s].place)
    /\ training[s].at \in {"summarize", "serving", "report", "done"} =>
          DOMAIN training[s].answers = 1 .. EvalExamples

\* What a gate that passed says of the answers.
Earned(s) ==
    LET own == training[s].answers
    IN /\ training[s].inference
       /\ \A i \in DOMAIN own : ~own[i].empty
       /\ 100 * Cardinality({i \in DOMAIN own : ReferenceEcho(own[i])}) <= MaxEcho * EvalExamples
       /\ 100 * Cardinality({i \in DOMAIN own : own[i].risk}) >= MinRisk * EvalExamples

\* Once it is recorded, the registry keeps the evaluation and the report names it.
Recorded(s) ==
    training[s].at \in {"serving", "report", "done"} =>
        /\ training[s].summary.id \in DOMAIN registry
        /\ registry[training[s].summary.id].by = s
        /\ registry[training[s].summary.id].gate_passed => training[s].summary.gate
        /\ training[s].summary.gate => Earned(s)
        /\ training[s].inference => Did(s, "generated_evaluation")
        /\ training[s].at = "serving" => training[s].inference

\* The endpoint was asked, and answered.
Probed(s) ==
    training[s].serving # Absent =>
        /\ training[s].at \in {"report", "done", "failed"}
        /\ training[s].serving.ready =>
              /\ Did(s, "generated_evaluation") /\ Did(s, "serving_check")
              /\ training[s].serving.reply # Absent /\ training[s].serving.reply.correct
              /\ training[s].serving.reply.named

\* The report is that of the run, which is over.
Reported(s) ==
    reports[s] # Absent =>
        /\ training[s].at = "done"
        /\ reports[s] =
              [stages |-> training[s].stages,
               training_evaluation_ready |-> ~options[s].dry_run /\ training[s].summary.gate,
               deployment_ready |-> training[s].serving # Absent /\ training[s].serving.ready]

RunIsSound(s) == Prepared(s) /\ Evaluating(s) /\ Recorded(s) /\ Probed(s) /\ Reported(s)

\* The inductive invariant.
TrainingInv ==
    /\ TrainingTypes /\ RunShape /\ AdaptersMade /\ AdaptersKeepTheirBase /\ DirectoriesAreOwn
    /\ \A s \in Runs : RunIsSound(s)


\* A stage more in the report (_stage).
LEMMA StageAdded ==
    ASSUME NEW st \in Seq(StageNames), NEW n \in StageNames
    PROVE  /\ Append(st, n) \in Seq(StageNames)
           /\ \A m : (\E i \in DOMAIN Append(st, n) : Append(st, n)[i] = m)
                        <=> m = n \/ \E i \in DOMAIN st : st[i] = m
  <1>1. /\ Append(st, n) \in Seq(StageNames) /\ Len(Append(st, n)) = Len(st) + 1
        /\ \A i \in 1 .. Len(st) : Append(st, n)[i] = st[i]
        /\ Append(st, n)[Len(st) + 1] = n
    BY AppendProperties
  <1>2. DOMAIN st = 1 .. Len(st) /\ DOMAIN Append(st, n) = 1 .. Len(st) + 1 /\ Len(st) \in Nat
    BY <1>1, LenProperties
  <1>3. DOMAIN Append(st, n) = (1 .. Len(st)) \cup {Len(st) + 1}
    BY <1>2
  <1> QED
    BY <1>1, <1>2, <1>3

\* A step of s, as far as all of them are alike.
StepOf(s) ==
    /\ options' = options /\ files' = files /\ second' = second
    /\ DOMAIN training' = Runs /\ DOMAIN training'[s] = RunFields
    /\ training'[s].stages \in Seq(StageNames)
    /\ \A t \in Runs \ {s} :
          /\ training'[t] = training[t] /\ reports'[t] = reports[t]
          /\ adapters'[<<t, "full">>] = adapters[<<t, "full">>]

\* What a run relies on stays: what was recorded, and that an adapter can be used.
Lasting ==
    /\ DOMAIN adapters' = Places
    /\ \A id \in DOMAIN registry : id \in DOMAIN registry' /\ registry'[id] = registry[id]
    /\ \A p \in Places : \A c \in Settings :
          adapters[p] # Absent /\ Compatible(adapters[p], c)
              => adapters'[p] # Absent /\ Compatible(adapters'[p], c)

\* So a step of another run disturbs nothing.
LEMMA RunUndisturbed ==
    ASSUME TrainingAssumption, TrainingInv, NEW s \in Runs, NEW t \in Runs \ {s}, StepOf(s), Lasting
    PROVE  RunIsSound(t)'
  <1>1. RunIsSound(t) /\ options \in Commands
    BY DEF TrainingInv, TrainingTypes
  <1>2. /\ training'[t] = training[t] /\ reports'[t] = reports[t] /\ options' = options
        /\ adapters'[<<t, "full">>] = adapters[<<t, "full">>]
    BY DEF StepOf
  <1>3. ConfigOf(t)' = ConfigOf(t) /\ ConfigOf(t) \in Settings
    BY <1>1, <1>2 DEF ConfigOf, TrainingAssumption
  <1>4. \A p : Chosen(t, p) => Chosen(t, p)'
    BY <1>2, <1>3 DEF Chosen, Lasting
  <1>5. \A n : Did(t, n)' <=> Did(t, n)
    BY <1>2 DEF Did
  <1>6. Prepared(t)'
    BY <1>1, <1>2, <1>3, <1>5 DEF RunIsSound, Prepared
  <1>7. Evaluating(t)'
    BY <1>1, <1>2, <1>4 DEF RunIsSound, Evaluating
  <1>8. Earned(t)' <=> Earned(t)
    BY <1>2 DEF Earned
  <1>9. Recorded(t)'
    BY <1>1, <1>2, <1>5, <1>8 DEF RunIsSound, Recorded, Lasting
  <1>10. Probed(t)'
    BY <1>1, <1>2, <1>5 DEF RunIsSound, Probed
  <1>11. Reported(t)'
    BY <1>1, <1>2 DEF RunIsSound, Reported
  <1> QED
    BY <1>6, <1>7, <1>9, <1>10, <1>11 DEF RunIsSound

\* And a step keeps the invariant if its own run stays sound.
LEMMA RunStep ==
    ASSUME TrainingAssumption, TrainingInv, NEW s \in Runs, StepOf(s), Lasting, RunIsSound(s)',
           AdaptersMade', AdaptersKeepTheirBase', DirectoriesAreOwn'
    PROVE  TrainingInv'
  <1>1. TrainingTypes'
    BY DEF TrainingInv, TrainingTypes, StepOf, Lasting
  <1>2. RunShape'
    BY DEF TrainingInv, RunShape, StepOf
  <1>3. \A t \in Runs : RunIsSound(t)'
    BY RunUndisturbed
  <1> QED
    BY <1>1, <1>2, <1>3 DEF TrainingInv

\* A step that writes no adapter.
LEMMA NoAdapterWritten ==
    ASSUME TrainingInv, NEW s \in Runs, StepOf(s), adapters' = adapters,
           training'[s].at \notin Saving
    PROVE  AdaptersMade'
  <1>1. AdaptersMade
    BY DEF TrainingInv
  <1>2. ASSUME NEW t \in Runs, NEW stage \in {"smoke", "full"}
        PROVE  /\ adapters'[<<t, stage>>]
                     \in {Absent} \cup Parts(ConfigOf(t)')
               /\ At(t, Saved[stage])' => adapters'[<<t, stage>>] = SavedAdapter(ConfigOf(t)')
               /\ At(t, Tokenized[stage])' => adapters'[<<t, stage>>] = Written(ConfigOf(t)')
    <2>1. ConfigOf(t)' = ConfigOf(t)
      BY DEF ConfigOf, StepOf
    <2>2. /\ At(t, Saved[stage])' => At(t, Saved[stage])
          /\ At(t, Tokenized[stage])' => At(t, Tokenized[stage])
      BY DEF StepOf, At, Saved, Tokenized, Saving
    <2> QED
      BY <1>1, <2>1, <2>2 DEF AdaptersMade
  <1> QED
    BY <1>1, <1>2 DEF AdaptersMade

\* A step that writes no adapter, evaluation or directory.
LEMMA QuietStep ==
    ASSUME TrainingAssumption, TrainingInv, NEW s \in Runs, StepOf(s), RunIsSound(s)',
           training'[s].at \notin Saving,
           UNCHANGED <<adapters, registry, dirs>>, AdaptersKeepTheirBase'
    PROVE  TrainingInv'
  <1>1. Lasting
    BY DEF Lasting, TrainingInv, TrainingTypes
  <1>2. AdaptersMade'
    BY NoAdapterWritten
  <1>3. DirectoriesAreOwn'
    BY DEF TrainingInv, DirectoriesAreOwn
  <1> QED
    BY <1>1, <1>2, <1>3, RunStep

\* Nothing else is known of a run that has failed.
LEMMA RunFails ==
    ASSUME TrainingAssumption, TrainingInv, NEW s \in Runs, Fail(s), training[s].at # "done",
           UNCHANGED <<options, adapters, dirs, registry, reports, second, files, loaded>>
    PROVE  TrainingInv'
  <1>1. /\ DOMAIN training = Runs /\ DOMAIN training[s] = RunFields
        /\ training[s].stages \in Seq(StageNames) /\ RunIsSound(s)
    BY DEF TrainingInv, TrainingTypes, RunShape
  <1>2. training' = [training EXCEPT ![s].at = "failed"]
    BY DEF Fail, Go
  <1>3. /\ DOMAIN training' = Runs /\ DOMAIN training'[s] = RunFields
        /\ training'[s].at = "failed" /\ training'[s].stages = training[s].stages
        /\ training'[s].batch = training[s].batch /\ training'[s].serving = training[s].serving
        /\ \A t \in Runs \ {s} : training'[t] = training[t]
    BY <1>1, <1>2 DEF RunFields
  <1>4. StepOf(s)
    BY <1>1, <1>3 DEF StepOf
  <1>5. \A n : Did(s, n)' <=> Did(s, n)
    BY <1>3 DEF Did
  <1>6. Prepared(s)'
    BY <1>1, <1>3, <1>5 DEF RunIsSound, Prepared, Before, WithRows, Saving,
         ConfigOf
  <1>7. Evaluating(s)' /\ Recorded(s)'
    BY <1>3 DEF Evaluating, Recorded
  <1>8. Probed(s)'
    BY <1>1, <1>3, <1>5 DEF RunIsSound, Probed
  <1>9. Reported(s)'
    BY <1>1, <1>3 DEF RunIsSound, Reported
  <1>10. AdaptersKeepTheirBase'
    BY DEF TrainingInv, AdaptersKeepTheirBase
  <1> QED
    BY <1>3, <1>4, <1>6, <1>7, <1>8, <1>9, <1>10, QuietStep
       DEF RunIsSound, Saving

\* A run before its evaluation goes on to a state before it or at its beginning.
LEMMA RunGoesOn ==
    ASSUME TrainingAssumption, TrainingInv, NEW s \in Runs, training[s].at \in Before,
           StepOf(s), training'[s].at \in Before \cup {"evaluate", "failed"},
           \A n \in {"full_train", "generated_evaluation", "serving_check"} :
              Did(s, n)' => Did(s, n),
           training'[s].at \in WithRows =>
              \E refrigerated \in BOOLEAN : training'[s].rows = GenerateRows(refrigerated),
           \A i \in DOMAIN training'[s].batch : Teaches(training'[s].batch[i]),
           training'[s].serving = training[s].serving, reports' = reports
    PROVE  RunIsSound(s)'
  <1>1. RunIsSound(s)
    BY DEF TrainingInv
  <1>2. Prepared(s)'
    BY <1>1 DEF RunIsSound, Prepared
  <1>3. Evaluating(s)' /\ Recorded(s)'
    BY DEF Evaluating, Recorded, Before, WithRows, Saving
  <1>4. training[s].serving = Absent /\ reports[s] = Absent
    BY <1>1 DEF RunIsSound, Probed, Reported, Before, WithRows, Saving
  <1>5. Probed(s)' /\ Reported(s)'
    BY <1>4 DEF Probed, Reported
  <1> QED
    BY <1>2, <1>3, <1>5 DEF RunIsSound

\* A run looks for a name and takes it (timestamped_run_dir).
LEMMA DirectoryStep ==
    ASSUME TrainingAssumption, TrainingInv, NEW s \in Runs, ChooseDirectory(s) \/ MakeDirectory(s)
    PROVE  TrainingInv'
  <1>1. /\ DOMAIN training = Runs /\ DOMAIN training[s] = RunFields
        /\ training[s].stages \in Seq(StageNames) /\ RunIsSound(s)
    BY DEF TrainingInv, TrainingTypes, RunShape
  <1>2. CASE ~DirectoryIsNew(s) /\ MakeDirectory(s)
    BY <1>2, RunFails DEF MakeDirectory, At
  <1>3. ASSUME ~(~DirectoryIsNew(s) /\ MakeDirectory(s))
        PROVE  TrainingInv'
    <2>1. /\ training[s].at \in {"new", "mkdir"} /\ training'[s].at \in {"mkdir", "dataset"}
          /\ DOMAIN training' = Runs /\ DOMAIN training'[s] = RunFields
          /\ training'[s].stages = training[s].stages /\ training'[s].batch = training[s].batch
          /\ training'[s].serving = training[s].serving
          /\ \A t \in Runs \ {s} : training'[t] = training[t]
      BY <1>1, <1>3 DEF ChooseDirectory, MakeDirectory, At, Go, RunFields
    <2>2. UNCHANGED <<options, adapters, registry, reports, second, files, loaded>>
      BY DEF ChooseDirectory, MakeDirectory
    <2>3. StepOf(s)
      BY <1>1, <2>1, <2>2 DEF StepOf
    <2>4. \A n : Did(s, n)' <=> Did(s, n)
      BY <2>1 DEF Did
    <2>5. RunIsSound(s)'
      <3>1. \A i \in DOMAIN training'[s].batch : Teaches(training'[s].batch[i])
        BY <1>1, <2>1 DEF RunIsSound, Prepared
      <3>2. training[s].at \in Before /\ training'[s].at \in Before \cup {"evaluate"}
            /\ training'[s].at \notin WithRows
        BY <2>1 DEF Before, WithRows, Saving
      <3> QED
        BY <2>1, <2>2, <2>3, <2>4, <3>1, <3>2, RunGoesOn
    <2>6. DirectoriesAreOwn'
      <3>1. DirectoriesAreOwn
        BY DEF TrainingInv
      <3>2. \/ dirs' = dirs
            \/ DirectoryIsNew(s) /\ dirs' = dirs \cup {[name |-> training[s].dir, by |-> s]}
        BY <1>3 DEF ChooseDirectory, MakeDirectory
      <3> QED
        BY <3>1, <3>2 DEF DirectoriesAreOwn, DirectoryIsNew
    <2>7. Lasting
      BY <2>2 DEF Lasting, TrainingInv, TrainingTypes
    <2>8. AdaptersMade'
      BY <2>1, <2>2, <2>3, NoAdapterWritten DEF Saving
    <2>9. AdaptersKeepTheirBase'
      BY <2>2 DEF TrainingInv, AdaptersKeepTheirBase
    <2> QED
      BY <2>3, <2>5, <2>6, <2>7, <2>8, <2>9, RunStep
  <1> QED
    BY <1>2, <1>3

\* The datasets are made, and the machine is checked (build_shakedown_datasets,
\* run_preflight).
LEMMA PreparationStep ==
    ASSUME TrainingAssumption, TrainingInv, NEW s \in Runs, BuildDatasets(s) \/ Preflight(s)
    PROVE  TrainingInv'
  <1>1. /\ DOMAIN training = Runs /\ DOMAIN training[s] = RunFields
        /\ training[s].stages \in Seq(StageNames) /\ RunIsSound(s)
    BY DEF TrainingInv, TrainingTypes, RunShape
  <1>2. /\ training[s].at \in {"dataset", "preflight"}
        /\ UNCHANGED <<options, adapters, dirs, registry, reports, second, files, loaded>>
    BY DEF BuildDatasets, Preflight, At
  <1>3. CASE Fail(s)
    BY <1>2, <1>3, RunFails
  <1>4. ASSUME ~Fail(s)
        PROVE  TrainingInv'
    <2> DEFINE after == IF BuildDatasets(s) THEN AfterDataset(s) ELSE AfterPreflight(s)
    <2>1. AfterPreflight(s) \in {"evaluate", "smoke"}
      BY DEF AfterPreflight
    <2>2. AfterDataset(s) \in {"evaluate", "smoke", "preflight"}
      BY <2>1 DEF AfterDataset
    <2>3. PICK n \in {"simulation_dataset_generation", "preflight"},
               next \in {"evaluate", "smoke", "preflight"}, refrigerated \in BOOLEAN :
             training' = [training EXCEPT ![s].at = next, ![s].rows = GenerateRows(refrigerated),
                                          ![s].stages = Append(@, n)]
      <3>1. CASE BuildDatasets(s)
        BY <1>4, <2>2, <3>1 DEF BuildDatasets
      <3>2. CASE Preflight(s)
        <4>1. training' = [training EXCEPT ![s].at = AfterPreflight(s),
                                           ![s].stages = Append(@, "preflight")]
          BY <1>4, <3>2 DEF Preflight, Stage
        <4>2. training' = [training EXCEPT ![s].at = AfterPreflight(s),
                                           ![s].rows = training[s].rows,
                                           ![s].stages = Append(@, "preflight")]
          BY <1>1, <4>1 DEF RunFields
        <4>3. PICK refrigerated \in BOOLEAN : training[s].rows = GenerateRows(refrigerated)
          BY <1>1, <3>2 DEF RunIsSound, Prepared, Preflight, At, WithRows
        <4> QED
          BY <2>1, <4>2, <4>3
      <3> QED
        BY <3>1, <3>2
    <2>4. /\ training'[s].at = next /\ training'[s].rows = GenerateRows(refrigerated)
          /\ DOMAIN training' = Runs /\ DOMAIN training'[s] = RunFields
          /\ training'[s].stages = Append(training[s].stages, n)
          /\ training'[s].batch = training[s].batch /\ training'[s].serving = training[s].serving
          /\ \A t \in Runs \ {s} : training'[t] = training[t]
      BY <1>1, <2>3 DEF RunFields
    <2>5. /\ training'[s].stages \in Seq(StageNames)
          /\ \A m : Did(s, m)' => m = n \/ Did(s, m)
      <3>1. n \in StageNames
        BY DEF StageNames
      <3> QED
        BY <1>1, <2>4, <3>1, StageAdded DEF Did
    <2>6. StepOf(s)
      BY <1>2, <2>4, <2>5 DEF StepOf
    <2>7. RunIsSound(s)'
      <3>1. \A i \in DOMAIN training'[s].batch : Teaches(training'[s].batch[i])
        BY <1>1, <2>4 DEF RunIsSound, Prepared
      <3>2. training[s].at \in Before /\ training'[s].at \in Before \cup {"evaluate"}
        BY <1>2, <2>4 DEF Before, WithRows, Saving
      <3> QED
        BY <1>2, <2>3, <2>4, <2>5, <2>6, <3>1, <3>2, RunGoesOn
    <2>8. AdaptersKeepTheirBase'
      BY <1>2 DEF TrainingInv, AdaptersKeepTheirBase
    <2> QED
      BY <1>2, <2>4, <2>6, <2>7, <2>8, QuietStep DEF Saving
  <1> QED
    BY <1>3, <1>4

\* Whose adapter it is: its own, the one it was given, or none (run_shakedown).
LEMMA SelectedIsPlaced ==
    ASSUME TrainingAssumption, options \in Commands, NEW s \in Runs, SelectedAdapter(s) # Absent
    PROVE  SelectedAdapter(s) \in Places /\ ~options[s].dry_run
  <1>1. CASE ~options[s].skip_training /\ ~options[s].dry_run
    BY <1>1 DEF SelectedAdapter, Places
  <1>2. CASE options[s].skip_training \/ options[s].dry_run
    <2>1. ~options[s].dry_run /\ SelectedAdapter(s) = options[s].adapter
      BY <1>2 DEF SelectedAdapter
    <2>2. options[s].adapter \in Places \cup {Absent}
      BY DEF TrainingAssumption
    <2> QED
      BY <2>1, <2>2
  <1> QED
    BY <1>1, <1>2

\* The evaluation begins (run_evaluation, _build_adapter_generator).
LEMMA BeginEvaluationStep ==
    ASSUME TrainingAssumption, TrainingInv, NEW s \in Runs, BeginEvaluation(s)
    PROVE  TrainingInv'
  <1> DEFINE c == ConfigOf(s)
  <1>0. PICK p : p = SelectedAdapter(s)
    OBVIOUS
  <1>1. /\ DOMAIN training = Runs /\ DOMAIN training[s] = RunFields
        /\ training[s].stages \in Seq(StageNames) /\ RunIsSound(s) /\ options \in Commands
    BY DEF TrainingInv, TrainingTypes, RunShape
  <1>2. /\ training[s].at = "evaluate"
        /\ UNCHANGED <<options, adapters, dirs, registry, reports, second, files>>
    BY DEF BeginEvaluation, At
  <1>3. CASE p # Absent /\ ~Usable(p, c)
    BY <1>0, <1>2, <1>3, RunFails DEF BeginEvaluation
  <1>4. CASE p = Absent \/ Usable(p, c)
    <2>1. training' = [training EXCEPT ![s].at = "generate", ![s].place = p,
                           ![s].inference = p # Absent, ![s].summary = second]
      BY <1>0, <1>4 DEF BeginEvaluation
    <2>2. /\ training'[s].at = "generate" /\ training'[s].place = p
          /\ training'[s].inference = (p # Absent)
          /\ DOMAIN training' = Runs /\ DOMAIN training'[s] = RunFields
          /\ training'[s].stages = training[s].stages
          /\ training'[s].batch = training[s].batch /\ training'[s].serving = training[s].serving
          /\ \A t \in Runs \ {s} : training'[t] = training[t]
      BY <1>1, <2>1 DEF RunFields
    <2>3. StepOf(s)
      BY <1>1, <1>2, <2>2 DEF StepOf
    <2>4. \A n : Did(s, n)' <=> Did(s, n)
      BY <2>2 DEF Did
    <2>5. Prepared(s)'
      BY <1>1, <1>2, <2>2, <2>4 DEF RunIsSound, Prepared, Before, WithRows, Saving,
         ConfigOf
    <2>6. p # Absent => Chosen(s, p)
      BY <1>0, <1>1, <1>4, SelectedIsPlaced DEF Chosen, Usable
    <2>7. p # Absent => Chosen(s, p)'
      BY <1>2, <2>6 DEF Chosen, ConfigOf
    <2>8. Evaluating(s)'
      BY <2>2, <2>7 DEF Evaluating
    <2>9. Recorded(s)'
      BY <2>2 DEF Recorded
    <2>10. training[s].serving = Absent /\ reports[s] = Absent
      BY <1>1, <1>2 DEF RunIsSound, Probed, Reported
    <2>11. Probed(s)' /\ Reported(s)'
      BY <1>2, <2>2, <2>10 DEF Probed, Reported
    <2>12. AdaptersKeepTheirBase'
      <3>1. AdaptersKeepTheirBase /\ AdaptersMade
        BY DEF TrainingInv
      <3>2. CASE p = Absent
        BY <1>0, <1>4, <3>1, <3>2 DEF AdaptersKeepTheirBase, BeginEvaluation
      <3>3. CASE p # Absent
        <4>1. p \in Places /\ adapters[p] # Absent /\ Compatible(adapters[p], c)
          BY <2>6, <3>3 DEF Chosen
        <4>2. c \in Settings
          BY <1>1 DEF ConfigOf, TrainingAssumption
        <4>3. adapters[p].truth.base = c.model /\ adapters[p].truth.revision = c.revision
          BY <1>1, <3>1, <4>1, <4>2, CompatibleIsTrue
        <4>4. loaded' = loaded \cup {[truth |-> adapters[p].truth, base |-> c.model,
                                      revision |-> c.revision]}
          BY <1>0, <1>4, <3>3 DEF BeginEvaluation, Load
        <4> HIDE DEF c
        <4> QED
          BY <3>1, <4>3, <4>4 DEF AdaptersKeepTheirBase
      <3> QED
        BY <3>2, <3>3
    <2> QED
      BY <1>2, <2>2, <2>3, <2>5, <2>8, <2>9, <2>11, <2>12, QuietStep
       DEF RunIsSound, Saving
  <1> QED
    BY <1>3, <1>4

\* The model answers (run_evaluation).
LEMMA GenerateStep ==
    ASSUME TrainingAssumption, TrainingInv, NEW s \in Runs, Generate(s)
    PROVE  TrainingInv'
  <1>1. /\ DOMAIN training = Runs /\ DOMAIN training[s] = RunFields
        /\ training[s].stages \in Seq(StageNames) /\ RunIsSound(s)
    BY DEF TrainingInv, TrainingTypes, RunShape
  <1>2. /\ training[s].at = "generate"
        /\ UNCHANGED <<options, adapters, dirs, registry, reports, second, files, loaded>>
    BY DEF Generate, At
  <1>3. PICK own : /\ DOMAIN own = 1 .. EvalExamples
                   /\ training' = [training EXCEPT ![s].at = "summarize", ![s].answers = own]
    BY DEF Generate
  <1>4. /\ training'[s].at = "summarize" /\ training'[s].answers = own
        /\ DOMAIN training' = Runs /\ DOMAIN training'[s] = RunFields
        /\ training'[s].stages = training[s].stages /\ training'[s].batch = training[s].batch
        /\ training'[s].serving = training[s].serving /\ training'[s].place = training[s].place
        /\ training'[s].inference = training[s].inference
        /\ \A t \in Runs \ {s} : training'[t] = training[t]
    BY <1>1, <1>3 DEF RunFields
  <1>5. StepOf(s)
    BY <1>1, <1>2, <1>4 DEF StepOf
  <1>6. \A n : Did(s, n)' <=> Did(s, n)
    BY <1>4 DEF Did
  <1>7. Prepared(s)'
    BY <1>1, <1>2, <1>4, <1>6 DEF RunIsSound, Prepared, Before, WithRows, Saving,
         ConfigOf
  <1>8. Chosen(s, training[s].place) => Chosen(s, training[s].place)'
    BY <1>2, <1>4 DEF Chosen, ConfigOf
  <1>9. Evaluating(s)'
    BY <1>1, <1>2, <1>3, <1>4, <1>8 DEF RunIsSound, Evaluating
  <1>10. training[s].serving = Absent /\ reports[s] = Absent
    BY <1>1, <1>2 DEF RunIsSound, Probed, Reported
  <1>11. Recorded(s)' /\ Probed(s)' /\ Reported(s)'
    BY <1>2, <1>4, <1>10 DEF Recorded, Probed, Reported
  <1>12. AdaptersKeepTheirBase'
    BY <1>2 DEF TrainingInv, AdaptersKeepTheirBase
  <1> QED
    BY <1>2, <1>4, <1>5, <1>7, <1>9, <1>11, <1>12, QuietStep
       DEF RunIsSound, Saving

\* A gate that passed says what the answers are (_evaluation_summary).
LEMMA GateIsEarned ==
    ASSUME NEW s \in Runs, DOMAIN training[s].answers = 1 .. EvalExamples,
           GatePasses([i \in 1 .. EvalExamples |-> Score(EvalRows(s)[i], training[s].answers[i])],
                      training[s].inference)
    PROVE  Earned(s)
  <1> DEFINE own == training[s].answers
             scores == [i \in 1 .. EvalExamples |-> Score(EvalRows(s)[i], own[i])]
  <1>1. \A i \in 1 .. EvalExamples :
           /\ scores[i].risk_classification = own[i].risk /\ scores[i].empty = own[i].empty
           /\ scores[i].echo = ReferenceEcho(own[i])
    BY DEF Score
  <1>2. /\ DOMAIN scores = 1 .. EvalExamples /\ training[s].inference
        /\ \A i \in DOMAIN scores : ~scores[i].empty
        /\ 100 * Cardinality({i \in DOMAIN scores : scores[i].echo}) <= MaxEcho * EvalExamples
        /\ 100 * Cardinality({i \in DOMAIN scores : scores[i].risk_classification})
              >= MinRisk * EvalExamples
    BY DEF GatePasses
  <1>3. own = training[s].answers
    OBVIOUS
  <1> HIDE DEF own, scores
  <1>4. {i \in DOMAIN scores : scores[i].echo} = {i \in DOMAIN own : ReferenceEcho(own[i])}
    BY <1>1, <1>2, <1>3
  <1>5. {i \in DOMAIN scores : scores[i].risk_classification} = {i \in DOMAIN own : own[i].risk}
    BY <1>1, <1>2, <1>3
  <1>6. \A i \in DOMAIN own : ~own[i].empty
    BY <1>1, <1>2, <1>3
  <1> QED
    BY <1>2, <1>4, <1>5, <1>6 DEF Earned, own

\* The evaluation is recorded, once for its id (run_evaluation, _evaluation_summary).
LEMMA RecordEvaluationStep ==
    ASSUME TrainingAssumption, TrainingInv, NEW s \in Runs, RecordEvaluation(s)
    PROVE  TrainingInv'
  <1>1. /\ DOMAIN training = Runs /\ DOMAIN training[s] = RunFields
        /\ training[s].stages \in Seq(StageNames) /\ RunIsSound(s)
    BY DEF TrainingInv, TrainingTypes, RunShape
  <1>2. /\ training[s].at = "summarize"
        /\ UNCHANGED <<options, adapters, dirs, reports, second, files, loaded>>
    BY DEF RecordEvaluation, At
  <1>3. PICK id : id = training[s].summary
    OBVIOUS
  <1>4. CASE id \in DOMAIN registry
    BY <1>2, <1>3, <1>4, RunFails DEF RecordEvaluation
  <1>5. CASE id \notin DOMAIN registry
    <2> DEFINE scores == [i \in 1 .. EvalExamples |->
                            Score(EvalRows(s)[i], training[s].answers[i])]
    <2>a. PICK gate : gate = GatePasses(scores, training[s].inference)
      OBVIOUS
    <2>b. PICK rate : rate = Percent(Cardinality({i \in DOMAIN scores :
                                                    scores[i].risk_classification}))
      OBVIOUS
    <2>c. PICK n : n = (CASE options[s].dry_run -> "dry_run_eval"
                          [] training[s].inference -> "generated_evaluation"
                          [] OTHER -> "fixture_only_evaluation")
      OBVIOUS
    <2>d. PICK next : next = IF training[s].place # Absent /\ ~options[s].skip_serving_check
                             THEN "serving" ELSE "report"
      OBVIOUS
    <2>1. /\ registry' = [i \in DOMAIN registry \cup {id} |->
                            IF i = id THEN [by |-> s, pass_rate |-> rate, gate_passed |-> gate]
                            ELSE registry[i]]
          /\ training' = [training EXCEPT ![s].summary = [id |-> id, gate |-> gate],
                                          ![s].stages = Append(@, n), ![s].at = next]
      <3>1. ~(id \in DOMAIN registry)
        BY <1>5
      <3> HIDE DEF scores
      <3> QED
        BY <1>3, <2>a, <2>b, <2>c, <2>d, <3>1 DEF RecordEvaluation, scores
    <2>2. /\ n \in {"dry_run_eval", "generated_evaluation", "fixture_only_evaluation"}
          /\ ~options[s].dry_run /\ training[s].inference => n = "generated_evaluation"
          /\ next \in {"serving", "report"}
          /\ next = "serving" => training[s].place # Absent
      BY <2>c, <2>d
    <2>3. /\ training'[s].at = next /\ training'[s].summary.id = id
          /\ training'[s].summary.gate = gate
          /\ DOMAIN training' = Runs /\ DOMAIN training'[s] = RunFields
          /\ training'[s].stages = Append(training[s].stages, n)
          /\ training'[s].batch = training[s].batch /\ training'[s].answers = training[s].answers
          /\ training'[s].serving = training[s].serving /\ training'[s].place = training[s].place
          /\ training'[s].inference = training[s].inference
          /\ \A t \in Runs \ {s} : training'[t] = training[t]
      BY <1>1, <2>1 DEF RunFields
    <2>4. /\ id \in DOMAIN registry' /\ registry'[id].by = s /\ registry'[id].gate_passed = gate
          /\ \A i \in DOMAIN registry : i \in DOMAIN registry' /\ registry'[i] = registry[i]
      BY <1>5, <2>1
    <2>5. /\ training'[s].stages \in Seq(StageNames)
          /\ \A m : Did(s, m)' <=> m = n \/ Did(s, m)
      <3>1. n \in StageNames
        BY <2>2 DEF StageNames
      <3> QED
        BY <1>1, <2>3, <3>1, StageAdded DEF Did
    <2>6. StepOf(s)
      BY <1>1, <1>2, <2>3, <2>5 DEF StepOf
    <2>7. Prepared(s)'
      BY <1>1, <1>2, <2>2, <2>3, <2>5 DEF RunIsSound, Prepared, Before, WithRows, Saving,
         ConfigOf
    <2>8. /\ training[s].inference = (training[s].place # Absent)
          /\ training[s].place # Absent => Chosen(s, training[s].place)
          /\ DOMAIN training[s].answers = 1 .. EvalExamples
      BY <1>1, <1>2 DEF RunIsSound, Evaluating
    <2>9. Chosen(s, training[s].place) => Chosen(s, training[s].place)'
      BY <1>2, <2>3 DEF Chosen, ConfigOf
    <2>10. Evaluating(s)'
      BY <2>2, <2>3, <2>8, <2>9 DEF Evaluating
    <2>11. gate => Earned(s)'
      <3>1. gate => Earned(s)
        BY <2>a, <2>8, GateIsEarned
      <3> QED
        BY <2>3, <3>1 DEF Earned
    <2>12. Recorded(s)'
      <3>1. training[s].inference => Did(s, "generated_evaluation")'
        BY <2>2, <2>5, <2>8 DEF Chosen
      <3>2. training'[s].at = "serving" => training[s].inference
        BY <2>2, <2>3, <2>8
      <3> QED
        BY <2>3, <2>4, <2>11, <3>1, <3>2 DEF Recorded
    <2>13. training[s].serving = Absent /\ reports[s] = Absent
      BY <1>1, <1>2 DEF RunIsSound, Probed, Reported
    <2>14. Probed(s)' /\ Reported(s)'
      BY <1>2, <2>3, <2>13 DEF Probed, Reported
    <2>15. Lasting
      BY <1>2, <2>4 DEF Lasting, TrainingInv, TrainingTypes
    <2>16. AdaptersMade'
      BY <1>2, <2>2, <2>3, <2>6, NoAdapterWritten DEF Saving
    <2>17. AdaptersKeepTheirBase' /\ DirectoriesAreOwn'
      BY <1>2 DEF TrainingInv, AdaptersKeepTheirBase, DirectoriesAreOwn
    <2> QED
      BY <2>6, <2>7, <2>10, <2>12, <2>14, <2>15, <2>16, <2>17, RunStep DEF RunIsSound
  <1> QED
    BY <1>4, <1>5

\* The endpoint is asked (run_serving_check, _probe).
LEMMA ServingCheckStep ==
    ASSUME TrainingAssumption, TrainingInv, NEW s \in Runs, ServingCheck(s)
    PROVE  TrainingInv'
  <1>1. /\ DOMAIN training = Runs /\ DOMAIN training[s] = RunFields
        /\ training[s].stages \in Seq(StageNames) /\ RunIsSound(s)
    BY DEF TrainingInv, TrainingTypes, RunShape
  <1>2. /\ training[s].at = "serving"
        /\ UNCHANGED <<options, adapters, dirs, registry, reports, second, files, loaded>>
    BY DEF ServingCheck, At
  <1>3. CASE Fail(s)
    BY <1>2, <1>3, RunFails
  <1>4. CASE ~Fail(s)
    <2>1. PICK reply, ready :
             /\ reply \in IF ConfigOf(s).gate_mode = "generated_inference" THEN ProbeReplies
                          ELSE {Absent}
             /\ ready => DeploymentReady(ConfigOf(s), adapters[training[s].place].tokens, reply)
             /\ training' = [training EXCEPT ![s].at = "report",
                                ![s].serving = [ready |-> ready, reply |-> reply],
                                ![s].stages = Append(@, "serving_check")]
      BY <1>4 DEF ServingCheck
    <2>2. /\ training'[s].at = "report" /\ training'[s].serving.ready = ready
          /\ training'[s].serving.reply = reply
          /\ DOMAIN training' = Runs /\ DOMAIN training'[s] = RunFields
          /\ training'[s].stages = Append(training[s].stages, "serving_check")
          /\ training'[s].batch = training[s].batch /\ training'[s].answers = training[s].answers
          /\ training'[s].summary = training[s].summary /\ training'[s].place = training[s].place
          /\ training'[s].inference = training[s].inference
          /\ \A t \in Runs \ {s} : training'[t] = training[t]
      BY <1>1, <2>1 DEF RunFields
    <2>3. /\ training'[s].stages \in Seq(StageNames)
          /\ \A m : Did(s, m)' <=> m = "serving_check" \/ Did(s, m)
      <3>1. "serving_check" \in StageNames
        BY DEF StageNames
      <3> QED
        BY <1>1, <2>2, <3>1, StageAdded DEF Did
    <2>4. StepOf(s)
      BY <1>1, <1>2, <2>2, <2>3 DEF StepOf
    <2>5. Prepared(s)'
      BY <1>1, <1>2, <2>2, <2>3 DEF RunIsSound, Prepared, Before, WithRows, Saving,
         ConfigOf
    <2>6. Chosen(s, training[s].place) => Chosen(s, training[s].place)'
      BY <1>2, <2>2 DEF Chosen, ConfigOf
    <2>7. Evaluating(s)'
      BY <1>1, <1>2, <2>2, <2>6 DEF RunIsSound, Evaluating
    <2>8. Recorded(s)
      BY <1>1 DEF RunIsSound
    <2>9. Earned(s) => Earned(s)'
      BY <2>2 DEF Earned
    <2>10. Recorded(s)'
      BY <1>2, <2>2, <2>3, <2>8, <2>9 DEF Recorded
    <2>11. Probed(s)'
      <3>1. Did(s, "generated_evaluation")' /\ Did(s, "serving_check")'
        BY <1>2, <2>3, <2>8 DEF Recorded
      <3>2. ready => reply # Absent /\ reply.correct /\ reply.named
        BY <2>1 DEF DeploymentReady, TrainingAssumption
      <3> QED
        BY <2>2, <3>1, <3>2 DEF Probed
    <2>12. Reported(s)'
      BY <1>1, <1>2, <2>2 DEF RunIsSound, Reported
    <2>13. AdaptersKeepTheirBase'
      BY <1>2 DEF TrainingInv, AdaptersKeepTheirBase
    <2> QED
      BY <1>2, <2>2, <2>4, <2>5, <2>7, <2>10, <2>11, <2>12, <2>13, QuietStep
       DEF RunIsSound, Saving
  <1> QED
    BY <1>3, <1>4

\* The report is written (_write_final_report).
LEMMA WriteReportStep ==
    ASSUME TrainingAssumption, TrainingInv, NEW s \in Runs, WriteReport(s)
    PROVE  TrainingInv'
  <1>1. /\ DOMAIN training = Runs /\ DOMAIN training[s] = RunFields
        /\ training[s].stages \in Seq(StageNames) /\ RunIsSound(s)
    BY DEF TrainingInv, TrainingTypes, RunShape
  <1>2. /\ training[s].at = "report" /\ training' = [training EXCEPT ![s].at = "done"]
        /\ UNCHANGED <<options, adapters, dirs, registry, second, files, loaded>>
    BY DEF WriteReport, At, Go
  <1>3. PICK r : /\ r = [stages |-> training[s].stages,
                         training_evaluation_ready |->
                             ~options[s].dry_run /\ training[s].summary.gate,
                         deployment_ready |->
                             training[s].serving # Absent /\ training[s].serving.ready]
                 /\ reports' = [reports EXCEPT ![s] = r]
    BY DEF WriteReport
  <1>4. /\ training'[s].at = "done"
        /\ DOMAIN training' = Runs /\ DOMAIN training'[s] = RunFields
        /\ training'[s].stages = training[s].stages
        /\ training'[s].batch = training[s].batch /\ training'[s].answers = training[s].answers
        /\ training'[s].summary = training[s].summary /\ training'[s].place = training[s].place
        /\ training'[s].inference = training[s].inference
        /\ training'[s].serving = training[s].serving
        /\ \A t \in Runs \ {s} : training'[t] = training[t]
    BY <1>1, <1>2 DEF RunFields
  <1>5. \A t \in Runs \ {s} : reports'[t] = reports[t]
    BY <1>3
  <1>6. StepOf(s)
    BY <1>1, <1>2, <1>4, <1>5 DEF StepOf
  <1>7. \A n : Did(s, n)' <=> Did(s, n)
    BY <1>4 DEF Did
  <1>8. Prepared(s)'
    BY <1>1, <1>2, <1>4, <1>7 DEF RunIsSound, Prepared, Before, WithRows, Saving,
         ConfigOf
  <1>9. Chosen(s, training[s].place) => Chosen(s, training[s].place)'
    BY <1>2, <1>4 DEF Chosen, ConfigOf
  <1>10. Evaluating(s)'
    BY <1>1, <1>2, <1>4, <1>9 DEF RunIsSound, Evaluating
  <1>11. Earned(s) => Earned(s)'
    BY <1>4 DEF Earned
  <1>12. Recorded(s)'
    BY <1>1, <1>2, <1>4, <1>7, <1>11 DEF RunIsSound, Recorded
  <1>13. Probed(s)'
    BY <1>1, <1>4, <1>7 DEF RunIsSound, Probed
  <1>14. Reported(s)'
    <2>1. reports'[s] # Absent => reports'[s] = r
      BY <1>1, <1>2, <1>3, <1>4 DEF RunIsSound, Reported
    <2> QED
      BY <1>2, <1>3, <1>4, <2>1 DEF Reported
  <1>15. AdaptersKeepTheirBase'
    BY <1>2 DEF TrainingInv, AdaptersKeepTheirBase
  <1> QED
    BY <1>2, <1>4, <1>6, <1>8, <1>10, <1>12, <1>13, <1>14, <1>15, QuietStep
       DEF RunIsSound, Saving

\* Of some bounded numbers one is greatest.
LEMMA GreatestOfBounded ==
    ASSUME NEW bound \in Nat, NEW N \in SUBSET (0 .. bound), N # {}
    PROVE  Max(N) \in N /\ \A k \in N : k <= Max(N)
  <1> DEFINE U == {u \in Nat : \A k \in N : k <= u}
  <1>1. bound \in U
    OBVIOUS
  <1>2. U \in SUBSET Nat /\ \A u \in Nat : u \in U <=> \A k \in N : k <= u
    OBVIOUS
  <1> HIDE DEF U
  <1>3. PICK u \in U : \A v \in U : ~ <<v, u>> \in OpToRel(<, Nat)
    BY <1>1, <1>2, NatLessThanWellFounded, WFMin
  <1>4. u \in Nat /\ \A v \in U : ~ (v < u)
    BY <1>2, <1>3 DEF OpToRel
  <1>a. \A k \in N : k <= u
    BY <1>2, <1>3, <1>4
  <1>b. \A k \in N : k \in Int /\ k >= 0
    OBVIOUS
  <1>5. \A k \in N : k \in Int /\ k >= 0 /\ k <= u
    BY <1>a, <1>b
  <1>6. u \in N
    <2>1. SUFFICES ASSUME u \notin N PROVE FALSE
      OBVIOUS
    <2>2. \A k \in N : k <= u - 1
      BY <1>4, <1>5, <2>1
    <2>3. u - 1 \in Nat
      <3>1. PICK k \in N : TRUE
        OBVIOUS
      <3>2. k \in Int /\ k >= 0 /\ k <= u - 1
        BY <1>5, <2>2, <3>1
      <3> QED
        BY <1>4, <3>2
    <2>4. u - 1 \in U
      BY <1>2, <2>2, <2>3
    <2> QED
      BY <1>4, <2>4
  <1>7. \E x \in N : \A y \in N : x >= y
    BY <1>4, <1>5, <1>6
  <1> QED
    BY <1>5, <1>7 DEF Max

\* How much is kept of a sequence of n tokens.
KeptLength(n) == IF n <= MAX_SEQ_LENGTH THEN n ELSE MAX_SEQ_LENGTH

\* It is the end of the sequence (build_tokenized_example).
LEMMA KeptIsTheEnd ==
    ASSUME TrainingAssumption, NEW S, NEW w \in Seq(S)
    PROVE  /\ Kept(w) \in Seq(S) /\ Len(Kept(w)) = KeptLength(Len(w))
           /\ \A j \in 1 .. KeptLength(Len(w)) : Kept(w)[j] = w[Len(w) - KeptLength(Len(w)) + j]
  <1>1. MAX_SEQ_LENGTH \in Nat /\ MAX_SEQ_LENGTH > 0
    BY DEF TrainingAssumption
  <1>2. Len(w) \in Nat /\ \A i \in 1 .. Len(w) : w[i] \in S
    BY LenProperties, ElementOfSeq
  <1>3. CASE Len(w) <= MAX_SEQ_LENGTH
    BY <1>1, <1>2, <1>3 DEF Kept, KeptLength
  <1>4. CASE ~ Len(w) <= MAX_SEQ_LENGTH
    <2> DEFINE m == Len(w) - MAX_SEQ_LENGTH + 1
    <2>1. m \in Int /\ m >= 1 /\ m <= Len(w) /\ Len(w) - m + 1 = MAX_SEQ_LENGTH
      BY <1>1, <1>2, <1>4
    <2>2. \A i \in m .. Len(w) : w[i] \in S
      BY <1>2, <2>1
    <2>3. Kept(w) = SubSeq(w, m, Len(w)) /\ KeptLength(Len(w)) = MAX_SEQ_LENGTH
      BY <1>4 DEF Kept, KeptLength
    <2> HIDE DEF m
    <2>4. /\ SubSeq(w, m, Len(w)) \in Seq(S)
          /\ Len(SubSeq(w, m, Len(w))) = IF m <= Len(w) THEN Len(w) - m + 1 ELSE 0
          /\ \A i \in 1 .. Len(w) - m + 1 : SubSeq(w, m, Len(w))[i] = w[m + i - 1]
      BY <1>2, <2>1, <2>2, SubSeqProperties
    <2>5. \A j \in 1 .. MAX_SEQ_LENGTH : m + j - 1 = Len(w) - MAX_SEQ_LENGTH + j
      BY <1>1, <1>2 DEF m
    <2> QED
      BY <2>1, <2>3, <2>4, <2>5
  <1> QED
    BY <1>3, <1>4

\* The tokens of an example and what is learned of them.
Token == {"prompt", "completion", "mask", "pad"} \X Nat
Taught(e, size) ==
    /\ e.input_ids \in Seq(Token) /\ e.labels \in Seq(Token)
    /\ Len(e.input_ids) = size /\ Len(e.labels) = size
    /\ e.labels[size] = e.last /\ e.last[1] = "completion"
    /\ \A j \in 1 .. size :
          \/ e.input_ids[j][1] = "prompt" /\ e.labels[j] = MASK
          \/ e.input_ids[j][1] = "completion" /\ e.labels[j] = e.input_ids[j]

\* An example teaches its answer, whose end is always kept (build_tokenized_example).
LEMMA ExampleIsTaught ==
    ASSUME TrainingAssumption, NEW row, NEW p \in Nat, NEW q \in Nat \ {0}, row.length = <<p, q>>
    PROVE  /\ Taught(TokenizedExample(row), KeptLength(p + q))
           /\ KeptLength(p + q) \in 1 .. MAX_SEQ_LENGTH
  <1> DEFINE prompt == Tokens("prompt", p)
             completion == Tokens("completion", q)
             masked == [i \in DOMAIN prompt |-> MASK]
             full == prompt \o completion
             learned == masked \o completion
             size == KeptLength(p + q)
             e == TokenizedExample(row)
  <1>1. MAX_SEQ_LENGTH \in Nat /\ MAX_SEQ_LENGTH > 0
    BY DEF TrainingAssumption
  <1>2. size \in 1 .. MAX_SEQ_LENGTH /\ size <= p + q
    BY <1>1 DEF KeptLength
  <1>3. /\ prompt \in [1 .. p -> Token] /\ completion \in [1 .. q -> Token]
        /\ \A i \in 1 .. p : prompt[i] = <<"prompt", i>>
        /\ \A i \in 1 .. q : completion[i] = <<"completion", i>>
    BY DEF Tokens, Token
  <1>4. masked \in [1 .. p -> Token] /\ \A i \in 1 .. p : masked[i] = MASK
    BY <1>3 DEF MASK, Token
  <1> HIDE DEF prompt, completion, masked
  <1>5. /\ prompt \in Seq(Token) /\ Len(prompt) = p /\ completion \in Seq(Token)
        /\ Len(completion) = q /\ masked \in Seq(Token) /\ Len(masked) = p
    BY <1>3, <1>4
  <1>6. /\ full \in Seq(Token) /\ Len(full) = p + q
        /\ \A i \in 1 .. p + q : full[i] = IF i <= p THEN prompt[i] ELSE completion[i - p]
    <2>1. /\ prompt \o completion \in Seq(Token)
          /\ Len(prompt \o completion) = Len(prompt) + Len(completion)
          /\ \A i \in 1 .. Len(prompt) + Len(completion) : (prompt \o completion)[i] =
                IF i <= Len(prompt) THEN prompt[i] ELSE completion[i - Len(prompt)]
      <3>1. prompt \in Seq(Token) /\ completion \in Seq(Token)
        BY <1>5
      <3> HIDE DEF e
      <3> QED
        BY <3>1, ConcatProperties, Zenon
    <2> QED
      BY <1>5, <2>1
  <1>7. /\ learned \in Seq(Token) /\ Len(learned) = p + q
        /\ \A i \in 1 .. p + q : learned[i] = IF i <= p THEN masked[i] ELSE completion[i - p]
    <2>1. /\ masked \o completion \in Seq(Token)
          /\ Len(masked \o completion) = Len(masked) + Len(completion)
          /\ \A i \in 1 .. Len(masked) + Len(completion) : (masked \o completion)[i] =
                IF i <= Len(masked) THEN masked[i] ELSE completion[i - Len(masked)]
      <3>1. masked \in Seq(Token) /\ completion \in Seq(Token)
        BY <1>5
      <3> HIDE DEF e
      <3> QED
        BY <3>1, ConcatProperties, Zenon
    <2> QED
      BY <1>5, <2>1
  <1>8. /\ e.input_ids = Kept(full) /\ e.labels = Kept(learned)
        /\ e.last = completion[Len(completion)]
    BY DEF TokenizedExample, prompt, completion, masked
  <1> HIDE DEF full, learned, e
  <1>9. /\ Kept(full) \in Seq(Token) /\ Len(Kept(full)) = size
        /\ \A j \in 1 .. size : Kept(full)[j] = full[p + q - size + j]
    <2>1. /\ Kept(full) \in Seq(Token) /\ Len(Kept(full)) = KeptLength(Len(full))
          /\ \A j \in 1 .. KeptLength(Len(full)) :
                Kept(full)[j] = full[Len(full) - KeptLength(Len(full)) + j]
      BY <1>6, KeptIsTheEnd, Zenon
    <2>2. Len(full) = p + q
      BY <1>6
    <2> QED
      BY <2>1, <2>2
  <1>10. /\ Kept(learned) \in Seq(Token) /\ Len(Kept(learned)) = size
         /\ \A j \in 1 .. size : Kept(learned)[j] = learned[p + q - size + j]
    <2>1. /\ Kept(learned) \in Seq(Token) /\ Len(Kept(learned)) = KeptLength(Len(learned))
          /\ \A j \in 1 .. KeptLength(Len(learned)) :
                Kept(learned)[j] = learned[Len(learned) - KeptLength(Len(learned)) + j]
      BY <1>7, KeptIsTheEnd, Zenon
    <2>2. Len(learned) = p + q
      BY <1>7
    <2> QED
      BY <2>1, <2>2
  <1> HIDE DEF size
  <1>11. ASSUME NEW j \in 1 .. size
         PROVE  \/ e.input_ids[j][1] = "prompt" /\ e.labels[j] = MASK
                \/ e.input_ids[j][1] = "completion" /\ e.labels[j] = e.input_ids[j]
    <2> DEFINE i == p + q - size + j
    <2>1. i \in 1 .. p + q
      BY <1>2
    <2>2. e.input_ids[j] = full[i] /\ e.labels[j] = learned[i]
      BY <1>8, <1>9, <1>10
    <2>3. CASE i <= p
      <3>1. full[i] = <<"prompt", i>> /\ learned[i] = MASK
        BY <1>3, <1>4, <1>6, <1>7, <2>1, <2>3
      <3> QED
        BY <2>2, <3>1
    <2>4. CASE ~ i <= p
      <3>1. full[i] = completion[i - p] /\ learned[i] = completion[i - p] /\ i - p \in 1 .. q
        BY <1>6, <1>7, <2>1, <2>4
      <3>2. completion[i - p][1] = "completion"
        BY <1>3, <3>1
      <3> QED
        BY <2>2, <3>1, <3>2
    <2> QED
      BY <2>3, <2>4
  <1>12. e.labels[size] = e.last /\ e.last[1] = "completion"
    <2>1. p + q - size + size = p + q /\ ~ p + q <= p /\ p + q - p = q /\ p + q \in 1 .. p + q
      BY <1>2
    <2>2. e.labels[size] = learned[p + q]
      BY <1>2, <1>8, <1>10, <2>1
    <2>3. learned[p + q] = completion[q]
      BY <1>7, <2>1
    <2>4. completion[q] = <<"completion", q>>
      BY <1>3
    <2> QED
      BY <1>5, <1>8, <2>2, <2>3, <2>4
  <1>13. Taught(e, size)
    BY <1>8, <1>9, <1>10, <1>11, <1>12 DEF Taught
  <1> QED
    BY <1>2, <1>13 DEF size, e

\* A sequence with n tokens before it.
PadLeft(n, with, w) == [i \in 1 .. n |-> with] \o w

\* They are where they were put (pad_left).
LEMMA LeftPadded ==
    ASSUME NEW S, NEW w \in Seq(S), NEW with \in S, NEW n \in Nat
    PROVE  /\ PadLeft(n, with, w) \in Seq(S) /\ Len(PadLeft(n, with, w)) = n + Len(w)
           /\ \A j \in 1 .. n + Len(w) :
                 PadLeft(n, with, w)[j] = IF j <= n THEN with ELSE w[j - n]
  <1> DEFINE left == [i \in 1 .. n |-> with]
  <1>1. left \in [1 .. n -> S] /\ \A i \in 1 .. n : left[i] = with
    OBVIOUS
  <1> HIDE DEF left
  <1>2. left \in Seq(S) /\ Len(left) = n
    BY <1>1
  <1>3. /\ left \o w \in Seq(S) /\ Len(left \o w) = Len(left) + Len(w)
        /\ \A j \in 1 .. Len(left) + Len(w) :
              (left \o w)[j] = IF j <= Len(left) THEN left[j] ELSE w[j - Len(left)]
    BY <1>2, ConcatProperties, Zenon
  <1>4. Len(w) \in Nat
    BY LenProperties
  <1>5. \A j \in 1 .. n + Len(w) : (left \o w)[j] = IF j <= n THEN with ELSE w[j - n]
    BY <1>1, <1>2, <1>3, <1>4
  <1>6. left \o w \in Seq(S) /\ Len(left \o w) = n + Len(w)
    BY <1>2, <1>3
  <1> QED
    BY <1>5, <1>6 DEF left, PadLeft

\* A row of a batch teaches what its example does (ShelfWiseDataCollator).
LEMMA PaddedTeaches ==
    ASSUME TrainingAssumption, NEW e, NEW size \in 1 .. MAX_SEQ_LENGTH, Taught(e, size),
           NEW longest \in size .. MAX_SEQ_LENGTH
    PROVE  Teaches([input_ids |-> PadLeft(longest - size, PAD, e.input_ids),
                    labels |-> PadLeft(longest - size, MASK, e.labels),
                    attention |-> PadLeft(longest - size, 0, [j \in DOMAIN e.input_ids |-> 1]),
                    last |-> e.last])
  <1> DEFINE gap == longest - size
             ones == [j \in DOMAIN e.input_ids |-> 1]
             ids == PadLeft(gap, PAD, e.input_ids)
             labels == PadLeft(gap, MASK, e.labels)
             attention == PadLeft(gap, 0, ones)
             row == [input_ids |-> ids, labels |-> labels, attention |-> attention, last |-> e.last]
  <1>1. MAX_SEQ_LENGTH \in Nat
    BY DEF TrainingAssumption
  <1>2. gap \in Nat /\ gap + size = longest /\ longest \in Nat /\ longest >= 1
    BY <1>1
  <1>3. /\ e.input_ids \in Seq(Token) /\ e.labels \in Seq(Token)
        /\ Len(e.input_ids) = size /\ Len(e.labels) = size
        /\ e.labels[size] = e.last /\ e.last[1] = "completion"
        /\ \A j \in 1 .. size :
              \/ e.input_ids[j][1] = "prompt" /\ e.labels[j] = MASK
              \/ e.input_ids[j][1] = "completion" /\ e.labels[j] = e.input_ids[j]
    BY DEF Taught
  <1>4. PAD \in Token /\ MASK \in Token
    BY DEF PAD, MASK, Token
  <1>5. ones \in Seq({0, 1}) /\ Len(ones) = size /\ \A j \in 1 .. size : ones[j] = 1
    <2>1. DOMAIN e.input_ids = 1 .. size
      BY <1>3, LenProperties
    <2>2. ones \in [1 .. size -> {0, 1}] /\ \A j \in 1 .. size : ones[j] = 1
      BY <2>1
    <2> HIDE DEF ones
    <2> QED
      BY <1>1, <2>2
  <1> HIDE DEF gap, ones
  <1>6. /\ Len(ids) = longest
        /\ \A j \in 1 .. longest : ids[j] = IF j <= gap THEN PAD ELSE e.input_ids[j - gap]
    <2>1. PAD \in Token /\ gap \in Nat /\ e.input_ids \in Seq(Token)
      BY <1>2, <1>3, <1>4
    <2>2. /\ Len(ids) = gap + Len(e.input_ids)
          /\ \A j \in 1 .. gap + Len(e.input_ids) :
                ids[j] = IF j <= gap THEN PAD ELSE e.input_ids[j - gap]
      BY <2>1, LeftPadded, Zenon
    <2> QED
      BY <1>2, <1>3, <2>2
  <1>7. /\ labels \in Seq(Token) /\ Len(labels) = longest
        /\ \A j \in 1 .. longest : labels[j] = IF j <= gap THEN MASK ELSE e.labels[j - gap]
    <2>1. MASK \in Token /\ gap \in Nat /\ e.labels \in Seq(Token)
      BY <1>2, <1>3, <1>4
    <2>2. /\ labels \in Seq(Token) /\ Len(labels) = gap + Len(e.labels)
          /\ \A j \in 1 .. gap + Len(e.labels) :
                labels[j] = IF j <= gap THEN MASK ELSE e.labels[j - gap]
      BY <2>1, LeftPadded, Zenon
    <2> QED
      BY <1>2, <1>3, <2>2
  <1>8. /\ Len(attention) = longest
        /\ \A j \in 1 .. longest : attention[j] = IF j <= gap THEN 0 ELSE ones[j - gap]
    <2>1. 0 \in {0, 1} /\ gap \in Nat /\ ones \in Seq({0, 1})
      BY <1>2, <1>5
    <2>2. /\ Len(attention) = gap + Len(ones)
          /\ \A j \in 1 .. gap + Len(ones) :
                attention[j] = IF j <= gap THEN 0 ELSE ones[j - gap]
      BY <2>1, LeftPadded, Zenon
    <2> QED
      BY <1>2, <1>5, <2>2
  <1>9. DOMAIN labels = 1 .. longest
    BY <1>7, LenProperties
  <1>10. row.input_ids = ids /\ row.labels = labels /\ row.attention = attention
         /\ row.last = e.last
    OBVIOUS
  <1> HIDE DEF ids, labels, attention, row
  <1>11. labels[longest] = e.last
    <2>1. longest \in 1 .. longest /\ ~ longest <= gap /\ longest - gap = size
      BY <1>2
    <2> QED
      BY <1>3, <1>7, <2>1
  <1>12. PAD[1] = "pad" /\ MASK[1] = "mask"
    BY DEF PAD, MASK
  <1>13. ASSUME NEW j \in 1 .. longest
         PROVE  /\ labels[j] # MASK <=> ids[j][1] = "completion"
                /\ labels[j] # MASK => labels[j] = ids[j]
                /\ attention[j] = 0 <=> ids[j] = PAD
    <2>1. CASE j <= gap
      BY <1>6, <1>7, <1>8, <1>12, <2>1
    <2>2. CASE ~ j <= gap
      <3>1. j - gap \in 1 .. size
        BY <1>2, <2>2
      <3>2. /\ ids[j] = e.input_ids[j - gap] /\ labels[j] = e.labels[j - gap]
            /\ attention[j] = 1
        BY <1>5, <1>6, <1>7, <1>8, <2>2, <3>1
      <3>3. \/ ids[j][1] = "prompt" /\ labels[j] = MASK
            \/ ids[j][1] = "completion" /\ labels[j] = ids[j]
        BY <1>3, <3>1, <3>2
      <3> QED
        BY <1>12, <3>2, <3>3
    <2> QED
      BY <2>1, <2>2
  <1>14. Teaches(row)
    BY <1>6, <1>7, <1>8, <1>9, <1>10, <1>11, <1>13 DEF Teaches
  <1> QED
    BY <1>14 DEF row, ids, labels, attention, gap, ones

\* A batch of such examples (ShelfWiseDataCollator).
LEMMA BatchTeaches ==
    ASSUME TrainingAssumption, NEW n \in Nat \ {0}, NEW ex, DOMAIN ex = 1 .. n,
           \A i \in 1 .. n : \E size \in 1 .. MAX_SEQ_LENGTH : Taught(ex[i], size)
    PROVE  \A i \in DOMAIN Collate(ex) : Teaches(Collate(ex)[i])
  <1> DEFINE N == {Len(ex[i].input_ids) : i \in DOMAIN ex}
             longest == Max(N)
  <1>1. MAX_SEQ_LENGTH \in Nat
    BY DEF TrainingAssumption
  <1>2. \A i \in 1 .. n : /\ Len(ex[i].input_ids) \in 1 .. MAX_SEQ_LENGTH
                          /\ Taught(ex[i], Len(ex[i].input_ids))
    BY DEF Taught
  <1>3. N \in SUBSET (0 .. MAX_SEQ_LENGTH) /\ N # {}
    <2>1. \A i \in 1 .. n : Len(ex[i].input_ids) \in 0 .. MAX_SEQ_LENGTH
      BY <1>2
    <2>2. N \subseteq 0 .. MAX_SEQ_LENGTH
      BY <2>1
    <2>3. Len(ex[1].input_ids) \in N
      OBVIOUS
    <2> QED
      BY <2>2, <2>3
  <1>4. longest \in N /\ \A k \in N : k <= longest
    <2> HIDE DEF N
    <2> QED
      BY <1>1, <1>3, GreatestOfBounded
  <1>5. longest \in 1 .. MAX_SEQ_LENGTH
    BY <1>2, <1>4
  <1>6. \A i \in 1 .. n : Len(ex[i].input_ids) <= longest
    BY <1>4
  <1>7. DOMAIN Collate(ex) = 1 .. n
    BY DEF Collate
  <1>8. \A i \in 1 .. n :
           Collate(ex)[i] =
              [input_ids |-> PadLeft(longest - Len(ex[i].input_ids), PAD, ex[i].input_ids),
               labels |-> PadLeft(longest - Len(ex[i].input_ids), MASK, ex[i].labels),
               attention |-> PadLeft(longest - Len(ex[i].input_ids), 0,
                                     [j \in DOMAIN ex[i].input_ids |-> 1]),
               last |-> ex[i].last]
    BY DEF Collate, PadLeft
  <1> HIDE DEF longest, N
  <1>9. ASSUME NEW i \in 1 .. n PROVE Teaches(Collate(ex)[i])
    <2>1. /\ Len(ex[i].input_ids) \in 1 .. MAX_SEQ_LENGTH
          /\ Taught(ex[i], Len(ex[i].input_ids))
          /\ longest \in Len(ex[i].input_ids) .. MAX_SEQ_LENGTH
      BY <1>1, <1>2, <1>5, <1>6
    <2> QED
      BY <1>8, <2>1, PaddedTeaches
  <1> QED
    BY <1>7, <1>9

\* A generated row has a prompt and an answer (_row_from_event).
LEMMA RowHasTokens ==
    ASSUME TrainingAssumption, NEW refrigerated, NEW rows, rows = GenerateRows(refrigerated),
           NEW i \in 1 .. TrainExamples
    PROVE  \E p \in Nat, q \in Nat \ {0} : SubSeq(rows, 1, TrainExamples)[i].length = <<p, q>>
  <1> DEFINE m == ((i - 1) % Len(Lengths)) + 1
  <1>1. /\ TrainExamples \in Nat /\ EvalExamples \in Nat /\ i \in Nat /\ i >= 1
        /\ Lengths \in Seq(Nat \X (Nat \ {0})) /\ Lengths # <<>>
    BY DEF TrainingAssumption
  <1>2. Len(Lengths) \in Nat /\ Len(Lengths) # 0
    BY <1>1, EmptySeq
  <1>3. m \in 1 .. Len(Lengths)
    BY <1>1, <1>2
  <1>4. Lengths[m] \in Nat \X (Nat \ {0})
    <2> HIDE DEF m
    <2> QED
      BY <1>1, <1>3, ElementOfSeq
  <1>5. rows[i].length = Lengths[m]
    <2>1. i \in 1 .. TrainExamples + EvalExamples
      BY <1>1
    <2> QED
      BY <2>1 DEF GenerateRows, RowFromEvent
  <1>6. SubSeq(rows, 1, TrainExamples)[i] = rows[i]
    <2> DEFINE S == {rows[k] : k \in 1 .. TrainExamples}
    <2>1. \A k \in 1 .. TrainExamples : rows[k] \in S
      OBVIOUS
    <2> HIDE DEF S
    <2>2. \A k \in 1 .. TrainExamples - 1 + 1 : SubSeq(rows, 1, TrainExamples)[k] = rows[1 + k - 1]
      BY <1>1, <2>1, SubSeqProperties
    <2>3. i \in 1 .. TrainExamples - 1 + 1 /\ 1 + i - 1 = i
      BY <1>1
    <2> QED
      BY <2>2, <2>3
  <1> HIDE DEF m
  <1>7. PICK p \in Nat, q \in Nat \ {0} : Lengths[m] = <<p, q>>
    BY <1>4
  <1>8. SubSeq(rows, 1, TrainExamples)[i].length = <<p, q>>
    BY <1>5, <1>6, <1>7
  <1> QED
    BY <1>7, <1>8

\* So every batch teaches the answers (run_training).
LEMMA TrainingTeaches ==
    ASSUME TrainingAssumption, NEW s \in Runs,
           \E refrigerated \in BOOLEAN : training[s].rows = GenerateRows(refrigerated),
           NEW batch,
           batch = Collate([i \in 1 .. TrainExamples |-> TokenizedExample(TrainRows(s)[i])])
    PROVE  \A i \in DOMAIN batch : Teaches(batch[i])
  <1> DEFINE ex == [i \in 1 .. TrainExamples |-> TokenizedExample(TrainRows(s)[i])]
  <1>1. TrainExamples \in Nat \ {0}
    BY DEF TrainingAssumption
  <1>2. ASSUME NEW i \in 1 .. TrainExamples
        PROVE  \E size \in 1 .. MAX_SEQ_LENGTH : Taught(ex[i], size)
    <2>0. PICK refrigerated \in BOOLEAN : training[s].rows = GenerateRows(refrigerated)
      OBVIOUS
    <2>1. PICK p \in Nat, q \in Nat \ {0} : TrainRows(s)[i].length = <<p, q>>
      <3>1. \E p \in Nat, q \in Nat \ {0} :
               SubSeq(training[s].rows, 1, TrainExamples)[i].length = <<p, q>>
        <4>1. PICK rows : rows = training[s].rows
          OBVIOUS
        <4>2. rows = GenerateRows(refrigerated)
          BY <2>0, <4>1
        <4>3. \E p \in Nat, q \in Nat \ {0} : SubSeq(rows, 1, TrainExamples)[i].length = <<p, q>>
          BY <4>2, RowHasTokens
        <4> QED
          BY <4>1, <4>3
      <3> QED
        BY <3>1 DEF TrainRows
    <2>2. /\ Taught(TokenizedExample(TrainRows(s)[i]), KeptLength(p + q))
          /\ KeptLength(p + q) \in 1 .. MAX_SEQ_LENGTH
      BY <2>1, ExampleIsTaught
    <2> QED
      BY <2>2
  <1>3. DOMAIN ex = 1 .. TrainExamples
    OBVIOUS
  <1> HIDE DEF ex
  <1>4. \A i \in DOMAIN Collate(ex) : Teaches(Collate(ex)[i])
    BY <1>1, <1>2, <1>3, BatchTeaches
  <1> QED
    BY <1>4 DEF ex

\* An adapter is written, part by part (run_training).
AdapterWritten(s, stage, part) ==
    part \in Parts(ConfigOf(s)) /\ adapters' = [adapters EXCEPT ![<<s, stage>>] = part]

\* What is built on an adapter stays when it is written again.
LEMMA WritingLasts ==
    ASSUME TrainingAssumption, TrainingInv, NEW s \in Runs, NEW stage \in {"smoke", "full"},
           NEW part, AdapterWritten(s, stage, part), registry' = registry
    PROVE  Lasting
  <1> DEFINE c == ConfigOf(s)
             place == <<s, stage>>
  <1>1. AdaptersMade /\ options \in Commands /\ DOMAIN adapters = Places
    BY DEF TrainingInv, TrainingTypes
  <1>2. c \in Settings /\ part \in Parts(c) /\ part # Absent
    BY <1>1 DEF TrainingAssumption, ConfigOf, AdapterWritten, Parts, Written
  <1>3. adapters[place] \in {Absent} \cup Parts(c) /\ place \in Places
    BY <1>1 DEF AdaptersMade, Places
  <1>4. adapters' = [adapters EXCEPT ![place] = part]
    BY DEF AdapterWritten
  <1>5. \A d \in Settings, a \in Parts(c) : Compatible(a, d) => Compatible(part, d)
    BY <1>2, PartsAreAlike
  <1> HIDE DEF c, place
  <1> QED
    BY <1>1, <1>2, <1>3, <1>4, <1>5 DEF Lasting

\* And what is known of the adapters stays true of the one that is written.
LEMMA WrittenIsMade ==
    ASSUME TrainingAssumption, TrainingInv, NEW s \in Runs, NEW stage \in {"smoke", "full"},
           StepOf(s), NEW part, AdapterWritten(s, stage, part),
           \/ training'[s].at \notin Saving
           \/ training'[s].at = Saved[stage] /\ part = SavedAdapter(ConfigOf(s))
           \/ training'[s].at = Tokenized[stage] /\ part = Written(ConfigOf(s))
    PROVE  AdaptersMade'
  <1>1. AdaptersMade /\ DOMAIN adapters = Places
    BY DEF TrainingInv, TrainingTypes
  <1>2. <<s, stage>> \in Places /\ <<s, stage>> \notin DOMAIN OldAdapters
    BY DEF TrainingAssumption, Places
  <1>3. part \in Parts(ConfigOf(s)) /\ adapters' = [adapters EXCEPT ![<<s, stage>>] = part]
    BY DEF AdapterWritten
  <1>4. \A p \in DOMAIN OldAdapters : adapters'[p] = OldAdapters[p]
    BY <1>1, <1>2, <1>3 DEF AdaptersMade
  <1>5. \A t \in Runs : ConfigOf(t)' = ConfigOf(t)
    BY DEF StepOf, ConfigOf
  <1>6. adapters'[<<s, stage>>] = part
    BY <1>1, <1>2, <1>3
  <1>7. ASSUME NEW t \in Runs, NEW st \in {"smoke", "full"}
        PROVE  /\ adapters'[<<t, st>>] \in {Absent} \cup Parts(ConfigOf(t))
               /\ At(t, Saved[st])' => adapters'[<<t, st>>] = SavedAdapter(ConfigOf(t))
               /\ At(t, Tokenized[st])' => adapters'[<<t, st>>] = Written(ConfigOf(t))
    <2>1. CASE t = s /\ st = stage
      <3>1. /\ Saved[st] \in Saving /\ Tokenized[st] \in Saving
            /\ Saved[st] # Tokenized[st]
        BY DEF Saved, Tokenized, Saving
      <3>2. /\ At(t, Saved[st])' => part = SavedAdapter(ConfigOf(s))
            /\ At(t, Tokenized[st])' => part = Written(ConfigOf(s))
        BY <2>1, <3>1 DEF At
      <3> QED
        BY <1>3, <1>6, <2>1, <3>2
    <2>2. CASE ~ (t = s /\ st = stage)
      <3>1. <<t, st>> # <<s, stage>> /\ <<t, st>> \in Places
        BY <2>2 DEF Places
      <3>2. adapters'[<<t, st>>] = adapters[<<t, st>>]
        BY <1>1, <1>3, <3>1
      <3>3. /\ At(t, Saved[st])' => At(t, Saved[st])
            /\ At(t, Tokenized[st])' => At(t, Tokenized[st])
        <4>1. CASE t = s
          <5>1. {Saved[st], Tokenized[st]} \cap {Saved[stage], Tokenized[stage]} = {}
            BY <2>2, <4>1 DEF Saved, Tokenized
          <5>2. {Saved[st], Tokenized[st]} \subseteq Saving
            BY DEF Saved, Tokenized, Saving
          <5> QED
            BY <4>1, <5>1, <5>2 DEF At
        <4>2. CASE t # s
          BY <4>2 DEF At, StepOf
        <4> QED
          BY <4>1, <4>2
      <3> QED
        BY <1>1, <3>2, <3>3 DEF AdaptersMade
    <2> QED
      BY <2>1, <2>2
  <1> QED
    BY <1>4, <1>5, <1>7 DEF AdaptersMade

\* An adapter is trained (run_training).
LEMMA TrainStep ==
    ASSUME TrainingAssumption, TrainingInv, NEW s \in Runs, NEW stage \in {"smoke", "full"},
           Train(s, stage)
    PROVE  TrainingInv'
  <1> DEFINE c == ConfigOf(s)
             resumed == IF c.resume = Absent THEN Absent ELSE adapters[c.resume]
             refused == \/ c.resume # Absent /\ resumed = Absent
                        \/ resumed # Absent /\ ~Compatible(resumed, c)
  <1>1. /\ DOMAIN training = Runs /\ DOMAIN training[s] = RunFields
        /\ training[s].stages \in Seq(StageNames) /\ RunIsSound(s)
        /\ options \in Commands /\ DOMAIN adapters = Places
    BY DEF TrainingInv, TrainingTypes, RunShape
  <1>2. /\ training[s].at = stage
        /\ UNCHANGED <<options, dirs, registry, reports, second, files>>
    BY DEF Train, At
  <1>3. CASE refused
    <2>1. Fail(s) /\ UNCHANGED <<adapters, loaded>>
      BY <1>3 DEF Train
    <2> QED
      BY <1>2, <2>1, RunFails
  <1>4. CASE ~refused
    <2>1. PICK finite \in BOOLEAN :
            /\ IF resumed # Absent THEN Load(resumed, c) ELSE UNCHANGED loaded
            /\ training' = [training EXCEPT
                   ![s].at = IF finite THEN Saved[stage] ELSE "failed",
                   ![s].batch = Collate([i \in 1 .. TrainExamples |->
                                           TokenizedExample(TrainRows(s)[i])])]
            /\ adapters' = IF finite THEN [adapters EXCEPT ![<<s, stage>>] = SavedAdapter(c)]
                           ELSE adapters
      BY <1>4 DEF Train
    <2>2. PICK batch : batch = Collate([i \in 1 .. TrainExamples |->
                                          TokenizedExample(TrainRows(s)[i])])
      OBVIOUS
    <2>3. PICK next : next = IF finite THEN Saved[stage] ELSE "failed"
      OBVIOUS
    <2>4. training' = [training EXCEPT ![s].at = next, ![s].batch = batch]
      BY <2>1, <2>2, <2>3
    <2>5. next \in {Saved[stage], "failed"} /\ next \in Saving \cup {"failed"}
      BY <2>3 DEF Saved, Saving
    <2>6. /\ training'[s].at = next /\ training'[s].batch = batch
          /\ DOMAIN training' = Runs /\ DOMAIN training'[s] = RunFields
          /\ training'[s].stages = training[s].stages /\ training'[s].rows = training[s].rows
          /\ training'[s].serving = training[s].serving
          /\ \A t \in Runs \ {s} : training'[t] = training[t]
      BY <1>1, <2>4 DEF RunFields
    <2>7. /\ adapters' = adapters \/ adapters' = [adapters EXCEPT ![<<s, stage>>] = SavedAdapter(c)]
          /\ next # "failed" => adapters' = [adapters EXCEPT ![<<s, stage>>] = SavedAdapter(c)]
      BY <2>1, <2>3
    <2>8. \A t \in Runs \ {s} : adapters'[<<t, "full">>] = adapters[<<t, "full">>]
      <3>1. \A t \in Runs \ {s} : <<t, "full">> # <<s, stage>> /\ <<t, "full">> \in Places
        BY DEF Places
      <3> QED
        BY <1>1, <2>7, <3>1
    <2>9. StepOf(s)
      BY <1>1, <1>2, <2>6, <2>8 DEF StepOf
    <2>10. \A n : Did(s, n)' <=> Did(s, n)
      BY <2>6 DEF Did
    <2>11. \E refrigerated \in BOOLEAN : training[s].rows = GenerateRows(refrigerated)
      BY <1>1, <1>2 DEF RunIsSound, Prepared, WithRows
    <2>12. \A i \in DOMAIN batch : Teaches(batch[i])
      BY <2>2, <2>11, TrainingTeaches
    <2>13. RunIsSound(s)'
      <3>1. training[s].at \in Before /\ training'[s].at \in Before \cup {"evaluate", "failed"}
        BY <1>2, <2>5, <2>6 DEF Before, WithRows
      <3>2. \A i \in DOMAIN training'[s].batch : Teaches(training'[s].batch[i])
        BY <2>6, <2>12
      <3> QED
        BY <1>2, <2>6, <2>9, <2>10, <2>11, <3>1, <3>2, RunGoesOn
    <2>14. Lasting /\ AdaptersMade'
      <3>1. CASE next = "failed" /\ adapters' = adapters
        <4>1. training'[s].at \notin Saving
          BY <2>6, <3>1 DEF Saving
        <4> QED
          BY <1>1, <1>2, <2>9, <3>1, <4>1, NoAdapterWritten DEF Lasting
      <3>2. CASE next = Saved[stage]
        <4>1. AdapterWritten(s, stage, SavedAdapter(c))
          BY <2>7, <3>2 DEF AdapterWritten, Parts, Saved
        <4>2. training'[s].at = Saved[stage]
          BY <2>6, <3>2
        <4> QED
          BY <1>2, <2>9, <4>1, <4>2, WritingLasts, WrittenIsMade
      <3> QED
        BY <2>1, <2>3, <2>5, <3>1, <3>2 DEF Saved
    <2>15. AdaptersKeepTheirBase'
      <3>1. AdaptersKeepTheirBase /\ AdaptersMade
        BY DEF TrainingInv
      <3>2. CASE resumed = Absent
        BY <2>1, <3>1, <3>2 DEF AdaptersKeepTheirBase
      <3>3. CASE resumed # Absent
        <4>1. c \in Settings /\ c.resume \in Places \cup {Absent}
          BY <1>1 DEF ConfigOf, TrainingAssumption
        <4>2. c.resume # Absent /\ resumed = adapters[c.resume] /\ Compatible(resumed, c)
          BY <1>4, <3>3
        <4>3. resumed.truth.base = c.model /\ resumed.truth.revision = c.revision
          BY <1>1, <3>1, <3>3, <4>1, <4>2, CompatibleIsTrue
        <4>4. loaded' = loaded \cup {[truth |-> resumed.truth, base |-> c.model,
                                      revision |-> c.revision]}
          BY <2>1, <3>3 DEF Load
        <4> HIDE DEF resumed, c
        <4> QED
          BY <3>1, <4>3, <4>4 DEF AdaptersKeepTheirBase
      <3> QED
        BY <3>2, <3>3
    <2>16. DirectoriesAreOwn'
      BY <1>2 DEF TrainingInv, DirectoriesAreOwn
    <2> QED
      BY <2>9, <2>13, <2>14, <2>15, <2>16, RunStep
  <1> QED
    BY <1>3, <1>4

\* Its tokenizer is saved with it (run_training).
LEMMA SaveTokenizerStep ==
    ASSUME TrainingAssumption, TrainingInv, NEW s \in Runs, NEW stage \in {"smoke", "full"},
           SaveTokenizer(s, stage)
    PROVE  TrainingInv'
  <1>1. /\ DOMAIN training = Runs /\ DOMAIN training[s] = RunFields
        /\ training[s].stages \in Seq(StageNames) /\ RunIsSound(s)
        /\ AdaptersMade /\ DOMAIN adapters = Places
    BY DEF TrainingInv, TrainingTypes, RunShape
  <1>2. /\ training[s].at = Saved[stage] /\ training[s].at \in WithRows
        /\ training' = [training EXCEPT ![s].at = Tokenized[stage]]
        /\ UNCHANGED <<options, dirs, registry, reports, second, files, loaded>>
    BY DEF SaveTokenizer, At, Go, Saved, WithRows, Saving
  <1>3. AdapterWritten(s, stage, Written(ConfigOf(s)))
    <2>1. adapters[<<s, stage>>] = SavedAdapter(ConfigOf(s))
      BY <1>1, <1>2 DEF AdaptersMade, At
    <2> QED
      BY <2>1 DEF SaveTokenizer, Written, AdapterWritten, Parts
  <1>4. /\ training'[s].at = Tokenized[stage] /\ training'[s].at \in WithRows
        /\ DOMAIN training' = Runs /\ DOMAIN training'[s] = RunFields
        /\ training'[s].stages = training[s].stages /\ training'[s].rows = training[s].rows
        /\ training'[s].batch = training[s].batch /\ training'[s].serving = training[s].serving
        /\ \A t \in Runs \ {s} : training'[t] = training[t]
    <2>1. Tokenized[stage] \in WithRows
      BY DEF Tokenized, WithRows, Saving
    <2> QED
      BY <1>1, <1>2, <2>1 DEF RunFields
  <1>5. \A t \in Runs \ {s} : adapters'[<<t, "full">>] = adapters[<<t, "full">>]
    <2>1. \A t \in Runs \ {s} : <<t, "full">> # <<s, stage>> /\ <<t, "full">> \in Places
      BY DEF Places
    <2> QED
      BY <1>1, <1>3, <2>1 DEF AdapterWritten
  <1>6. StepOf(s)
    BY <1>1, <1>2, <1>4, <1>5 DEF StepOf
  <1>7. RunIsSound(s)'
    <2>1. \A n : Did(s, n)' <=> Did(s, n)
      BY <1>4 DEF Did
    <2>2. \E refrigerated \in BOOLEAN : training'[s].rows = GenerateRows(refrigerated)
      BY <1>1, <1>2, <1>4 DEF RunIsSound, Prepared
    <2>3. \A i \in DOMAIN training'[s].batch : Teaches(training'[s].batch[i])
      BY <1>1, <1>4 DEF RunIsSound, Prepared
    <2>4. training[s].at \in Before /\ training'[s].at \in Before
      BY <1>2, <1>4 DEF Before, WithRows, Saving
    <2> QED
      BY <1>2, <1>4, <1>6, <2>1, <2>2, <2>3, <2>4, RunGoesOn
  <1>8. Lasting /\ AdaptersMade'
    BY <1>2, <1>3, <1>4, <1>6, WritingLasts, WrittenIsMade
  <1>9. AdaptersKeepTheirBase' /\ DirectoriesAreOwn'
    BY <1>2 DEF TrainingInv, AdaptersKeepTheirBase, DirectoriesAreOwn
  <1> QED
    BY <1>6, <1>7, <1>8, <1>9, RunStep

\* Its manifest is written, and the whole is checked (write_adapter_manifest).
LEMMA FinishAdapterStep ==
    ASSUME TrainingAssumption, TrainingInv, NEW s \in Runs, NEW stage \in {"smoke", "full"},
           FinishAdapter(s, stage)
    PROVE  TrainingInv'
  <1>1. /\ DOMAIN training = Runs /\ DOMAIN training[s] = RunFields
        /\ training[s].stages \in Seq(StageNames) /\ RunIsSound(s)
        /\ AdaptersMade /\ DOMAIN adapters = Places
    BY DEF TrainingInv, TrainingTypes, RunShape
  <1>2. /\ training[s].at = Tokenized[stage] /\ training[s].at \in Saving
        /\ UNCHANGED <<options, dirs, registry, reports, second, files, loaded>>
    BY DEF FinishAdapter, At, Tokenized, Saving
  <1>3. adapters' = [adapters EXCEPT ![<<s, stage>>] = FinishedAdapter(ConfigOf(s))]
    <2>1. adapters[<<s, stage>>] = Written(ConfigOf(s))
      BY <1>1, <1>2 DEF AdaptersMade, At
    <2> QED
      BY <2>1 DEF FinishAdapter, FinishedAdapter, Written
  <1>4. AdapterWritten(s, stage, FinishedAdapter(ConfigOf(s)))
    BY <1>3 DEF AdapterWritten, Parts
  <1>5. \A t \in Runs \ {s} : adapters'[<<t, "full">>] = adapters[<<t, "full">>]
    <2>1. \A t \in Runs \ {s} : <<t, "full">> # <<s, stage>> /\ <<t, "full">> \in Places
      BY DEF Places
    <2> QED
      BY <1>1, <1>3, <2>1
  <1>6. PICK next : /\ next \in {"full", "evaluate", "failed"}
                    /\ training'[s].at = next
                    /\ DOMAIN training' = Runs /\ DOMAIN training'[s] = RunFields
                    /\ training'[s].rows = training[s].rows
                    /\ training'[s].batch = training[s].batch
                    /\ training'[s].serving = training[s].serving
                    /\ \/ training'[s].stages = training[s].stages
                       \/ next = Following[stage]
                          /\ training'[s].stages = Append(training[s].stages, Named[stage])
                    /\ \A t \in Runs \ {s} : training'[t] = training[t]
    <2>1. CASE training' = [training EXCEPT ![s].at = "failed"]
      BY <1>1, <2>1 DEF RunFields
    <2>2. CASE training' = [training EXCEPT ![s].at = Following[stage],
                                            ![s].stages = Append(@, Named[stage])]
      <3>1. Following[stage] \in {"full", "evaluate", "failed"}
        BY DEF Following
      <3> QED
        BY <1>1, <2>2, <3>1 DEF RunFields
    <2> QED
      BY <2>1, <2>2 DEF FinishAdapter, Stage, Fail, Go
  <1>7. /\ training'[s].stages \in Seq(StageNames)
        /\ \A m : Did(s, m)' =>
              Did(s, m) \/ (m = Named[stage] /\ training'[s].at = Following[stage])
    <2>1. Named[stage] \in StageNames
      BY DEF StageNames, Named
    <2>2. CASE training'[s].stages = training[s].stages
      BY <1>1, <2>2 DEF Did
    <2>3. CASE training'[s].stages = Append(training[s].stages, Named[stage])
      <3>1. \/ training'[s].at = Following[stage]
            \/ training'[s].stages = training[s].stages
        BY <1>6
      <3>2. /\ training'[s].stages \in Seq(StageNames)
            /\ \A m : Did(s, m)' => m = Named[stage] \/ Did(s, m)
        BY <1>1, <2>1, <2>3, StageAdded DEF Did
      <3>3. training'[s].stages = training[s].stages => \A m : Did(s, m)' => Did(s, m)
        BY DEF Did
      <3> QED
        BY <3>1, <3>2, <3>3
    <2> QED
      BY <1>6, <2>2, <2>3
  <1>8. StepOf(s)
    BY <1>1, <1>2, <1>5, <1>6, <1>7 DEF StepOf
  <1>9. \A i \in DOMAIN training'[s].batch : Teaches(training'[s].batch[i])
    BY <1>1, <1>6 DEF RunIsSound, Prepared
  <1>10. ~Did(s, "full_train") /\ training[s].serving = Absent /\ reports[s] = Absent
    BY <1>1, <1>2 DEF RunIsSound, Prepared, Probed, Reported, Before, WithRows, Saving
  <1>11. Prepared(s)'
    <2>1. \E refrigerated \in BOOLEAN : training[s].rows = GenerateRows(refrigerated)
      BY <1>1, <1>2 DEF RunIsSound, Prepared, WithRows
    <2>2. ASSUME Did(s, "full_train")'
          PROVE  training'[s].at \notin Before
                 /\ adapters'[<<s, "full">>] = FinishedAdapter(ConfigOf(s)')
      <3>1. "full_train" = Named[stage] /\ training'[s].at = Following[stage]
        BY <1>7, <1>10, <2>2
      <3>2. stage = "full" /\ training'[s].at = "evaluate"
        BY <3>1 DEF Named, Following
      <3>3. adapters'[<<s, "full">>] = FinishedAdapter(ConfigOf(s)) /\ ConfigOf(s)' = ConfigOf(s)
        <4>1. <<s, stage>> \in Places
          BY DEF Places
        <4> QED
          BY <1>1, <1>2, <1>3, <3>2, <4>1 DEF ConfigOf
      <3> QED
        BY <3>2, <3>3 DEF Before, WithRows, Saving
    <2> QED
      BY <1>6, <1>9, <2>1, <2>2 DEF Prepared
  <1>12. Evaluating(s)' /\ Recorded(s)'
    BY <1>6 DEF Evaluating, Recorded
  <1>13. Probed(s)' /\ Reported(s)'
    BY <1>2, <1>6, <1>10 DEF Probed, Reported
  <1>14. Lasting
    BY <1>2, <1>4, WritingLasts
  <1>15. AdaptersMade'
    <2>1. training'[s].at \notin Saving
      BY <1>6 DEF Saving
    <2> QED
      BY <1>4, <1>8, <2>1, WrittenIsMade
  <1>16. AdaptersKeepTheirBase' /\ DirectoriesAreOwn'
    BY <1>2 DEF TrainingInv, AdaptersKeepTheirBase, DirectoriesAreOwn
  <1> QED
    BY <1>8, <1>11, <1>12, <1>13, <1>14, <1>15, <1>16, RunStep DEF RunIsSound

\* Time alone changes nothing.
LEMMA TimePasses ==
    ASSUME TrainingInv, second' \in 0 .. MaxSecond,
           UNCHANGED <<training, options, adapters, dirs, registry, reports, files, loaded>>
    PROVE  TrainingInv'
  <1>1. TrainingTypes'
    BY DEF TrainingInv, TrainingTypes
  <1>2. ASSUME NEW s \in Runs PROVE RunIsSound(s)'
    <2>1. RunIsSound(s)
      BY DEF TrainingInv
    <2> QED
      BY <2>1 DEF RunIsSound, Prepared, Evaluating, Recorded, Probed, Reported, Did, Chosen, Earned,
                  ConfigOf
  <1>3. RunShape' /\ AdaptersMade'
    BY DEF TrainingInv, RunShape, AdaptersMade, At, ConfigOf
  <1>4. AdaptersKeepTheirBase' /\ DirectoriesAreOwn'
    BY DEF TrainingInv, AdaptersKeepTheirBase, DirectoriesAreOwn
  <1> QED
    BY <1>1, <1>2, <1>3, <1>4 DEF TrainingInv

\* Every step keeps the invariant.
LEMMA TrainingNextKeeps ==
    ASSUME TrainingAssumption, TrainingInv, [TrainingNext]_trainingVars
    PROVE  TrainingInv'
  <1>1. ASSUME NEW s \in Runs, ChooseDirectory(s) \/ MakeDirectory(s) PROVE TrainingInv'
    BY <1>1, DirectoryStep
  <1>2. ASSUME NEW s \in Runs, BuildDatasets(s) \/ Preflight(s) PROVE TrainingInv'
    BY <1>2, PreparationStep
  <1>3. ASSUME NEW s \in Runs, NEW stage \in {"smoke", "full"},
               Train(s, stage) \/ SaveTokenizer(s, stage) \/ FinishAdapter(s, stage)
        PROVE  TrainingInv'
    BY <1>3, TrainStep, SaveTokenizerStep, FinishAdapterStep
  <1>4. ASSUME NEW s \in Runs, BeginEvaluation(s) \/ Generate(s) \/ RecordEvaluation(s)
        PROVE  TrainingInv'
    BY <1>4, BeginEvaluationStep, GenerateStep, RecordEvaluationStep
  <1>5. ASSUME NEW s \in Runs, ServingCheck(s) \/ WriteReport(s) PROVE TrainingInv'
    BY <1>5, ServingCheckStep, WriteReportStep
  <1>6. ASSUME NEW s \in Runs, Kill(s) PROVE TrainingInv'
    BY <1>6, RunFails DEF Kill
  <1>7. CASE Tick
    <2>1. MaxSecond \in Nat /\ second \in 0 .. MaxSecond /\ second < MaxSecond
          /\ second' = second + 1
      BY <1>7 DEF TrainingAssumption, TrainingInv, TrainingTypes, Tick
    <2>2. second' \in 0 .. MaxSecond
      BY <2>1
    <2> QED
      BY <1>7, <2>2, TimePasses DEF Tick
  <1>8. CASE UNCHANGED trainingVars
    <2>1. second' \in 0 .. MaxSecond
      BY <1>8 DEF TrainingInv, TrainingTypes, trainingVars
    <2> QED
      BY <1>8, <2>1, TimePasses DEF trainingVars
  <1> QED
    BY <1>1, <1>2, <1>3, <1>4, <1>5, <1>6, <1>7, <1>8 DEF TrainingNext

\* It holds of runs that were not started.
LEMMA TrainingBegins ==
    ASSUME TrainingAssumption, TrainingInit
    PROVE  TrainingInv
  <1>1. /\ DOMAIN training = Runs /\ options \in Commands /\ files \in Files
        /\ DOMAIN adapters = Places /\ second \in 0 .. MaxSecond
    BY DEF TrainingInit, TrainingAssumption
  <1>2. \A s \in Runs : training[s] = NewRun
    BY DEF TrainingInit
  <1>3. /\ DOMAIN NewRun = RunFields /\ NewRun.at = "new" /\ NewRun.batch = <<>>
        /\ NewRun.serving = Absent /\ NewRun.stages = <<>>
    BY DEF NewRun, RunFields
  <1>4. TrainingTypes /\ RunShape
    <2>1. <<>> \in Seq(StageNames)
      OBVIOUS
    <2>2. RunShape
      BY <1>2, <1>3, <2>1 DEF RunShape
    <2> QED
      BY <1>1, <2>2 DEF TrainingTypes
  <1>5. AdaptersMade
    <2>1. \A p \in DOMAIN OldAdapters : p \in Places /\ adapters[p] = OldAdapters[p]
      BY DEF TrainingInit, Places
    <2>2. ASSUME NEW s \in Runs, NEW stage \in {"smoke", "full"}
          PROVE  /\ adapters[<<s, stage>>] = Absent
                 /\ ~At(s, Saved[stage]) /\ ~At(s, Tokenized[stage])
      <3>1. <<s, stage>> \in Places /\ <<s, stage>> \notin DOMAIN OldAdapters
        BY DEF Places, TrainingAssumption
      <3>2. Saved[stage] # "new" /\ Tokenized[stage] # "new"
        BY DEF Saved, Tokenized
      <3> QED
        BY <1>2, <1>3, <3>1, <3>2 DEF TrainingInit, At
    <2> QED
      BY <2>1, <2>2 DEF AdaptersMade
  <1>6. AdaptersKeepTheirBase /\ DirectoriesAreOwn
    BY DEF TrainingInit, AdaptersKeepTheirBase, DirectoriesAreOwn
  <1>7. \A s \in Runs : RunIsSound(s)
    <2> SUFFICES ASSUME NEW s \in Runs PROVE RunIsSound(s)
      OBVIOUS
    <2>1. \A n : ~Did(s, n)
      BY <1>2, <1>3 DEF Did
    <2>2. Prepared(s)
      BY <1>2, <1>3, <2>1 DEF Prepared, WithRows, Saving
    <2>3. reports[s] = Absent
      BY DEF TrainingInit
    <2> QED
      BY <1>2, <1>3, <2>2, <2>3 DEF RunIsSound, Evaluating, Recorded, Probed, Reported
  <1> QED
    BY <1>4, <1>5, <1>6, <1>7 DEF TrainingInv

\* And says what is to be proved: a report is ready for what was done in its run.
LEMMA TrainingInvIsHonest ==
    ASSUME TrainingAssumption, TrainingInv
    PROVE  TrainingIsHonest
  <1>1. BatchesTeachTheAnswer
    BY DEF TrainingInv, RunIsSound, Prepared, BatchesTeachTheAnswer
  <1>2. ASSUME NEW s \in Runs, reports[s] # Absent
        PROVE  LET r == reports[s]
                   own == training[s].answers
               IN /\ r.training_evaluation_ready =>
                       /\ training[s].place # Absent
                       /\ Compatible(adapters[training[s].place], ConfigOf(s))
                       /\ Names(s, "generated_evaluation")
                       /\ \A i \in DOMAIN own : ~own[i].empty
                       /\ 100 * Cardinality({i \in DOMAIN own : ReferenceEcho(own[i])})
                            <= MaxEcho * EvalExamples
                       /\ 100 * Cardinality({i \in DOMAIN own : own[i].risk})
                            >= MinRisk * EvalExamples
                  /\ r.deployment_ready =>
                       /\ Names(s, "generated_evaluation") /\ Names(s, "serving_check")
                       /\ training[s].serving.reply # Absent /\ training[s].serving.reply.correct
                       /\ training[s].serving.reply.named
                  /\ registry[training[s].summary.id].by = s
                  /\ registry[training[s].summary.id].gate_passed =>
                       Names(s, "generated_evaluation")
                  /\ Names(s, "full_train") => adapters[<<s, "full">>].manifest # Absent
    <2>1. RunIsSound(s) /\ options \in Commands
      BY DEF TrainingInv, TrainingTypes
    <2>2. training[s].at = "done"
      BY <1>2, <2>1 DEF RunIsSound, Reported
    <2>3. /\ reports[s].stages = training[s].stages
          /\ reports[s].training_evaluation_ready => training[s].summary.gate
          /\ reports[s].deployment_ready =>
                training[s].serving # Absent /\ training[s].serving.ready
      <3>1. PICK evaluated : evaluated = (~options[s].dry_run /\ training[s].summary.gate)
        OBVIOUS
      <3>2. PICK deployed : deployed = (training[s].serving # Absent /\ training[s].serving.ready)
        OBVIOUS
      <3>3. reports[s] = [stages |-> training[s].stages, training_evaluation_ready |-> evaluated,
                          deployment_ready |-> deployed]
        BY <1>2, <2>1, <3>1, <3>2 DEF RunIsSound, Reported
      <3>4. /\ reports[s].stages = training[s].stages
            /\ reports[s].training_evaluation_ready = evaluated
            /\ reports[s].deployment_ready = deployed
        BY <3>3
      <3> QED
        BY <3>1, <3>2, <3>4
    <2>4. \A n : Names(s, n) <=> Did(s, n)
      BY <2>3 DEF Names, Did
    <2>5. /\ registry[training[s].summary.id].by = s
          /\ registry[training[s].summary.id].gate_passed => training[s].summary.gate
          /\ training[s].summary.gate => Earned(s)
          /\ training[s].inference => Did(s, "generated_evaluation")
      BY <2>1, <2>2 DEF RunIsSound, Recorded
    <2>6. /\ training[s].inference = (training[s].place # Absent)
          /\ training[s].place # Absent => Chosen(s, training[s].place)
      BY <2>1, <2>2 DEF RunIsSound, Evaluating
    <2>7. Earned(s) => training[s].inference /\ training[s].place # Absent
      BY <2>6 DEF Earned
    <2>8. training[s].place # Absent => Compatible(adapters[training[s].place], ConfigOf(s))
      BY <2>6 DEF Chosen
    <2>9. Did(s, "full_train") => adapters[<<s, "full">>].manifest # Absent
      <3>1. ConfigOf(s) \in Settings
        BY <2>1 DEF ConfigOf, TrainingAssumption
      <3>2. FinishedAdapter(ConfigOf(s)).manifest # Absent
        BY <3>1 DEF TrainingAssumption, FinishedAdapter, WithManifest, WithTokenizer, SavedAdapter
      <3> QED
        BY <2>1, <3>2 DEF RunIsSound, Prepared
    <2>10. training[s].serving # Absent /\ training[s].serving.ready =>
             /\ Did(s, "generated_evaluation") /\ Did(s, "serving_check")
             /\ training[s].serving.reply # Absent /\ training[s].serving.reply.correct
             /\ training[s].serving.reply.named
      BY <2>1 DEF RunIsSound, Probed
    <2>11. Earned(s) =>
             LET own == training[s].answers
             IN /\ \A i \in DOMAIN own : ~own[i].empty
                /\ 100 * Cardinality({i \in DOMAIN own : ReferenceEcho(own[i])})
                     <= MaxEcho * EvalExamples
                /\ 100 * Cardinality({i \in DOMAIN own : own[i].risk}) >= MinRisk * EvalExamples
      BY DEF Earned
    <2> QED
      BY <2>3, <2>4, <2>5, <2>7, <2>8, <2>9, <2>10, <2>11
  <1>3. ReportsAreEarned
    BY <1>2 DEF ReportsAreEarned
  <1> QED
    BY <1>1, <1>3 DEF TrainingInv, TrainingIsHonest

\* The inductive invariant holds in every state (shelfwise/training).
THEOREM TrainingInvariance ==
    ASSUME TrainingAssumption
    PROVE  TrainingSpec => []TrainingInv
  <1>1. TrainingInit => TrainingInv
    BY TrainingBegins
  <1>2. TrainingInv /\ [TrainingNext]_trainingVars => TrainingInv'
    BY TrainingNextKeeps
  <1> QED
    BY <1>1, <1>2, PTL DEF TrainingSpec

\* However many shakedowns run beside each other, whatever they were told and wherever they
\* were killed: an adapter is only put on the model it was made for, a report is ready only
\* for what was generated and answered in its own run, every batch teaches the answers and
\* a directory has one run (run_shakedown).
THEOREM TrainingStaysHonest ==
    ASSUME TrainingAssumption
    PROVE  TrainingSpec => []TrainingIsHonest
  <1>1. TrainingInv => TrainingIsHonest
    BY TrainingInvIsHonest
  <1> QED
    BY <1>1, TrainingInvariance, PTL
=============================================================================
