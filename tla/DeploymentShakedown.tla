------------------------- MODULE DeploymentShakedown -------------------------
(***************************************************************************)
(* The shakedown of a deployed stack over its public origin,                *)
(* scripts/deployment_shakedown.py: it polls the health route, opens a      *)
(* session, asks for readiness, and then, cycle by cycle, has a decision    *)
(* made, approves or rejects it and asks a question twice; at the end it    *)
(* reads what the stack kept, and gives one receipt with a verdict.         *)
(*                                                                          *)
(* The stack is external: every request may be answered well, badly, or not *)
(* in time. A run takes one request per step.                               *)
(***************************************************************************)
EXTENDS Naturals, Sequences, FiniteSets, FiniteSetsExt

CONSTANTS
    Configs,       \* [cycles, timed, live_required, polls]: polls is how often the startup
                   \* budget allows to ask, and timed cycles may end before there are cycles
    DecisionIds,   \* the ids a stack may give
    MaxBad,        \* bound: answers that are not good
    None

\* DeploymentShakedownConfig.__post_init__
ShakedownAssumption ==
    /\ Configs \subseteq [cycles : Nat \ {0}, polls : Nat \ {0}, timed : BOOLEAN,
                         live_required : BOOLEAN]
    /\ MaxBad \in Nat

VARIABLES
    setup,      \* the run's, of Configs
    step,       \* the request that is next, or "verdict" or "over"
    polls,      \* health requests so far
    round,      \* cycles so far
    pending,    \* the decision of this cycle
    failures,   \* codes, [code, of]
    tally,      \* the counters of the receipt
    decisions,  \* decision ids, in order
    verdict,    \* None, or the receipt: [verdict, unique, tenant_mismatches]
    bad,        \* answers that were not good
    answers     \* history: [to, of, answer], in order

vars == <<setup, step, polls, round, pending, failures, tally, decisions, verdict, bad, answers>>

-----------------------------------------------------------------------------
(* What may be answered. *)

\* _request: the status, or the way the transport failed; [status, body].
Answer(status, body) == [status |-> status, body |-> body]
Broken == {Answer("5xx", {}), Answer("timeout", {}), Answer("error", {})}
Ok(a) == a.status = "2xx"
TransportCode(a) ==
    CASE a.status = "timeout" -> {"request_timeout"} [] a.status = "error" -> {"request_error"}
      [] OTHER -> {}

\* A body is the set of what is right about it, so that less is worse.
GoodBody ==
    [health    |-> {"ok"}, frontend |-> {}, session |-> {"cookie", "tenant"},
     readiness |-> {"ready", "jwt", "secret", "amd"},
     approve   |-> {"same", "status", "learning", "moved"}, reject |-> {"same", "status"},
     chat      |-> {"text", "correlation", "fresh", "provider", "model", "named"},
     replay    |-> {"replayed"},
     decisions |-> {"list", "tenant"}, learning |-> {"list", "events"},
     writeback |-> {"list", "pending"}, observability |-> {}]
Good(to) == Answer("2xx", GoodBody[to])
Worse(to) ==
    Broken \cup {Answer("2xx", GoodBody[to] \ {x}) : x \in GoodBody[to]}
           \cup (IF to = "chat" THEN {Answer("503", {})} ELSE {})

-----------------------------------------------------------------------------
(* The run. *)

NoTally == [approvals |-> 0, rejections |-> 0, mismatches |-> 0, expected_learning |-> 0,
            observed_learning |-> 0, calls |-> 0, model_answers |-> 0, fallback_answers |-> 0,
            fail_closed_answers |-> 0, replay_checks |-> 0, replay_matches |-> 0, posts |-> 0]

Init ==
    /\ setup \in Configs /\ step = "health" /\ polls = 0 /\ round = 0 /\ pending = None
    /\ failures = {} /\ tally = NoTally /\ decisions = <<>> /\ verdict = None /\ bad = 0
    /\ answers = <<>>

\* The stack answers the request that is next, well or badly.
Reply(to, a) ==
    /\ step = to /\ verdict = None
    /\ \/ a = Good(to) /\ UNCHANGED bad
       \/ a \in Worse(to) /\ bad < MaxBad /\ bad' = bad + 1
    /\ answers' = Append(answers, [to |-> to, of |-> pending, answer |-> a])

Fails(codes) == failures' = failures \cup {[code |-> c, of |-> pending] : c \in codes}
If(condition, code) == IF condition THEN {code} ELSE {}
One(condition) == IF condition THEN 1 ELSE 0
Without(a, part, code) == If(part \notin a.body, code)

\* _poll_health: every poll that fails in transport is a failure of its own, whatever
\* follows; the budget may end before the stack is up.
PollHealth ==
    \E a \in {Good("health")} \cup Worse("health") :
        LET up == Ok(a) /\ "ok" \in a.body
        IN /\ Reply("health", a) /\ polls' = polls + 1
           /\ Fails(TransportCode(a) \cup If(a.status = "timeout", "startup_timeout")
                    \cup If(~up /\ polls + 1 = setup.polls, "startup_deadline_exceeded"))
           /\ step' = IF up \/ polls + 1 = setup.polls THEN "frontend" ELSE "health"
           /\ UNCHANGED <<setup, round, pending, tally, decisions, verdict>>

\* The page itself: only the transport counts, not its status.
Frontend ==
    \E a \in {Good("frontend")} \cup Worse("frontend") :
        /\ Reply("frontend", a) /\ Fails(TransportCode(a)) /\ step' = "session"
        /\ UNCHANGED <<setup, polls, round, pending, tally, decisions, verdict>>

\* A failed route has the transport's code, or one of its own.
RouteFailure(a, code) ==
    IF Ok(a) THEN {} ELSE IF TransportCode(a) # {} THEN TransportCode(a) ELSE {code}

\* _session_context and _cookie_received
Session ==
    \E a \in {Good("session")} \cup Worse("session") :
        /\ Reply("session", a)
        /\ Fails(RouteFailure(a, "session_route") \cup Without(a, "cookie", "cookie_missing"))
        /\ step' = "readiness"
        /\ UNCHANGED <<setup, polls, round, pending, tally, decisions, verdict>>

SessionOk == \E i \in DOMAIN answers : answers[i].to = "session" /\ Ok(answers[i].answer)
TenantKnown == \E i \in DOMAIN answers : answers[i].to = "session" /\ "tenant" \in answers[i].answer.body

\* _check_readiness
Readiness ==
    \E a \in {Good("readiness")} \cup Worse("readiness") :
        /\ Reply("readiness", a)
        /\ Fails(RouteFailure(a, "readiness_route") \cup Without(a, "ready", "not_ready")
                 \cup IF setup.live_required
                      THEN Without(a, "jwt", "not_jwt") \cup Without(a, "secret", "no_secret")
                           \cup Without(a, "amd", "no_amd")
                      ELSE {})
        /\ step' = IF SessionOk /\ Ok(a) THEN "scenario" ELSE "verdict"
        /\ UNCHANGED <<setup, polls, round, pending, tally, decisions, verdict>>

\* The cycles go on while there are some left, and time.
AfterCycle(done) ==
    If(done < setup.cycles, "scenario") \cup If(done = setup.cycles \/ setup.timed, "decisions")

\* _run_scenarios, the first request: a decision is made, of some id and tenant.
Scenario ==
    /\ step = "scenario" /\ verdict = None /\ round' = round + 1
    /\ \/ \E id \in DecisionIds : \E own \in BOOLEAN :
            LET fine == own /\ \A i \in DOMAIN decisions : decisions[i] # id
            IN /\ IF fine THEN UNCHANGED bad ELSE bad < MaxBad /\ bad' = bad + 1
               /\ decisions' = Append(decisions, id) /\ pending' = id
               /\ failures' = failures \cup If(~own /\ TenantKnown, [code |-> "tenant_mismatch", of |-> id])
               /\ tally' = [tally EXCEPT !.posts = @ + 1]
               /\ step' = IF round' % 2 = 1 THEN "approve" ELSE "reject"
               /\ answers' = Append(answers, [to |-> "scenario", of |-> id,
                                answer |-> Answer("2xx", If(own, "tenant"))])
       \/ \E a \in Broken \cup {Answer("2xx", {})} :
            /\ bad < MaxBad /\ bad' = bad + 1
            /\ Fails(RouteFailure(a, "scenario_route") \cup If(Ok(a), "decision_id_missing"))
            /\ tally' = IF Ok(a) THEN [tally EXCEPT !.posts = @ + 1] ELSE tally
            /\ step' \in AfterCycle(round')
            /\ answers' = Append(answers, [to |-> "scenario", of |-> None, answer |-> a])
            /\ UNCHANGED <<decisions, pending>>
    /\ UNCHANGED <<setup, polls, verdict>>

\* The decision is resolved, alternately one way and the other; an approval has a learning
\* receipt (_valid_learning_receipt) that may have moved the threshold.
\* Mistake: a decision that has the status will do, whichever it is.
ResolvedSomeone(a) == Ok(a) /\ "status" \in a.body
Resolved(a) == Ok(a) /\ {"same", "status"} \subseteq a.body
Resolve(action) ==
    \E a \in {Good(action)} \cup Worse(action) :
        /\ Reply(action, a)
        /\ Fails(If(~Resolved(a), "transition_mismatch")
                 \cup If(Resolved(a) /\ action = "approve" /\ "learning" \notin a.body,
                         "learning_receipt_missing"))
        /\ tally' = [tally EXCEPT
             !.approvals = @ + One(Resolved(a) /\ action = "approve"),
             !.rejections = @ + One(Resolved(a) /\ action = "reject"),
             !.mismatches = @ + One(~Resolved(a)),
             !.expected_learning = @ + One(Resolved(a) /\ "learning" \in a.body),
             !.observed_learning =
                 @ + One(Resolved(a) /\ {"learning", "moved"} \subseteq a.body)]
        /\ step' = "chat"
        /\ UNCHANGED <<setup, polls, round, pending, decisions, verdict>>

\* _record_chat: without a model that is required, a 503 is the right answer.
\* Mistake: it is whatever was required.
FailsClosedAlways(a) == a.status = "503"
FailsClosed(a) == a.status = "503" /\ ~setup.live_required
ChatFailures(a) ==
    IF ~Ok(a) THEN RouteFailure(a, "chat_route")
    ELSE Without(a, "text", "empty_answer") \cup Without(a, "correlation", "no_correlation_id")
         \cup Without(a, "fresh", "fresh_request_replayed")
         \cup IF setup.live_required
              THEN Without(a, "provider", "provider_not_amd")
                   \cup Without(a, "model", "not_model_backed")
                   \cup Without(a, "named", "model_header")
              ELSE {}
Chat ==
    \E a \in {Good("chat")} \cup Worse("chat") :
        /\ Reply("chat", a)
        /\ Fails(IF FailsClosed(a) THEN {} ELSE ChatFailures(a))
        /\ tally' = CASE FailsClosed(a) -> [tally EXCEPT !.fail_closed_answers = @ + 1]
                      [] Ok(a) -> [tally EXCEPT !.calls = @ + 1,
                             !.model_answers = @ + One("model" \in a.body),
                             !.fallback_answers = @ + One("model" \notin a.body)]
                      [] OTHER -> tally
        /\ step' \in IF Ok(a) THEN {"replay"} ELSE AfterCycle(round)
        /\ UNCHANGED <<setup, polls, round, pending, decisions, verdict>>

\* The same message again must be a replay.
Replay ==
    \E a \in {Good("replay")} \cup Worse("replay") :
        LET match == Ok(a) /\ "replayed" \in a.body
        IN /\ Reply("replay", a)
           /\ Fails(If(~match, "replay_mismatch") \cup TransportCode(a))
           /\ tally' = [tally EXCEPT !.replay_checks = @ + 1,
                                     !.replay_matches = @ + One(match)]
           /\ step' \in AfterCycle(round)
           /\ UNCHANGED <<setup, polls, round, pending, decisions, verdict>>

\* _probe_state_routes: what a broken route answers is not a list, only a body that can
\* be read as nothing is; the tasks must all still wait for the external write.
StateFailures(to, a) ==
    If(~Ok(a), "state_route")
    \cup CASE to = "decisions" -> If(/\ TenantKnown /\ "list" \in a.body
                                        /\ "tenant" \notin a.body, "tenant_mismatch")
           [] to = "learning" -> IF "list" \notin a.body THEN {"learning_payload"}
                                 ELSE Without(a, "events", "learning_events_missing")
           [] to = "writeback" -> IF "list" \notin a.body THEN {"writeback_payload"}
                                  ELSE Without(a, "pending", "writeback_status")
           [] OTHER -> {}
AfterState == [decisions |-> "learning", learning |-> "writeback", writeback |-> "observability",
               observability |-> "verdict"]
StateRoute(to) ==
    \E a \in {Good(to)} \cup Worse(to) :
        /\ Reply(to, a) /\ Fails(StateFailures(to, a)) /\ step' = AfterState[to]
        /\ UNCHANGED <<setup, polls, round, pending, tally, decisions, verdict>>

\* The verdict. Mistake: a run whose cycles were fine passes.
VerdictOfCycles(codes) ==
    IF \A f \in codes : f.code \notin {"transition_mismatch", "tenant_mismatch"} THEN "PASS" ELSE "FAIL"
Verdict(codes) == IF codes = {} THEN "PASS" ELSE "FAIL"

Unique == Cardinality({decisions[i] : i \in DOMAIN decisions}) = Len(decisions)
Conclude ==
    /\ step = "verdict" /\ step' = "over"
    /\ LET codes == failures
                \cup If(~Unique, [code |-> "decision_id_reuse", of |-> None])
                \cup If(tally.replay_checks # tally.replay_matches,
                        [code |-> "replay_integrity", of |-> None])
                \cup If(setup.live_required /\ tally.fallback_answers > 0,
                        [code |-> "live_fallbacks", of |-> None])
       IN /\ failures' = codes
          /\ verdict' = [verdict |-> Verdict(codes), unique |-> Unique]
    /\ UNCHANGED <<setup, polls, round, pending, tally, decisions, bad, answers>>

Next ==
    \/ PollHealth \/ Frontend \/ Session \/ Readiness \/ Scenario
    \/ Resolve("approve") \/ Resolve("reject") \/ Chat \/ Replay
    \/ \E to \in DOMAIN AfterState : StateRoute(to)
    \/ Conclude

Spec == Init /\ [][Next]_vars
-----------------------------------------------------------------------------
(* Properties. *)

TypeOK ==
    /\ setup \in Configs /\ polls \in 0 .. setup.polls /\ round \in 0 .. setup.cycles
    /\ bad \in 0 .. MaxBad /\ decisions \in Seq(DecisionIds)

To(kinds) == {i \in DOMAIN answers : answers[i].to \in kinds}
Body(i) == answers[i].answer.body

\* A stack passes only when, however its answers fell: it came up; every request was
\* answered, except a page that is broken, a poll before it was up and, when no model is
\* required, a chat that failed closed; every decision was a new one of the session's
\* tenant, and was resolved as it was asked to be, an approval with its learning receipt;
\* every answer was fresh, and the same when asked again; and with a model required, every
\* answer came from it (run_deployment_shakedown).
PassIsDeserved ==
    verdict # None /\ verdict.verdict = "PASS" =>
      /\ \E i \in To({"health"}) : "ok" \in Body(i)
      /\ \A i \in DOMAIN answers :
            \/ Ok(answers[i].answer)
            \/ answers[i].to \in {"health", "frontend"} /\ answers[i].answer.status = "5xx"
            \/ answers[i].to = "chat" /\ answers[i].answer.status = "503" /\ ~setup.live_required
      /\ \A i, j \in To({"scenario"}) : i # j => answers[i].of # answers[j].of
      /\ \A i \in To({"scenario"}) : TenantKnown => "tenant" \in Body(i)
      /\ Cardinality(To({"approve", "reject"})) = Cardinality(To({"scenario"}))
      /\ \A i \in To({"approve", "reject"}) : {"same", "status"} \subseteq Body(i)
      /\ \A i \in To({"approve"}) : "learning" \in Body(i)
      /\ \A i \in To({"chat"}) : setup.live_required => {"model", "provider"} \subseteq Body(i)
      /\ \A i \in To({"chat"}) : Ok(answers[i].answer) =>
            "fresh" \in Body(i) /\ answers[i + 1].to = "replay" /\ "replayed" \in Body(i + 1)
      /\ \A i \in To({"learning"}) : "events" \in Body(i)

\* A stack that answers everything as it should passes, in any mode and however early the
\* time is over.
GoodStackPasses == verdict # None /\ bad = 0 => verdict.verdict = "PASS"

\* What the receipt counts is what happened: every decision was approved, rejected or is a
\* mismatch, and the learning that moved is some of the learning there was.
CountsAgree ==
    step \in {"scenario", "verdict", "over"} =>
        /\ tally.approvals + tally.rejections + tally.mismatches = Len(decisions)
        /\ tally.observed_learning <= tally.expected_learning
        /\ tally.expected_learning <= tally.approvals
        /\ tally.model_answers + tally.fallback_answers = tally.calls
        /\ tally.replay_checks = tally.calls
        /\ tally.posts = Cardinality({i \in To({"scenario"}) : Ok(answers[i].answer)})

DeploymentVerdictHolds == PassIsDeserved /\ GoodStackPasses /\ CountsAgree
=============================================================================
