------------------------ MODULE DecisionLifecycle ------------------------
(***************************************************************************)
(* The human-in-the-loop side: cascades propose decisions, managers approve *)
(* or reject them, an approval teaches the learning store and files a       *)
(* write-back task, and completing the task reports back to the decision.   *)
(* The stores are the Postgres ones, one committed statement (or one        *)
(* transaction) per step; requests run in threads of one or more backends,  *)
(* so anything may happen between two steps of a request.                   *)
(*                                                                          *)
(* A payload is its content (action and expected outcome), its status and   *)
(* the annotations the routes write: learning event, write-back task,       *)
(* correction, verified outcome. annotate and the transition write the      *)
(* whole payload they read before.                                          *)
(***************************************************************************)
EXTENDS Naturals, FiniteSets

CONSTANTS Decisions,         \* decision ids, stable per scenario
          Contents,          \* what a decision may recommend
          Proposals,         \* <<id, content, status>> a cascade run may compute
          Measured, Baseline,\* per content: what approving it measures, and
                             \* the threshold it starts from when none is set
          Metrics, MetricOf, \* the threshold each decision moves (routed_metric)
          Relocations,       \* decisions whose action is relocate_stock
          Receipts, Valued,  \* completion receipts; those with a recovered value
          Threads,           \* request handlers
          None,              \* no row, no annotation, no lock
          MaxCalls,          \* bound: requests served
          MaxCrashes         \* bound: requests cut short

Terminal == {"approved", "rejected"}
Status   == Terminal \cup {"pending"}

Event   == [kind: Terminal, prev: Nat, upd: Nat]
Payload == [status: Status, content: Contents, event: Event \cup {None},
            task: Contents \cup {None}, correction: {"approve", "reject", None},
            verified: Receipts \cup {None}]
Task    == [action: Contents, receipt: Receipts \cup {None}]
Bins    == {"source", "destination"}
Call    == [op: {"cascade", "approve", "reject", "complete"}, d: Decisions,
            fix: BOOLEAN, receipt: Receipts \cup {None}]

ASSUME LifecycleAssumption ==
    /\ Decisions # {}
    /\ Measured \in [Contents -> Nat] /\ Baseline \in [Contents -> Nat]
    /\ \A c \in Contents : Baseline[c] <= Measured[c]
    /\ Proposals \subseteq Decisions \X Contents \X Status
    /\ MetricOf \in [Decisions -> Metrics]
    /\ Relocations \subseteq Decisions /\ Valued \subseteq Receipts
    /\ None \notin Contents \cup Receipts \cup Threads \cup Nat \cup Status
    /\ None \notin Payload \cup Event \cup Task \cup [status: Status, content: Contents]
    /\ MaxCalls \in Nat /\ MaxCrashes \in Nat

VARIABLES
    row,         \* shelfwise_decisions: id -> payload or None
    learning,    \* shelfwise_learning_events: id -> event or None
    thresholds,  \* shelfwise_learning_thresholds: metric -> units or None
    lock,        \* FOR UPDATE lock on a threshold row: holder or None
    tasks,       \* shelfwise_writeback_tasks: "writeback:<id>" -> task or None
    moved,       \* positions a relocation's completion has written
    pc, call,    \* per thread: next step, the request it serves
    rec, ev,     \* per thread: payload and learning event in hand
    answered,    \* calls answered with 200, and the learning event they report
    calls, crashes

stores  == <<row, learning, thresholds, lock, tasks, moved>>
threads == <<pc, call, rec, ev>>
bounds  == <<calls, crashes>>
vars == <<row, learning, thresholds, lock, tasks, moved, pc, call, rec, ev,
          answered, calls, crashes>>

Steps == {"idle", "upsert", "transition_get", "transition_put", "reread", "learn_check", "learn_lock",
          "learn_commit", "file_get", "file_put", "correct_get", "correct_put",
          "reject_check", "reject_insert", "annotate_get", "annotate_put",
          "complete", "vacate", "fill", "verify_get", "verify_put"}

Idle == [op |-> "cascade", d |-> CHOOSE d \in Decisions : TRUE,
         fix |-> FALSE, receipt |-> None]

D(t) == call[t].d
At(t, step) == pc[t] = step
Goto(t, step) == pc' = [pc EXCEPT ![t] = step]
Larger(a, b) == IF a > b THEN a ELSE b
Pending(d) == row[d] # None /\ row[d].status = "pending"
Settled(d) == row[d] # None /\ row[d].status \in Terminal

Init ==
    /\ row = [d \in Decisions |-> None]
    /\ learning = [d \in Decisions |-> None]
    /\ thresholds = [m \in Metrics |-> None]
    /\ lock = [m \in Metrics |-> None]
    /\ tasks = [d \in Decisions |-> None]
    /\ moved = [d \in Decisions |-> {}]
    /\ pc = [t \in Threads |-> "idle"] /\ call = [t \in Threads |-> Idle]
    /\ rec = [t \in Threads |-> None] /\ ev = [t \in Threads |-> None]
    /\ answered = {} /\ calls = 0 /\ crashes = 0

\* The thread is done with its request and forgets it.
Drop(t) ==
    /\ Goto(t, "idle")
    /\ call' = [call EXCEPT ![t] = Idle]
    /\ rec' = [rec EXCEPT ![t] = None]
    /\ ev' = [ev EXCEPT ![t] = None]

\* A 200 answer: the request and the learning event in its body.
Answer(t, e) ==
    /\ Drop(t)
    /\ answered' = answered \cup {[call |-> call[t], event |-> e]}

Begin(t, op, d, fix, r) ==
    /\ At(t, "idle") /\ calls < MaxCalls
    /\ calls' = calls + 1
    /\ call' = [call EXCEPT ![t] = [op |-> op, d |-> d, fix |-> fix, receipt |-> r]]
    /\ UNCHANGED crashes

Hold(t, payload, step) ==
    /\ rec' = [rec EXCEPT ![t] = payload]
    /\ Goto(t, step)

-----------------------------------------------------------------------------
(* PostgresDecisionStore.upsert, called with a cascade's result. *)

Fresh(c, s) == [status |-> s, content |-> c, event |-> None, task |-> None,
                correction |-> None, verified |-> None]

\* get, return an approved or rejected decision as it is, else merge. Most
\* cascades propose a pending decision; a failed critique proposes a rejected
\* one, a price that matches an approved one.
Propose(t, d, c, s) ==
    /\ Begin(t, "cascade", d, FALSE, None)
    /\ ~ Settled(d)
    /\ Hold(t, IF row[d] = None THEN Fresh(c, s)
               ELSE [row[d] EXCEPT !.content = c, !.status = s], "upsert")
    /\ UNCHANGED <<stores, ev, answered>>

\* Mistake: the terminal-state guard of the conflict clause is missing.
UpsertUnguarded(t) ==
    /\ At(t, "upsert")
    /\ row' = [row EXCEPT ![D(t)] = rec[t]]
    /\ Answer(t, None)
    /\ UNCHANGED <<learning, thresholds, lock, tasks, moved, bounds>>

\* INSERT ... ON CONFLICT DO UPDATE ... WHERE status NOT IN (terminal).
Upsert(t) ==
    /\ At(t, "upsert")
    /\ row' = IF Settled(D(t)) THEN row ELSE [row EXCEPT ![D(t)] = rec[t]]
    /\ Answer(t, None)
    /\ UNCHANGED <<learning, thresholds, lock, tasks, moved, bounds>>

-----------------------------------------------------------------------------
(* approve_decision and reject_decision: PostgresDecisionStore._transition. *)

\* Where the route goes with the decision the store returned, before the step
\* itself answers; "answer" when it returns at once.
AfterTransition(t, r) ==
    CASE call[t].op = "approve" /\ r.status = "approved" -> "learn_check"
      [] call[t].op = "reject" /\ call[t].fix            -> "correct_get"
      [] call[t].op = "reject" /\ ~ call[t].fix
                               /\ r.status = "rejected"  -> "reject_check"
      [] OTHER -> "answer"

\* The route goes on with decision r.
Continue(t, r) ==
    \/ /\ AfterTransition(t, r) # "answer"
       /\ Hold(t, r, AfterTransition(t, r))
       /\ UNCHANGED <<call, ev, answered>>
    \/ /\ AfterTransition(t, r) = "answer"
       /\ Answer(t, None)

Verdict(op) == IF op = "approve" THEN "approved" ELSE "rejected"

\* The request arrives. An unknown decision is answered 404.
Review(t, op, d, fix) ==
    /\ row[d] # None
    /\ Begin(t, op, d, fix, None)
    /\ Goto(t, "transition_get")
    /\ UNCHANGED <<stores, rec, ev, answered>>

\* get: a decision in a terminal state is returned unchanged.
TransitionGet(t) ==
    /\ At(t, "transition_get")
    /\ \/ /\ Settled(D(t))
          /\ Continue(t, row[D(t)])
       \/ /\ ~ Settled(D(t))
          /\ Hold(t, [row[D(t)] EXCEPT !.status = Verdict(call[t].op)],
                  "transition_put")
          /\ UNCHANGED <<call, ev, answered>>
    /\ UNCHANGED <<stores, bounds>>

\* Mistake: the update does not ask whether the decision is still pending.
TransitionPutUnguarded(t) ==
    /\ At(t, "transition_put")
    /\ row' = [row EXCEPT ![D(t)] = rec[t]]
    /\ Continue(t, rec[t])
    /\ UNCHANGED <<learning, thresholds, lock, tasks, moved, bounds>>

\* UPDATE ... WHERE status = 'pending' RETURNING payload.
TransitionPut(t) ==
    /\ At(t, "transition_put")
    /\ \/ /\ Pending(D(t))
          /\ row' = [row EXCEPT ![D(t)] = rec[t]]
          /\ Continue(t, rec[t])
       \/ /\ ~ Pending(D(t))
          /\ Goto(t, "reread")
          /\ UNCHANGED <<row, call, rec, ev, answered>>
    /\ UNCHANGED <<learning, thresholds, lock, tasks, moved, bounds>>

\* The update matched no row: another request decided first.
Reread(t) ==
    /\ At(t, "reread")
    /\ Continue(t, row[D(t)])
    /\ UNCHANGED <<stores, bounds>>

-----------------------------------------------------------------------------
(* approve_decision, once approved: PostgresLearningStore and the sink. *)

\* select the existing event.
LearnCheck(t) ==
    /\ At(t, "learn_check")
    /\ ev' = [ev EXCEPT ![t] = learning[D(t)]]
    /\ Goto(t, IF learning[D(t)] = None THEN "learn_lock" ELSE "file_get")
    /\ UNCHANGED <<stores, call, rec, answered, bounds>>

\* _build_learning_event on the threshold read.
Learned(c, previous) ==
    LET base == IF previous = None THEN Baseline[c] ELSE previous
    IN  [kind |-> "approved", prev |-> base, upd |-> Larger(base, Measured[c])]

\* select the threshold FOR UPDATE: waits for the row's lock, and takes none
\* when there is no row yet.
LearnLock(t) ==
    LET m == MetricOf[D(t)]
    IN  /\ At(t, "learn_lock") /\ lock[m] = None
        /\ ev' = [ev EXCEPT ![t] = Learned(rec[t].content, thresholds[m])]
        /\ lock' = IF thresholds[m] = None THEN lock ELSE [lock EXCEPT ![m] = t]
        /\ Goto(t, "learn_commit")
        /\ UNCHANGED <<row, learning, thresholds, tasks, moved, call, rec, answered, bounds>>

\* Mistake: the conflict clause stores the caller's threshold, not the greatest.
LearnCommitOverwrites(t) ==
    LET m == MetricOf[D(t)]
        stored == IF learning[D(t)] # None THEN learning[D(t)] ELSE ev[t]
    IN  /\ At(t, "learn_commit") /\ lock[m] \in {None, t}
        /\ thresholds' = [thresholds EXCEPT ![m] = ev[t].upd]
        /\ learning' = [learning EXCEPT ![D(t)] = stored]
        /\ ev' = [ev EXCEPT ![t] = stored]
        /\ lock' = [lock EXCEPT ![m] = None]
        /\ Goto(t, "file_get")
        /\ UNCHANGED <<row, tasks, moved, call, rec, answered, bounds>>

\* Mistake: a connection goes back to the pool inside its transaction.
LearnCommitOpen(t) ==
    LET m == MetricOf[D(t)]
        final == IF thresholds[m] = None THEN ev[t].upd ELSE Larger(thresholds[m], ev[t].upd)
        stored == IF learning[D(t)] # None THEN learning[D(t)]
                                           ELSE [ev[t] EXCEPT !.upd = final]
    IN  /\ At(t, "learn_commit") /\ lock[m] \in {None, t}
        /\ thresholds' = [thresholds EXCEPT ![m] = final]
        /\ learning' = [learning EXCEPT ![D(t)] = stored]
        /\ ev' = [ev EXCEPT ![t] = stored]
        /\ lock' = [lock EXCEPT ![m] = t]
        /\ Goto(t, "file_get")
        /\ UNCHANGED <<row, tasks, moved, call, rec, answered, bounds>>

\* The rest of the transaction, under the threshold row's lock: raise the
\* threshold to the greatest, report that one in the event, insert the event
\* unless another caller's is there (then return that one), commit.
LearnCommit(t) ==
    LET m == MetricOf[D(t)]
        final == IF thresholds[m] = None THEN ev[t].upd ELSE Larger(thresholds[m], ev[t].upd)
        stored == IF learning[D(t)] # None THEN learning[D(t)]
                                           ELSE [ev[t] EXCEPT !.upd = final]
    IN  /\ At(t, "learn_commit") /\ lock[m] \in {None, t}
        /\ thresholds' = [thresholds EXCEPT ![m] = final]
        /\ learning' = [learning EXCEPT ![D(t)] = stored]
        /\ ev' = [ev EXCEPT ![t] = stored]
        /\ lock' = [lock EXCEPT ![m] = None]
        /\ Goto(t, "file_get")
        /\ UNCHANGED <<row, tasks, moved, call, rec, answered, bounds>>

\* decision["write_back"], else create_task's look at the idempotency key.
FileGet(t) ==
    /\ At(t, "file_get")
    /\ \/ /\ rec[t].task # None
          /\ Goto(t, "annotate_get")
          /\ UNCHANGED rec
       \/ /\ rec[t].task = None /\ tasks[D(t)] # None
          /\ Hold(t, [rec[t] EXCEPT !.task = tasks[D(t)].action], "annotate_get")
       \/ /\ rec[t].task = None /\ tasks[D(t)] = None
          /\ Goto(t, "file_put")
          /\ UNCHANGED rec
    /\ UNCHANGED <<stores, call, ev, answered, bounds>>

\* INSERT ... ON CONFLICT DO NOTHING, then the row that is there.
FilePut(t) ==
    /\ At(t, "file_put")
    /\ tasks' = IF tasks[D(t)] # None THEN tasks
                ELSE [tasks EXCEPT ![D(t)] = [action |-> rec[t].content, receipt |-> None]]
    /\ Hold(t, [rec[t] EXCEPT !.task = tasks'[D(t)].action], "annotate_get")
    /\ UNCHANGED <<row, learning, thresholds, lock, moved, call, ev, answered, bounds>>

\* annotate, first half: the payload as it is now, with the route's fields.
AnnotateGet(t) ==
    /\ At(t, "annotate_get")
    /\ Hold(t, [row[D(t)] EXCEPT !.event = ev[t],
                    !.task = IF call[t].op = "approve" THEN rec[t].task ELSE @,
                    !.correction = IF call[t].op = "approve" /\ call[t].fix
                                   THEN "approve" ELSE @],
            "annotate_put")
    /\ UNCHANGED <<stores, call, ev, answered, bounds>>

\* annotate, second half (_save_payload): UPDATE ... WHERE id, no other guard.
AnnotatePut(t) ==
    /\ At(t, "annotate_put")
    /\ row' = [row EXCEPT ![D(t)] = rec[t]]
    /\ Answer(t, ev[t])
    /\ UNCHANGED <<learning, thresholds, lock, tasks, moved, bounds>>

-----------------------------------------------------------------------------
(* reject_decision after the transition. *)

\* A correction is annotated whatever the decision's status turned out to be.
CorrectGet(t) ==
    /\ At(t, "correct_get")
    /\ Hold(t, [row[D(t)] EXCEPT !.correction = "reject"], "correct_put")
    /\ UNCHANGED <<stores, call, ev, answered, bounds>>

CorrectPut(t) ==
    /\ At(t, "correct_put")
    /\ row' = [row EXCEPT ![D(t)] = rec[t]]
    /\ \/ /\ rec[t].status = "rejected"
          /\ Goto(t, "reject_check")
          /\ UNCHANGED <<call, rec, ev, answered>>
       \/ /\ rec[t].status # "rejected"
          /\ Answer(t, None)
    /\ UNCHANGED <<learning, thresholds, lock, tasks, moved, bounds>>

\* record_rejected_decision: the event on record, else an insert.
RejectCheck(t) ==
    /\ At(t, "reject_check")
    /\ ev' = [ev EXCEPT ![t] = learning[D(t)]]
    /\ Goto(t, IF learning[D(t)] = None THEN "reject_insert" ELSE "annotate_get")
    /\ UNCHANGED <<stores, call, rec, answered, bounds>>

Rejection == [kind |-> "rejected", prev |-> 0, upd |-> 0]

RejectInsert(t) ==
    LET stored == IF learning[D(t)] # None THEN learning[D(t)] ELSE Rejection
    IN  /\ At(t, "reject_insert")
        /\ learning' = [learning EXCEPT ![D(t)] = stored]
        /\ ev' = [ev EXCEPT ![t] = stored]
        /\ Goto(t, "annotate_get")
        /\ UNCHANGED <<row, thresholds, lock, tasks, moved, call, rec, answered, bounds>>

-----------------------------------------------------------------------------
(* complete_writeback_task. *)

\* Where a completion goes once the bins, if any, are written.
AfterMove(t) == IF call[t].receipt \in Valued THEN "verify_get" ELSE "answer"

\* The next step of a completion, or its answer.
Proceed(t, step) ==
    \/ /\ step # "answer" /\ Goto(t, step) /\ UNCHANGED <<call, rec, ev, answered>>
    \/ /\ step = "answer" /\ Answer(t, None)

\* The request arrives and finds the task (404 otherwise); units that differ
\* from the approved ones are refused (409) and change nothing.
Complete(t, d, r) ==
    /\ tasks[d] # None
    /\ Begin(t, "complete", d, FALSE, r)
    /\ Goto(t, "complete")
    /\ UNCHANGED <<stores, rec, ev, answered>>

\* Mistake: a completed task takes another receipt.
CompleteTaskAgain(t) ==
    /\ At(t, "complete")
    /\ tasks' = [tasks EXCEPT ![D(t)].receipt = call[t].receipt]
    /\ Proceed(t, IF D(t) \in Relocations THEN "vacate" ELSE AfterMove(t))
    /\ UNCHANGED <<row, learning, thresholds, lock, moved, bounds>>

\* PostgresTaskWriteBackSink.complete_task, one transaction under FOR UPDATE. A
\* different receipt on a completed task is refused (409).
CompleteTask(t) ==
    /\ At(t, "complete")
    /\ \/ /\ tasks[D(t)].receipt \in {None, call[t].receipt}
          /\ tasks' = [tasks EXCEPT ![D(t)].receipt = call[t].receipt]
          /\ Proceed(t, IF D(t) \in Relocations THEN "vacate" ELSE AfterMove(t))
       \/ /\ tasks[D(t)].receipt \notin {None, call[t].receipt}
          /\ Drop(t)
          /\ UNCHANGED <<tasks, answered>>
    /\ UNCHANGED <<row, learning, thresholds, lock, moved, bounds>>

\* _record_completed_inventory_movement: two upserts, each committed alone.
Vacate(t) ==
    /\ At(t, "vacate")
    /\ moved' = [moved EXCEPT ![D(t)] = @ \cup {"source"}]
    /\ Goto(t, "fill")
    /\ UNCHANGED <<row, learning, thresholds, lock, tasks, call, rec, ev, answered, bounds>>

\* Mistake: the second of the two upserts is forgotten.
FillForgotten(t) ==
    /\ At(t, "fill")
    /\ Proceed(t, AfterMove(t))
    /\ UNCHANGED <<stores, bounds>>

Fill(t) ==
    /\ At(t, "fill")
    /\ moved' = [moved EXCEPT ![D(t)] = @ \cup {"destination"}]
    /\ Proceed(t, AfterMove(t))
    /\ UNCHANGED <<row, learning, thresholds, lock, tasks, bounds>>

\* _record_verified_value_receipt: annotate, in its two halves.
VerifyGet(t) ==
    /\ At(t, "verify_get")
    /\ Hold(t, [row[D(t)] EXCEPT !.verified = call[t].receipt], "verify_put")
    /\ UNCHANGED <<stores, call, ev, answered, bounds>>

VerifyPut(t) ==
    /\ At(t, "verify_put")
    /\ row' = [row EXCEPT ![D(t)] = rec[t]]
    /\ Answer(t, None)
    /\ UNCHANGED <<learning, thresholds, lock, tasks, moved, bounds>>

-----------------------------------------------------------------------------
\* The backend dies, or a store call raises (500): an open transaction rolls
\* back, what was committed stays.
Crash(t) ==
    /\ ~ At(t, "idle") /\ crashes < MaxCrashes
    /\ crashes' = crashes + 1
    /\ lock' = [m \in Metrics |-> IF lock[m] = t THEN None ELSE lock[m]]
    /\ Drop(t)
    /\ UNCHANGED <<row, learning, thresholds, tasks, moved, answered, calls>>

Serve(t) ==
    \/ Upsert(t) \/ TransitionGet(t) \/ TransitionPut(t) \/ Reread(t)
    \/ LearnCheck(t) \/ LearnLock(t) \/ LearnCommit(t)
    \/ FileGet(t) \/ FilePut(t) \/ AnnotateGet(t) \/ AnnotatePut(t)
    \/ CorrectGet(t) \/ CorrectPut(t) \/ RejectCheck(t) \/ RejectInsert(t)
    \/ CompleteTask(t) \/ Vacate(t) \/ Fill(t) \/ VerifyGet(t) \/ VerifyPut(t)

Arrive(t) ==
    \E d \in Decisions :
        \/ \E c \in Contents, s \in Status : <<d, c, s>> \in Proposals /\ Propose(t, d, c, s)
        \/ \E op \in {"approve", "reject"}, fix \in BOOLEAN : Review(t, op, d, fix)
        \/ \E r \in Receipts : Complete(t, d, r)

Next == \E t \in Threads : Arrive(t) \/ Serve(t) \/ Crash(t)

Spec == Init /\ [][Next]_vars

\* A request handler is a running thread: it takes its next step unless it
\* waits for a lock.
FairSpec == Spec /\ \A t \in Threads : WF_vars(Serve(t))

-----------------------------------------------------------------------------
(* Properties. *)

\* Every table and every local of a request holds what its code can store.
TypeOK ==
    /\ row \in [Decisions -> Payload \cup {None}]
    /\ learning \in [Decisions -> Event \cup {None}]
    /\ thresholds \in [Metrics -> Nat \cup {None}]
    /\ lock \in [Metrics -> Threads \cup {None}]
    /\ tasks \in [Decisions -> Task \cup {None}]
    /\ moved \in [Decisions -> SUBSET Bins]
    /\ pc \in [Threads -> Steps] /\ call \in [Threads -> Call]
    /\ rec \in [Threads -> Payload \cup {None}]
    /\ ev \in [Threads -> Event \cup {None}]
    /\ answered \subseteq [call: Call, event: Event \cup {None}]
    /\ calls \in 0..MaxCalls /\ crashes \in 0..MaxCrashes

\* The detailed requests implement the approval loop: however upserts, clicks,
\* whole-payload annotations and completions interleave, a decision settles
\* once, on one content, is learned as what it is, and only an approved one has
\* a task, for the content approved (shelfwise_action/store.py, app.py 2190-2280).
Contract == INSTANCE ApprovalLoop WITH
    decision <- [d \in Decisions |-> IF row[d] = None THEN None
                 ELSE [status |-> row[d].status, content |-> row[d].content]],
    learned  <- [d \in Decisions |-> IF learning[d] = None THEN None
                                     ELSE learning[d].kind],
    task     <- tasks
ApprovalContract == Contract!Spec

\* A task is filed only for an approved decision and does what was approved, and
\* the learning store remembers a decision by its final status: neither the
\* stale payload of a slow approval nor a re-run of the cascade can separate the
\* three tables.
ConsequencesMatch ==
    \A d \in Decisions :
        /\ tasks[d] # None => /\ row[d] # None /\ row[d].status = "approved"
                              /\ tasks[d].action = row[d].content
        /\ learning[d] # None => row[d] # None /\ learning[d].kind = row[d].status

\* A threshold is the largest one on record among its approved outcomes: racing
\* approvals never lower it (greatest in the upsert), the loser of a double
\* approval leaves no trace in it, and a rejection does not move it.
ThresholdIsLargest ==
    \A m \in Metrics :
        LET recorded == {learning[d].upd : d \in {x \in Decisions :
                            /\ MetricOf[x] = m
                            /\ learning[x] # None /\ learning[x].kind = "approved"}}
        IN  IF recorded = {} THEN thresholds[m] = None
            ELSE /\ thresholds[m] \in recorded
                 /\ \A u \in recorded : u <= thresholds[m]

\* What a 200 answer reports stays true: every approval of a decision reports
\* the one learning event on record and leaves a task for what was approved,
\* every rejection the event of a rejection, and an answered completion has its
\* receipt on the task and, for a relocation, both positions written.
AnswersSound ==
    \A a \in answered :
        LET d == a.call.d
        IN  /\ a.event # None => a.event = learning[d]
            /\ a.call.op = "approve" /\ a.event # None =>
                 /\ learning[d].kind = "approved" /\ tasks[d] # None
            /\ a.call.op = "approve" /\ a.event = None => row[d].status = "rejected"
            /\ a.call.op = "reject" => row[d].status \in Terminal
            /\ a.call.op = "complete" =>
                 /\ tasks[d].receipt = a.call.receipt
                 /\ d \in Relocations => moved[d] = Bins

\* Every annotation on a decision repeats what the other stores hold: its
\* learning event, the action of its task, the receipt its task was completed
\* with (app.py 1944-1981, 2210-2230), whatever copies requests still hold.
AnnotationsTrue ==
    \A d \in Decisions : row[d] # None =>
        /\ row[d].event # None => row[d].event = learning[d]
        /\ row[d].task # None => tasks[d] # None /\ tasks[d].action = row[d].task
        /\ row[d].verified # None => tasks[d] # None /\ tasks[d].receipt = row[d].verified

\* What a request is told of a decision, and what is noted on it, is true of it.
AnswersAndNotesTrue == AnswersSound /\ AnnotationsTrue

\* The row locks of the learning store are always given back: every request is
\* answered, refused or cut short in the end.
EveryRequestEnds == \A t \in Threads : ~ At(t, "idle") ~> At(t, "idle")

\* DecisionCorrectionBody's promise: a correction sent with an answered approval
\* (or rejection) is on the decision.
CorrectionPersists ==
    \A a \in answered : a.call.fix /\ a.event # None => row[a.call.d].correction # None
=============================================================================
