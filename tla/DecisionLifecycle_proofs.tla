---------------------- MODULE DecisionLifecycle_proofs ----------------------
(***************************************************************************)
(* Proofs about the approval loop, for any number of decisions, requests,   *)
(* crashes and repeated calls. The difficulty is that a request works on a  *)
(* payload it read some steps ago and writes back whole: the invariant says *)
(* which copies can still be written, and that those are never wrong about  *)
(* what the other stores hold by then.                                      *)
(*                                                                          *)
(* The last section is about the shakedown, which has a deployed stack open *)
(* decisions and resolve them, and gives a verdict on its answers.          *)
(***************************************************************************)
EXTENDS DecisionLifecycle, Integers, FiniteSets, Functions, SequenceTheorems,
        FiniteSetTheorems, TLAPS

\* What payload p says of decision d's event, task and outcome is so.
TrueNotes(d, p) ==
    /\ p.event # None => p.event = learning[d]
    /\ p.task # None => tasks[d] # None /\ tasks[d].action = p.task
    /\ p.verified # None => tasks[d] # None /\ tasks[d].receipt = p.verified

\* A copy of a settled decision that may be written back at any time.
Current(d, p) ==
    /\ p \in Payload /\ Settled(d)
    /\ p.status = row[d].status /\ p.content = row[d].content
    /\ TrueNotes(d, p)

\* A payload nobody has annotated.
Clean(p) == p \in Payload /\ p.event = None /\ p.task = None /\ p.verified = None

Learning == {"learn_check", "learn_lock", "learn_commit", "file_get", "file_put"}

\* What a request may rely on between two of its steps.
Deciding(t) ==
    /\ At(t, "upsert") => call[t].op = "cascade" /\ Clean(rec[t])
    /\ pc[t] \in {"transition_get", "transition_put", "reread"}
         => call[t].op \in {"approve", "reject"} /\ row[D(t)] # None
    /\ At(t, "transition_put") => Clean(rec[t]) /\ rec[t].status = Verdict(call[t].op)
    /\ At(t, "reread") => Settled(D(t))
Approving(t) ==
    /\ pc[t] \in Learning => /\ call[t].op = "approve" /\ Current(D(t), rec[t])
                             /\ rec[t].status = "approved"
    /\ At(t, "learn_commit") => ev[t] \in Event /\ ev[t].kind = "approved"
    /\ pc[t] \in {"file_get", "file_put"} => ev[t] # None /\ ev[t] = learning[D(t)]
Rejecting(t) ==
    /\ pc[t] \in {"correct_get", "correct_put", "reject_check", "reject_insert"}
         => call[t].op = "reject" /\ Settled(D(t))
    /\ pc[t] \in {"reject_check", "reject_insert"} => row[D(t)].status = "rejected"
Annotating(t) ==
    /\ pc[t] \in {"annotate_get", "annotate_put"}
         => /\ Settled(D(t)) /\ call[t].op \in {"approve", "reject"}
            /\ ev[t] # None /\ ev[t] = learning[D(t)]
            /\ call[t].op = "approve" => tasks[D(t)] # None
    /\ At(t, "annotate_get") /\ call[t].op = "approve"
         => rec[t] \in Payload /\ rec[t].task # None /\ tasks[D(t)].action = rec[t].task
    /\ pc[t] \in {"annotate_put", "correct_put", "verify_put"} => Current(D(t), rec[t])
Completing(t) ==
    /\ pc[t] \in {"complete", "vacate", "fill", "verify_get", "verify_put"}
         => call[t].op = "complete" /\ call[t].receipt \in Receipts /\ tasks[D(t)] # None
    /\ pc[t] \in {"vacate", "fill", "verify_get", "verify_put"}
         => tasks[D(t)].receipt = call[t].receipt
    /\ pc[t] \in {"vacate", "fill"} => D(t) \in Relocations
    /\ At(t, "fill") => "source" \in moved[D(t)]
    /\ pc[t] \in {"verify_get", "verify_put"} /\ D(t) \in Relocations => moved[D(t)] = Bins

\* The event an approval is about to commit was computed from the threshold it
\* still holds the lock of, or from no threshold at all.
Computed(t) == At(t, "learn_commit") =>
    LET m == MetricOf[D(t)] IN
        IF lock[m] = t THEN /\ thresholds[m] # None
                            /\ ev[t].upd = Larger(thresholds[m], Measured[rec[t].content])
                       ELSE ev[t].upd = Measured[rec[t].content]

Backed(t) == /\ Deciding(t) /\ Approving(t) /\ Rejecting(t) /\ Annotating(t)
             /\ Completing(t) /\ Computed(t)

\* A decision nobody settled carries no annotation.
PendingIsClean == \A d \in Decisions : Pending(d) => Clean(row[d])

\* A threshold covers every outcome that was approved, as measured and as learned.
ThresholdCovers ==
    \A d \in Decisions : learning[d] # None /\ learning[d].kind = "approved" =>
        /\ thresholds[MetricOf[d]] # None
        /\ Measured[row[d].content] <= thresholds[MetricOf[d]]
        /\ learning[d].upd <= thresholds[MetricOf[d]]

\* A threshold was learned from some approved outcome.
ThresholdIsLearned ==
    \A m \in Metrics : thresholds[m] # None =>
        \E d \in Decisions : /\ MetricOf[d] = m /\ learning[d] # None
                             /\ learning[d].kind = "approved"
                             /\ learning[d].upd = thresholds[m]

\* What an answer told, with the rows it speaks of present.
Told(a) ==
    LET d == a.call.d
    IN  /\ a.event # None => a.event = learning[d]
        /\ a.call.op = "approve" /\ a.event # None =>
             learning[d].kind = "approved" /\ tasks[d] # None
        /\ a.call.op = "approve" /\ a.event = None => row[d] # None /\ row[d].status = "rejected"
        /\ a.call.op = "reject" => Settled(d)
        /\ a.call.op = "complete" =>
             /\ a.call.receipt # None /\ tasks[d] # None
             /\ tasks[d].receipt = a.call.receipt
             /\ d \in Relocations => moved[d] = Bins

\* The inductive invariant.
LifecycleInv ==
    /\ TypeOK
    /\ \A t \in Threads : Backed(t)
    /\ PendingIsClean /\ AnnotationsTrue /\ ConsequencesMatch
    /\ ThresholdCovers /\ ThresholdIsLearned
    /\ \A a \in answered : Told(a)

\* The part of it that speaks of the stores alone.
StoresAgree == PendingIsClean /\ AnnotationsTrue /\ ConsequencesMatch
LearningAgrees == ThresholdCovers /\ ThresholdIsLearned

\* What no step takes back: a verdict and its content, a learning event, a
\* task's action and receipt, a written position.
Grows == \A d \in Decisions :
    /\ row[d] # None => row'[d] # None
    /\ Settled(d) => row'[d].status = row[d].status /\ row'[d].content = row[d].content
    /\ learning[d] # None => learning'[d] = learning[d]
    /\ tasks[d] # None => /\ tasks'[d] # None /\ tasks'[d].action = tasks[d].action
                          /\ tasks[d].receipt # None => tasks'[d].receipt = tasks[d].receipt
    /\ moved[d] \subseteq moved'[d]

\* A request that the step is not about.
Same(u) == pc'[u] = pc[u] /\ call'[u] = call[u] /\ rec'[u] = rec[u] /\ ev'[u] = ev[u]

-----------------------------------------------------------------------------
(* Payloads. *)

\* A decision's first payload (upsert with no row).
LEMMA FreshPayload ==
    ASSUME NEW c \in Contents, NEW s \in Status
    PROVE  Clean(Fresh(c, s)) /\ Fresh(c, s).status = s
  BY LifecycleAssumption DEF Clean, Fresh, Payload

\* What a revision and a verdict leave of a payload.
LEMMA RevisedPayload ==
    ASSUME NEW p, Clean(p), NEW c \in Contents, NEW s \in Status
    PROVE  /\ Clean([p EXCEPT !.content = c, !.status = s])
           /\ Clean([p EXCEPT !.status = s])
           /\ [p EXCEPT !.status = s].status = s
  BY DEF Clean, Payload

-----------------------------------------------------------------------------
(* Writes to the stores. *)

\* A payload is written over an open decision while it carries no annotation, or
\* over a settled one it is a current copy of: either way nothing is taken back
\* and the tables still agree (upsert, _transition, annotate).
LEMMA RowWrite ==
    ASSUME TypeOK, StoresAgree, LearningAgrees, NEW d \in Decisions, NEW p \in Payload,
           (~ Settled(d) /\ Clean(p)) \/ Current(d, p),
           row' = [row EXCEPT ![d] = p], UNCHANGED <<learning, tasks, moved>>
    PROVE  /\ row' \in [Decisions -> Payload \cup {None}]
           /\ Grows /\ StoresAgree'
           /\ \A x \in Decisions : learning[x] # None => row'[x].content = row[x].content
  <1> USE LifecycleAssumption
  <1>1. row' \in [Decisions -> Payload \cup {None}] /\ p # None
    BY DEF TypeOK
  <1>2. row'[d] = p /\ \A x \in Decisions : x # d => row'[x] = row[x]
    BY DEF TypeOK
  <1>3. \A x \in Decisions : row[x] # None => row[x].status \in Status
    BY DEF TypeOK, Payload
  <1>4. \A x \in Decisions : learning[x] # None \/ tasks[x] # None => Settled(x)
    <2> SUFFICES ASSUME NEW x \in Decisions, learning[x] # None \/ tasks[x] # None
                 PROVE  Settled(x)
      OBVIOUS
    <2>1. CASE learning[x] # None
      <3>1. row[x] # None /\ learning[x].kind = row[x].status
        BY <2>1 DEF StoresAgree, ConsequencesMatch
      <3>2. learning[x].kind \in Terminal
        BY <2>1 DEF TypeOK, Event
      <3> QED
        BY <3>1, <3>2 DEF Settled
    <2>2. CASE tasks[x] # None
      BY <2>2 DEF StoresAgree, ConsequencesMatch, Settled, Terminal
    <2> QED
      BY <2>1, <2>2
  <1>5. Settled(d) => p.status = row[d].status /\ p.content = row[d].content /\ TrueNotes(d, p)
    BY DEF Current
  <1>6. Grows
    BY <1>1, <1>2, <1>5 DEF Grows
  <1>7. PendingIsClean'
    <2> SUFFICES ASSUME NEW x \in Decisions, Pending(x)' PROVE Clean(row'[x])
      BY DEF PendingIsClean, Clean
    <2>1. CASE x # d
      <3>1. Pending(x)
        BY <1>2, <2>1 DEF Pending
      <3> QED
        BY <1>2, <2>1, <3>1 DEF StoresAgree, PendingIsClean
    <2>2. CASE x = d
      <3>1. p.status = "pending"
        BY <1>2, <2>2 DEF Pending
      <3>2. ~ Current(d, p)
        BY <3>1 DEF Current, Settled, Terminal
      <3> QED
        BY <3>2, <1>2, <2>2
    <2> QED
      BY <2>1, <2>2
  <1>8. AnnotationsTrue'
    <2> SUFFICES ASSUME NEW x \in Decisions, row'[x] # None PROVE TrueNotes(x, row'[x])
      BY DEF AnnotationsTrue, TrueNotes
    <2>1. CASE x # d
      BY <1>2, <2>1 DEF StoresAgree, AnnotationsTrue, TrueNotes
    <2>2. CASE x = d
      BY <1>2, <1>5, <2>2 DEF Clean, Current, TrueNotes
    <2> QED
      BY <2>1, <2>2
  <1>9. ConsequencesMatch'
    <2> SUFFICES ASSUME NEW x \in Decisions
                 PROVE  /\ tasks[x] # None => /\ row'[x] # None /\ row'[x].status = "approved"
                                              /\ tasks[x].action = row'[x].content
                        /\ learning[x] # None => row'[x] # None /\ learning[x].kind = row'[x].status
      BY DEF ConsequencesMatch
    <2> QED
      BY <1>4, <1>6 DEF StoresAgree, ConsequencesMatch, Grows
  <1>10. \A x \in Decisions : learning[x] # None => row'[x].content = row[x].content
    BY <1>4, <1>6 DEF Grows
  <1> QED
    BY <1>1, <1>6, <1>7, <1>8, <1>9, <1>10 DEF StoresAgree

\* Filing the task of an approved decision (create_task).
LEMMA TaskWrite ==
    ASSUME TypeOK, StoresAgree, NEW d \in Decisions, NEW r \in Receipts \cup {None},
           NEW c \in Contents, row[d] # None, row[d].status = "approved", row[d].content = c,
           tasks[d] # None => tasks[d].action = c /\ tasks[d].receipt \in {None, r},
           tasks' = [tasks EXCEPT ![d] = [action |-> c, receipt |-> r]],
           UNCHANGED <<row, learning, moved>>
    PROVE  /\ tasks' \in [Decisions -> Task \cup {None}]
           /\ Grows /\ StoresAgree'
  <1> USE LifecycleAssumption
  <1>1. [action |-> c, receipt |-> r] \in Task /\ [action |-> c, receipt |-> r] # None
    BY DEF Task
  <1>2. tasks' \in [Decisions -> Task \cup {None}]
    BY <1>1 DEF TypeOK
  <1>3. /\ tasks'[d] # None /\ tasks'[d].action = c /\ tasks'[d].receipt = r
        /\ \A x \in Decisions : x # d => tasks'[x] = tasks[x]
    BY <1>1 DEF TypeOK
  <1>4. Grows
    BY <1>3 DEF Grows
  <1>5. PendingIsClean'
    BY DEF StoresAgree, PendingIsClean, Pending, Clean
  <1>6. AnnotationsTrue'
    <2> SUFFICES ASSUME NEW x \in Decisions, row[x] # None PROVE TrueNotes(x, row[x])'
      BY DEF AnnotationsTrue, TrueNotes
    <2>1. TrueNotes(x, row[x])
      BY DEF StoresAgree, AnnotationsTrue, TrueNotes
    <2> QED
      BY <1>4, <2>1 DEF TrueNotes, Grows
  <1>7. ConsequencesMatch'
    BY <1>3 DEF StoresAgree, ConsequencesMatch
  <1> QED
    BY <1>2, <1>4, <1>5, <1>6, <1>7 DEF StoresAgree

\* The learning store takes the first event of a settled decision, of its kind.
LEMMA EventWrite ==
    ASSUME TypeOK, StoresAgree, NEW d \in Decisions, NEW e \in Event, Settled(d),
           learning[d] # None => e = learning[d], e.kind = row[d].status,
           learning' = [learning EXCEPT ![d] = e],
           UNCHANGED <<row, tasks, moved>>
    PROVE  /\ learning' \in [Decisions -> Event \cup {None}] /\ learning'[d] = e
           /\ Grows /\ StoresAgree'
  <1> USE LifecycleAssumption
  <1>1. learning' \in [Decisions -> Event \cup {None}] /\ e # None
    BY DEF TypeOK
  <1>2. learning'[d] = e /\ \A x \in Decisions : x # d => learning'[x] = learning[x]
    BY DEF TypeOK
  <1>3. Grows
    BY <1>2 DEF Grows
  <1>4. PendingIsClean'
    BY DEF StoresAgree, PendingIsClean, Pending, Clean
  <1>5. AnnotationsTrue'
    <2> SUFFICES ASSUME NEW x \in Decisions, row[x] # None PROVE TrueNotes(x, row[x])'
      BY DEF AnnotationsTrue, TrueNotes
    <2>1. TrueNotes(x, row[x])
      BY DEF StoresAgree, AnnotationsTrue, TrueNotes
    <2> QED
      BY <1>3, <2>1 DEF TrueNotes, Grows
  <1>6. ConsequencesMatch'
    BY <1>2 DEF StoresAgree, ConsequencesMatch, Settled
  <1> QED
    BY <1>1, <1>2, <1>3, <1>4, <1>5, <1>6 DEF StoresAgree

\* Where the four tables stay as they are, so does what is said of them.
LEMMA StoresKept ==
    ASSUME StoresAgree, LearningAgrees, UNCHANGED <<row, learning, thresholds, tasks>>
    PROVE  StoresAgree' /\ LearningAgrees'
  <1>1. StoresAgree'
    BY DEF StoresAgree, PendingIsClean, Pending, Clean, AnnotationsTrue, ConsequencesMatch
  <1>2. LearningAgrees'
    BY DEF LearningAgrees, ThresholdCovers, ThresholdIsLearned
  <1> QED
    BY <1>1, <1>2

\* A verdict written on the row moves no threshold.
LEMMA LearningKept ==
    ASSUME LearningAgrees, UNCHANGED <<learning, thresholds>>,
           \A x \in Decisions : learning[x] # None => row'[x].content = row[x].content
    PROVE  LearningAgrees'
  BY DEF LearningAgrees, ThresholdCovers, ThresholdIsLearned

\* A rejection is learned without touching a threshold.
LEMMA RejectionKept ==
    ASSUME LearningAgrees, TypeOK, NEW d \in Decisions, NEW e \in Event,
           learning[d] # None => e = learning[d], e.kind = "rejected",
           learning' = [learning EXCEPT ![d] = e], UNCHANGED <<row, thresholds>>
    PROVE  LearningAgrees'
  <1>1. learning'[d] = e /\ \A x \in Decisions : x # d => learning'[x] = learning[x]
    BY DEF TypeOK
  <1>2. ThresholdCovers'
    BY <1>1 DEF LearningAgrees, ThresholdCovers
  <1>3. ThresholdIsLearned'
    BY <1>1 DEF LearningAgrees, ThresholdIsLearned
  <1> QED
    BY <1>2, <1>3 DEF LearningAgrees

\* The commit of an approval raises the threshold to the greater of the one in
\* the table and its own, and records the event with that value (the greatest(...)
\* upsert); an event already there is worth no more than the threshold.
LEMMA ApprovalLearned ==
    ASSUME LearningAgrees, StoresAgree, TypeOK, NEW d \in Decisions, NEW e \in Event,
           NEW final \in Nat, row[d] # None, row[d].status = "approved",
           row[d].content \in Contents,
           thresholds[MetricOf[d]] # None => final >= thresholds[MetricOf[d]],
           final >= Measured[row[d].content],
           learning[d] # None => e = learning[d] /\ final = thresholds[MetricOf[d]],
           learning[d] = None => e.upd = final,
           e.kind = "approved",
           learning' = [learning EXCEPT ![d] = e],
           thresholds' = [thresholds EXCEPT ![MetricOf[d]] = final], UNCHANGED row
    PROVE  LearningAgrees' /\ thresholds' \in [Metrics -> Nat \cup {None}]
  <1> USE LifecycleAssumption
  <1> DEFINE m == MetricOf[d]
  <1>0. m \in Metrics
    OBVIOUS
  <1>1. learning'[d] = e /\ \A x \in Decisions : x # d => learning'[x] = learning[x]
    BY DEF TypeOK
  <1>2. /\ thresholds'[m] = final /\ \A x \in Metrics : x # m => thresholds'[x] = thresholds[x]
        /\ thresholds' \in [Metrics -> Nat \cup {None}]
    BY <1>0 DEF TypeOK
  <1>3. ThresholdCovers'
    <2> SUFFICES ASSUME NEW x \in Decisions, learning'[x] # None, learning'[x].kind = "approved"
                 PROVE  /\ thresholds'[MetricOf[x]] # None
                        /\ Measured[row[x].content] <= thresholds'[MetricOf[x]]
                        /\ learning'[x].upd <= thresholds'[MetricOf[x]]
      BY DEF ThresholdCovers
    <2>1. CASE learning[x] # None
      <3>1. learning'[x] = learning[x]
        BY <1>1, <2>1
      <3>2. /\ thresholds[MetricOf[x]] # None
            /\ Measured[row[x].content] <= thresholds[MetricOf[x]]
            /\ learning[x].upd <= thresholds[MetricOf[x]]
        BY <2>1, <3>1 DEF LearningAgrees, ThresholdCovers
      <3>3. CASE MetricOf[x] # m
        BY <1>2, <3>1, <3>2, <3>3
      <3>4. CASE MetricOf[x] = m
        <4>1. thresholds[m] \in Nat /\ thresholds[m] <= final
          BY <1>0, <3>2, <3>4 DEF TypeOK
        <4>2. row[x].content \in Contents /\ learning[x].upd \in Nat
          BY <2>1 DEF TypeOK, Payload, Event, StoresAgree, ConsequencesMatch
        <4>3. Measured[row[x].content] \in Nat
          BY <4>2
        <4> QED
          BY <1>2, <3>1, <3>2, <3>4, <4>1, <4>2, <4>3
      <3> QED
        BY <3>3, <3>4
    <2>2. CASE learning[x] = None
      <3>1. x = d
        BY <1>1, <2>2
      <3> QED
        BY <1>1, <1>2, <2>2, <3>1
    <2> QED
      BY <2>1, <2>2
  <1>4. ThresholdIsLearned'
    <2> SUFFICES ASSUME NEW k \in Metrics, thresholds'[k] # None
                 PROVE  \E x \in Decisions : /\ MetricOf[x] = k /\ learning'[x] # None
                                             /\ learning'[x].kind = "approved"
                                             /\ learning'[x].upd = thresholds'[k]
      BY DEF ThresholdIsLearned
    <2>1. CASE k # m \/ learning[d] # None
      <3>1. thresholds'[k] = thresholds[k]
        BY <1>2, <2>1
      <3>2. PICK x \in Decisions : /\ MetricOf[x] = k /\ learning[x] # None
                                   /\ learning[x].kind = "approved"
                                   /\ learning[x].upd = thresholds[k]
        BY <3>1 DEF LearningAgrees, ThresholdIsLearned
      <3>3. learning'[x] = learning[x]
        BY <1>1, <3>2
      <3> QED
        BY <3>1, <3>2, <3>3
    <2>2. CASE k = m /\ learning[d] = None
      BY <1>1, <1>2, <2>2
    <2> QED
      BY <2>1, <2>2
  <1> QED
    BY <1>2, <1>3, <1>4 DEF LearningAgrees

-----------------------------------------------------------------------------
(* What a step leaves to the other requests. *)

\* A settled decision stays settled, with its verdict.
LEMMA SettledKept ==
    ASSUME Grows, NEW d \in Decisions, Settled(d)
    PROVE  Settled(d)' /\ row'[d].status = row[d].status
  BY DEF Grows, Settled

\* Whatever another request commits, a request may rely on what it relied on.
LEMMA OthersKept ==
    ASSUME LifecycleInv, Grows, moved' \in [Decisions -> SUBSET Bins],
           NEW u \in Threads, Same(u), Computed(u)'
    PROVE  Backed(u)'
  <1>1. D(u) \in Decisions /\ D(u)' = D(u)
    BY DEF LifecycleInv, TypeOK, Call, D, Same
  <1>2. Backed(u)
    BY DEF LifecycleInv
  <1>3. Settled(D(u)) => Settled(D(u))' /\ (row[D(u)].status)' = row[D(u)].status
    BY <1>1, SettledKept DEF Settled
  <1>4. Current(D(u), rec[u]) => Current(D(u), rec[u])'
    <2> SUFFICES ASSUME Current(D(u), rec[u]) PROVE Current(D(u), rec[u])'
      OBVIOUS
    <2> QED
      BY <1>1 DEF Grows, Current, Settled, TrueNotes, Same
  <1>5. Clean(rec[u]) => Clean(rec[u])'
    BY DEF Same, Clean
  <1>6. Deciding(u)'
    BY <1>1, <1>2, <1>3, <1>5 DEF Backed, Deciding, At, Same, Grows
  <1>7. Approving(u)'
    BY <1>1, <1>2, <1>4 DEF Backed, Approving, At, Same, Grows
  <1>8. Rejecting(u)'
    BY <1>1, <1>2, <1>3 DEF Backed, Rejecting, Same
  <1>9. Annotating(u)'
    BY <1>1, <1>2, <1>3, <1>4 DEF Backed, Annotating, At, Same, Grows
  <1>10. Completing(u)'
    <2>1. call[u].receipt \in Receipts => call[u].receipt # None
      BY LifecycleAssumption
    <2>2. moved[D(u)] \subseteq (moved[D(u)])' /\ (moved[D(u)])' \subseteq Bins
      BY <1>1 DEF Grows
    <2>3. tasks[D(u)] # None => /\ (tasks[D(u)])' # None
                                /\ tasks[D(u)].receipt # None => (tasks[D(u)].receipt)' = tasks[D(u)].receipt
      BY <1>1 DEF Grows
    <2>4. moved[D(u)] = Bins => (moved[D(u)])' = Bins
      BY <2>2
    <2> QED
      BY <1>1, <1>2, <2>1, <2>2, <2>3, <2>4 DEF Backed, Completing, At, Same
  <1> QED
    BY <1>6, <1>7, <1>8, <1>9, <1>10 DEF Backed

\* Without a step of the learning store, a computed event stays what it is.
LEMMA ComputedKept ==
    ASSUME NEW u \in Threads, Computed(u), Same(u), UNCHANGED <<thresholds, lock>>
    PROVE  Computed(u)'
  BY DEF Computed, At, D, Same, Larger

\* What was answered stays true.
LEMMA ToldKept ==
    ASSUME TypeOK, Grows, moved' \in [Decisions -> SUBSET Bins],
           NEW a \in answered, Told(a)
    PROVE  Told(a)'
  <1>1. a.call.d \in Decisions /\ a \in [call: Call, event: Event \cup {None}]
    BY DEF TypeOK, Call
  <1> DEFINE d == a.call.d
  <1>4. moved[d] = Bins => moved'[d] = Bins
    BY <1>1 DEF Grows
  <1>5. Settled(d) => Settled(d)' /\ row'[d].status = row[d].status
    BY <1>1, SettledKept
  <1>6. row[d] # None /\ row[d].status = "rejected" => row'[d] # None /\ row'[d].status = "rejected"
    BY <1>5 DEF Settled, Terminal
  <1> QED
    BY <1>1, <1>4, <1>5, <1>6 DEF Told, Grows

-----------------------------------------------------------------------------
(* A step of one request. *)

\* The types of the stores, of the requests and of what is counted.
StoresOK ==
    /\ row \in [Decisions -> Payload \cup {None}]
    /\ learning \in [Decisions -> Event \cup {None}]
    /\ thresholds \in [Metrics -> Nat \cup {None}]
    /\ lock \in [Metrics -> Threads \cup {None}]
    /\ tasks \in [Decisions -> Task \cup {None}]
    /\ moved \in [Decisions -> SUBSET Bins]
LocalsOK ==
    /\ pc \in [Threads -> Steps] /\ call \in [Threads -> Call]
    /\ rec \in [Threads -> Payload \cup {None}]
    /\ ev \in [Threads -> Event \cup {None}]
BoundsOK == calls \in 0..MaxCalls /\ crashes \in 0..MaxCrashes

\* No request but t moved.
Alone(t) == \A u \in Threads \ {t} : Same(u)

\* A step of request t keeps the invariant when it takes nothing back, leaves the
\* tables in agreement, keeps to its own locals, leaves the events others have
\* computed valid and gives no false answer.
LEMMA Compose ==
    ASSUME LifecycleInv, NEW t \in Threads, StoresOK', LocalsOK', BoundsOK',
           Grows, StoresAgree', LearningAgrees', Backed(t)', Alone(t),
           \A u \in Threads \ {t} : Computed(u)',
           NEW c \in Call, NEW e \in Event \cup {None},
           \/ answered' = answered
           \/ answered' = answered \cup {[call |-> c, event |-> e]} /\ Told([call |-> c, event |-> e])'
    PROVE  LifecycleInv'
  <1>1. \A u \in Threads : Backed(u)'
    BY OthersKept DEF StoresOK, Alone
  <1>2. \A a \in answered' : Told(a)'
    <2>1. \A a \in answered : Told(a)'
      BY ToldKept DEF LifecycleInv, StoresOK
    <2> QED
      BY <2>1
  <1>3. answered' \subseteq [call: Call, event: Event \cup {None}]
    BY DEF LifecycleInv, TypeOK
  <1>4. TypeOK'
    BY <1>3 DEF TypeOK, StoresOK, LocalsOK, BoundsOK
  <1> QED
    BY <1>1, <1>2, <1>4 DEF LifecycleInv, StoresAgree, LearningAgrees

\* The parts of the invariant.
LEMMA Parts ==
    ASSUME LifecycleInv
    PROVE  /\ TypeOK /\ StoresOK /\ LocalsOK /\ BoundsOK /\ StoresAgree /\ LearningAgrees
           /\ \A t \in Threads : Backed(t) /\ Computed(t) /\ D(t) \in Decisions /\ call[t] \in Call
  BY DEF LifecycleInv, TypeOK, StoresOK, LocalsOK, BoundsOK, StoresAgree, LearningAgrees,
         Backed, D, Call

\* A step that changes no table.
LEMMA LocalStep ==
    ASSUME LifecycleInv, NEW t \in Threads, UNCHANGED stores, LocalsOK', BoundsOK',
           Backed(t)', Alone(t),
           NEW c \in Call, NEW e \in Event \cup {None},
           \/ answered' = answered
           \/ answered' = answered \cup {[call |-> c, event |-> e]} /\ Told([call |-> c, event |-> e])'
    PROVE  LifecycleInv'
  <1>1. Grows
    BY DEF Grows, stores
  <1>2. StoresOK'
    BY Parts DEF StoresOK, stores
  <1>3. StoresAgree' /\ LearningAgrees'
    BY Parts, StoresKept DEF stores
  <1>4. \A u \in Threads \ {t} : Computed(u)'
    BY Parts, ComputedKept DEF Alone, stores
  <1> QED
    BY <1>1, <1>2, <1>3, <1>4, Compose

\* A request that is over relies on nothing.
LEMMA Drops ==
    ASSUME LocalsOK, NEW t \in Threads, Drop(t)
    PROVE  LocalsOK' /\ Alone(t) /\ Backed(t)'
  <1>1. Idle \in Call
    BY LifecycleAssumption DEF Idle, Call
  <1>2. LocalsOK' /\ Alone(t) /\ pc'[t] = "idle"
    BY <1>1 DEF LocalsOK, Alone, Same, Drop, Goto, Steps
  <1> QED
    BY <1>2 DEF Backed, Deciding, Approving, Rejecting, Annotating, Completing, Computed, At, Learning

-----------------------------------------------------------------------------
(* The steps, one by one. *)

\* A request arrives: a cascade's proposal, a review, a completion.
LEMMA ArriveStep == ASSUME LifecycleInv, NEW t \in Threads, Arrive(t) PROVE LifecycleInv'
  <1> USE LifecycleAssumption
  <1>0. LocalsOK /\ BoundsOK /\ StoresOK
    BY Parts
  <1>1. ASSUME NEW d \in Decisions, NEW c \in Contents, NEW s \in Status, Propose(t, d, c, s)
        PROVE  LifecycleInv'
    <2> DEFINE p == IF row[d] = None THEN Fresh(c, s)
                    ELSE [row[d] EXCEPT !.content = c, !.status = s]
               k == [op |-> "cascade", d |-> d, fix |-> FALSE, receipt |-> None]
    <2>1. Clean(p)
      <3>1. CASE row[d] = None
        BY <3>1, FreshPayload
      <3>2. CASE row[d] # None
        <4>1. row[d].status \in Status
          BY <1>0, <3>2 DEF StoresOK, Payload
        <4>2. Pending(d)
          BY <1>1, <3>2, <4>1 DEF Propose, Settled, Pending, Status
        <4>3. Clean(row[d])
          BY <4>2 DEF LifecycleInv, PendingIsClean
        <4> QED
          BY <3>2, <4>3, RevisedPayload
      <3> QED
        BY <3>1, <3>2
    <2>2. p \in Payload
      BY <2>1 DEF Clean
    <2> HIDE DEF p
    <2>3. k \in Call
      BY DEF Call
    <2>4. /\ call' = [call EXCEPT ![t] = k] /\ rec' = [rec EXCEPT ![t] = p]
          /\ pc' = [pc EXCEPT ![t] = "upsert"] /\ ev' = ev /\ calls < MaxCalls
          /\ calls' = calls + 1 /\ crashes' = crashes
      BY <1>1 DEF Propose, Begin, Hold, Goto, p
    <2>5. LocalsOK' /\ Alone(t) /\ call'[t] = k /\ rec'[t] = p /\ pc'[t] = "upsert"
      BY <1>0, <2>2, <2>3, <2>4 DEF LocalsOK, Alone, Same, Steps
    <2>6. BoundsOK'
      BY <1>0, <2>4 DEF BoundsOK
    <2>7. Backed(t)'
      BY <2>1, <2>5 DEF Backed, Deciding, Approving, Rejecting, Annotating, Completing,
                        Computed, At, Learning, Clean
    <2> QED
      BY <1>1, <2>3, <2>5, <2>6, <2>7, LocalStep DEF Propose
  <1>2. ASSUME NEW d \in Decisions, NEW op \in {"approve", "reject"}, NEW fix \in BOOLEAN,
               Review(t, op, d, fix)
        PROVE  LifecycleInv'
    <2> DEFINE k == [op |-> op, d |-> d, fix |-> fix, receipt |-> None]
    <2>1. k \in Call /\ k.d = d /\ k.op = op
      BY DEF Call
    <2> HIDE DEF k
    <2>2. /\ call' = [call EXCEPT ![t] = k] /\ pc' = [pc EXCEPT ![t] = "transition_get"]
          /\ UNCHANGED <<row, rec, ev, crashes>> /\ row[d] # None /\ calls < MaxCalls /\ calls' = calls + 1
      BY <1>2 DEF Review, Begin, Goto, k, stores
    <2>3. LocalsOK' /\ Alone(t) /\ call'[t] = k /\ pc'[t] = "transition_get"
      BY <1>0, <2>1, <2>2 DEF LocalsOK, Alone, Same, Steps
    <2>4. BoundsOK'
      BY <1>0, <2>2 DEF BoundsOK
    <2>5. D(t)' = d
      BY <2>1, <2>3 DEF D
    <2>6. Backed(t)'
      BY <2>1, <2>2, <2>3, <2>5 DEF Backed, Deciding, Approving, Rejecting, Annotating, Completing,
                        Computed, At, Learning
    <2> QED
      BY <1>2, <2>1, <2>3, <2>4, <2>6, LocalStep DEF Review
  <1>3. ASSUME NEW d \in Decisions, NEW r \in Receipts, Complete(t, d, r) PROVE LifecycleInv'
    <2> DEFINE k == [op |-> "complete", d |-> d, fix |-> FALSE, receipt |-> r]
    <2>1. k \in Call /\ k.d = d /\ k.op = "complete" /\ k.receipt = r
      BY DEF Call
    <2> HIDE DEF k
    <2>2. /\ call' = [call EXCEPT ![t] = k] /\ pc' = [pc EXCEPT ![t] = "complete"]
          /\ UNCHANGED <<tasks, rec, ev, crashes>> /\ tasks[d] # None /\ calls < MaxCalls /\ calls' = calls + 1
      BY <1>3 DEF Complete, Begin, Goto, k, stores
    <2>3. LocalsOK' /\ Alone(t) /\ call'[t] = k /\ pc'[t] = "complete"
      BY <1>0, <2>1, <2>2 DEF LocalsOK, Alone, Same, Steps
    <2>4. BoundsOK'
      BY <1>0, <2>2 DEF BoundsOK
    <2>5. D(t)' = d
      BY <2>1, <2>3 DEF D
    <2>6. Backed(t)'
      BY <2>1, <2>2, <2>3, <2>5 DEF Backed, Deciding, Approving, Rejecting, Annotating, Completing,
                        Computed, At, Learning
    <2> QED
      BY <1>3, <2>1, <2>3, <2>4, <2>6, LocalStep DEF Complete
  <1> QED
    BY <1>1, <1>2, <1>3 DEF Arrive

\* Where a route goes with the settled decision r the store returned, every step
\* finds what it relies on, and an answer on the spot is true.
LEMMA Continues ==
    ASSUME LocalsOK, NEW t \in Threads, NEW k \in Call, k = call[t],
           NEW r \in Payload, r.status \in Terminal, Continue(t, r),
           k.op \in {"approve", "reject"},
           Current(k.d, r)'
    PROVE  /\ LocalsOK' /\ Alone(t) /\ Backed(t)'
           /\ \/ answered' = answered
              \/ /\ answered' = answered \cup {[call |-> k, event |-> None]}
                 /\ Told([call |-> k, event |-> None])'
  <1> USE LifecycleAssumption
  <1> DEFINE s == AfterTransition(t, r)
  <1>1. /\ s = "learn_check" => k.op = "approve" /\ r.status = "approved"
        /\ s = "correct_get" => k.op = "reject"
        /\ s = "reject_check" => k.op = "reject" /\ r.status = "rejected"
        /\ s \in {"learn_check", "correct_get", "reject_check", "answer"}
        /\ s = "answer" /\ k.op = "approve" => r.status # "approved"
    BY DEF AfterTransition
  <1> HIDE DEF s
  <1>2. CASE s # "answer"
    <2>1. /\ pc' = [pc EXCEPT ![t] = s] /\ rec' = [rec EXCEPT ![t] = r]
          /\ call' = call /\ ev' = ev /\ answered' = answered
      BY <1>2 DEF Continue, Hold, Goto, Answer, s
    <2>2. s \in Steps
      BY <1>1, <1>2 DEF Steps
    <2>3. /\ LocalsOK' /\ Alone(t) /\ pc'[t] = s /\ rec'[t] = r /\ call'[t] = k
      BY <2>1, <2>2 DEF LocalsOK, Alone, Same
    <2>4. D(t)' = k.d
      BY <2>3 DEF D
    <2>5. Backed(t)'
      BY <1>1, <1>2, <2>3, <2>4 DEF Backed, Deciding, Approving, Rejecting, Annotating, Completing,
              Computed, At, Learning, Current
    <2> QED
      BY <2>1, <2>3, <2>5
  <1>3. CASE s = "answer"
    <2>1. Drop(t) /\ answered' = answered \cup {[call |-> k, event |-> None]}
      BY <1>3 DEF Continue, Answer, s
    <2>2. Told([call |-> k, event |-> None])'
      BY <1>1, <1>3 DEF Told, Current, Settled, Terminal
    <2> QED
      BY <2>1, <2>2, Drops
  <1> QED
    BY <1>2, <1>3

\* A settled row is a current copy of itself.
LEMMA RowIsCurrent ==
    ASSUME StoresOK, StoresAgree, NEW d \in Decisions, Settled(d)
    PROVE  row[d] \in Payload /\ Current(d, row[d])
  BY DEF StoresOK, StoresAgree, AnnotationsTrue, Current, Settled, TrueNotes

\* approve and reject read the decision and settle it (PostgresDecisionStore._transition).
LEMMA TransitionGetStep ==
    ASSUME LifecycleInv, NEW t \in Threads, TransitionGet(t) PROVE LifecycleInv'
  <1> USE LifecycleAssumption
  <1>0. /\ LocalsOK /\ BoundsOK /\ StoresOK /\ StoresAgree /\ LearningAgrees /\ Backed(t)
        /\ D(t) \in Decisions
    BY Parts
  <1>1. PICK k \in Call : k = call[t]
    BY Parts
  <1>2. k.op \in {"approve", "reject"} /\ k.d = D(t) /\ row[k.d] # None /\ UNCHANGED stores
    BY <1>0, <1>1 DEF TransitionGet, Backed, Deciding, At, D
  <1>3. BoundsOK'
    BY <1>0 DEF TransitionGet, bounds, BoundsOK
  <1>4. CASE Settled(k.d)
    <2>1. PICK r \in Payload : r = row[k.d]
      BY <1>0, <1>2, <1>4, RowIsCurrent
    <2>2. Current(k.d, r)'
      BY <1>0, <1>2, <1>4, <2>1, RowIsCurrent DEF stores, Current, Settled, TrueNotes
    <2>3. Continue(t, r) /\ r.status \in Terminal
      BY <1>2, <1>4, <2>1 DEF TransitionGet, Settled
    <2> QED
      BY <1>0, <1>1, <1>2, <1>3, <2>2, <2>3, Continues, LocalStep
  <1>5. CASE ~ Settled(k.d)
    <2> DEFINE p == [row[k.d] EXCEPT !.status = Verdict(k.op)]
    <2>1. Clean(row[k.d])
      BY <1>0, <1>2, <1>5 DEF StoresOK, Payload, Status, Settled, Pending, StoresAgree, PendingIsClean
    <2>2. Verdict(k.op) \in Status
      BY DEF Verdict, Status, Terminal
    <2>3. Clean(p) /\ p.status = Verdict(k.op)
      <3>1. k.d \in Decisions
        BY <1>0, <1>2
      <3>2. row[k.d].content \in Contents
        BY <1>0, <1>2, <3>1 DEF StoresOK, Payload
      <3> QED
        BY <2>1, <2>2, <3>2, RevisedPayload
    <2>4. /\ pc' = [pc EXCEPT ![t] = "transition_put"] /\ rec' = [rec EXCEPT ![t] = p]
          /\ call' = call /\ ev' = ev /\ answered' = answered
      BY <1>1, <1>2, <1>5 DEF TransitionGet, Hold, Goto
    <2> HIDE DEF p
    <2>5. LocalsOK' /\ Alone(t) /\ pc'[t] = "transition_put" /\ rec'[t] = p /\ call'[t] = k
      BY <1>0, <1>1, <2>3, <2>4 DEF LocalsOK, Alone, Same, Steps, Clean
    <2>6. Backed(t)'
      BY <1>2, <2>3, <2>5 DEF Backed, Deciding, Approving, Rejecting, Annotating, Completing,
              Computed, At, Learning, Clean, D, stores
    <2> QED
      BY <1>2, <1>3, <2>4, <2>5, <2>6, LocalStep
  <1> QED
    BY <1>4, <1>5

\* The transition is written if the row is still pending; else the row is read again.
LEMMA TransitionPutStep ==
    ASSUME LifecycleInv, NEW t \in Threads, TransitionPut(t) PROVE LifecycleInv'
  <1> USE LifecycleAssumption
  <1>0. /\ TypeOK /\ LocalsOK /\ BoundsOK /\ StoresOK /\ StoresAgree /\ LearningAgrees /\ Backed(t)
        /\ D(t) \in Decisions
    BY Parts
  <1>1. PICK k \in Call : k = call[t]
    BY Parts
  <1>2. /\ k.op \in {"approve", "reject"} /\ k.d = D(t) /\ k.d \in Decisions /\ row[k.d] # None
        /\ Clean(rec[t]) /\ rec[t].status = Verdict(k.op)
        /\ UNCHANGED <<learning, thresholds, lock, tasks, moved, bounds>>
    BY <1>0, <1>1 DEF TransitionPut, Backed, Deciding, At, D
  <1>3. BoundsOK'
    BY <1>0, <1>2 DEF bounds, BoundsOK
  <1>4. CASE Pending(k.d)
    <2>1. PICK r \in Payload : r = rec[t]
      BY <1>2 DEF Clean
    <2>2. row' = [row EXCEPT ![k.d] = r] /\ Continue(t, r)
      BY <1>2, <1>4, <2>1 DEF TransitionPut
    <2>3. /\ row' \in [Decisions -> Payload \cup {None}] /\ Grows /\ StoresAgree'
          /\ \A x \in Decisions : learning[x] # None => row'[x].content = row[x].content
      <3>1. ~ Settled(k.d) /\ Clean(r)
        BY <1>2, <1>4, <2>1 DEF Pending, Settled, Terminal
      <3> QED
        BY <1>0, <1>2, <2>2, <3>1, RowWrite
    <2>4. LearningAgrees' /\ StoresOK'
      BY <1>0, <1>2, <2>3, LearningKept DEF StoresOK
    <2>5. r.status \in Terminal
      BY <1>2, <2>1 DEF Verdict, Terminal
    <2>6. Current(k.d, r)'
      <3>1. row'[k.d] = r
        BY <1>0, <1>2, <2>2 DEF StoresOK
      <3>2. r # None
        OBVIOUS
      <3> QED
        BY <1>2, <2>1, <2>5, <3>1, <3>2 DEF Current, Settled, Clean, TrueNotes
    <2>7. \A u \in Threads \ {t} : Alone(t) => Computed(u)'
      BY <1>2, Parts, ComputedKept DEF Alone
    <2> QED
      BY <1>0, <1>1, <1>2, <1>3, <2>2, <2>3, <2>4, <2>5, <2>6, <2>7, Continues, Compose
  <1>5. CASE ~ Pending(k.d)
    <2>1. /\ pc' = [pc EXCEPT ![t] = "reread"] /\ UNCHANGED <<row, call, rec, ev, answered>>
      BY <1>2, <1>5 DEF TransitionPut, Goto
    <2>2. LocalsOK' /\ Alone(t) /\ pc'[t] = "reread" /\ call'[t] = k
      BY <1>0, <1>1, <2>1 DEF LocalsOK, Alone, Same, Steps
    <2>3. Settled(k.d)
      BY <1>0, <1>2, <1>5 DEF StoresOK, Payload, Status, Settled, Pending
    <2>4. Backed(t)'
      BY <1>2, <2>1, <2>2, <2>3 DEF Backed, Deciding, Approving, Rejecting, Annotating, Completing,
              Computed, At, Learning, D, Settled
    <2>5. UNCHANGED stores
      BY <1>2, <2>1 DEF stores
    <2> QED
      BY <1>3, <2>1, <2>2, <2>4, <2>5, LocalStep
  <1> QED
    BY <1>4, <1>5

\* Another request decided first: the handler goes on with the row that is there.
LEMMA RereadStep ==
    ASSUME LifecycleInv, NEW t \in Threads, Reread(t) PROVE LifecycleInv'
  <1>0. /\ LocalsOK /\ BoundsOK /\ StoresOK /\ StoresAgree /\ Backed(t) /\ D(t) \in Decisions
    BY Parts
  <1>1. PICK k \in Call : k = call[t]
    BY Parts
  <1>2. k.op \in {"approve", "reject"} /\ k.d = D(t) /\ Settled(k.d) /\ UNCHANGED stores
    BY <1>0, <1>1 DEF Reread, Backed, Deciding, At, D
  <1>3. BoundsOK'
    BY <1>0 DEF Reread, bounds, BoundsOK
  <1>4. PICK r \in Payload : r = row[k.d]
    BY <1>0, <1>2, RowIsCurrent
  <1>5. Current(k.d, r)'
    BY <1>0, <1>2, <1>4, RowIsCurrent DEF stores, Current, Settled, TrueNotes
  <1>6. Continue(t, r) /\ r.status \in Terminal
    BY <1>2, <1>4 DEF Reread, Settled
  <1> QED
    BY <1>0, <1>1, <1>2, <1>3, <1>5, <1>6, Continues, LocalStep, LifecycleAssumption

\* A cascade's result reaches the table (the guarded upsert).
LEMMA UpsertStep ==
    ASSUME LifecycleInv, NEW t \in Threads, Upsert(t) PROVE LifecycleInv'
  <1> USE LifecycleAssumption
  <1>0. /\ TypeOK /\ LocalsOK /\ BoundsOK /\ StoresOK /\ StoresAgree /\ LearningAgrees /\ Backed(t)
        /\ D(t) \in Decisions
    BY Parts
  <1>1. PICK k \in Call : k = call[t]
    BY Parts
  <1>2. /\ k.op = "cascade" /\ Clean(rec[t]) /\ Drop(t)
        /\ answered' = answered \cup {[call |-> k, event |-> None]}
        /\ UNCHANGED <<learning, thresholds, lock, tasks, moved, bounds>>
    BY <1>0, <1>1 DEF Upsert, Answer, Backed, Deciding, At
  <1>3. BoundsOK' /\ LocalsOK' /\ Alone(t) /\ Backed(t)'
    BY <1>0, <1>2, Drops DEF bounds, BoundsOK
  <1>4. Told([call |-> k, event |-> None])'
    BY <1>2 DEF Told
  <1>5. CASE Settled(D(t))
    BY <1>2, <1>3, <1>4, <1>5, LocalStep DEF Upsert, stores
  <1>6. CASE ~ Settled(D(t))
    <2>1. PICK r \in Payload : r = rec[t]
      BY <1>2 DEF Clean
    <2>2. row' = [row EXCEPT ![D(t)] = r]
      BY <1>6, <2>1 DEF Upsert
    <2>3. /\ row' \in [Decisions -> Payload \cup {None}] /\ Grows /\ StoresAgree'
          /\ \A x \in Decisions : learning[x] # None => row'[x].content = row[x].content
      BY <1>0, <1>2, <1>6, <2>1, <2>2, RowWrite
    <2>4. LearningAgrees' /\ StoresOK'
      BY <1>0, <1>2, <2>3, LearningKept DEF StoresOK
    <2>5. \A u \in Threads \ {t} : Computed(u)'
      BY <1>2, <1>3, Parts, ComputedKept DEF Alone
    <2> QED
      BY <1>2, <1>3, <1>4, <2>3, <2>4, <2>5, Compose
  <1> QED
    BY <1>5, <1>6

\* approve reads the learning store.
LEMMA LearnCheckStep ==
    ASSUME LifecycleInv, NEW t \in Threads, LearnCheck(t) PROVE LifecycleInv'
  <1> DEFINE s == IF learning[D(t)] = None THEN "learn_lock" ELSE "file_get"
  <1>0. /\ LocalsOK /\ BoundsOK /\ StoresOK /\ Backed(t) /\ D(t) \in Decisions /\ call[t] \in Call
    BY Parts
  <1>1. /\ pc' = [pc EXCEPT ![t] = s] /\ ev' = [ev EXCEPT ![t] = learning[D(t)]]
        /\ UNCHANGED <<stores, call, rec, answered, bounds>> /\ pc[t] = "learn_check"
    BY DEF LearnCheck, Goto, At
  <1>2. s \in Steps /\ learning[D(t)] \in Event \cup {None} /\ rec[t] \in Payload \cup {None}
    BY <1>0 DEF Steps, StoresOK, LocalsOK
  <1>3. /\ LocalsOK' /\ Alone(t)
        /\ pc'[t] = s /\ rec'[t] = rec[t] /\ ev'[t] = learning[D(t)]
        /\ call'[t] = call[t] /\ D(t)' = D(t)
    BY <1>0, <1>1, <1>2 DEF LocalsOK, Alone, Same, D
  <1>4. Backed(t)'
    BY <1>0, <1>1, <1>3 DEF Backed, Deciding, Approving, Rejecting, Annotating, Completing,
            Computed, At, Learning, stores, Current, Settled, TrueNotes
  <1>5. BoundsOK' /\ UNCHANGED stores
    BY <1>0, <1>1 DEF BoundsOK, bounds, stores
  <1> QED
    BY <1>0, <1>1, <1>3, <1>4, <1>5, LocalStep, LifecycleAssumption

\* The threshold is read, under its lock when there is a row to lock.
LEMMA LearnLockStep ==
    ASSUME LifecycleInv, NEW t \in Threads, LearnLock(t) PROVE LifecycleInv'
  <1> USE LifecycleAssumption
  <1> DEFINE m == MetricOf[D(t)]
             e == Learned(rec[t].content, thresholds[m])
  <1>0. /\ TypeOK /\ LocalsOK /\ BoundsOK /\ StoresOK /\ StoresAgree /\ LearningAgrees /\ Backed(t)
        /\ D(t) \in Decisions /\ call[t] \in Call
    BY Parts
  <1>1. /\ pc[t] = "learn_lock" /\ lock[m] = None
        /\ pc' = [pc EXCEPT ![t] = "learn_commit"] /\ ev' = [ev EXCEPT ![t] = e]
        /\ lock' = IF thresholds[m] = None THEN lock ELSE [lock EXCEPT ![m] = t]
        /\ UNCHANGED <<row, learning, thresholds, tasks, moved, call, rec, answered, bounds>>
    BY DEF LearnLock, Goto, At
  <1>2. /\ m \in Metrics /\ thresholds[m] \in Nat \cup {None}
        /\ rec[t] \in Payload /\ rec[t].content \in Contents
        /\ Measured[rec[t].content] \in Nat /\ Baseline[rec[t].content] \in Nat
        /\ Baseline[rec[t].content] <= Measured[rec[t].content]
    <2>1. rec[t] \in Payload
      BY <1>0, <1>1 DEF Backed, Approving, Learning, Current
    <2>2. rec[t].content \in Contents
      BY <2>1 DEF Payload
    <2> QED
      BY <1>0, <2>1, <2>2 DEF StoresOK
  <1>3. /\ e \in Event /\ e.kind = "approved"
        /\ thresholds[m] = None => e.upd = Measured[rec[t].content]
        /\ thresholds[m] # None => e.upd = Larger(thresholds[m], Measured[rec[t].content])
    BY <1>2 DEF Learned, Event, Terminal, Larger
  <1> HIDE DEF e
  <1>4. /\ LocalsOK' /\ Alone(t) /\ pc'[t] = "learn_commit" /\ ev'[t] = e
        /\ rec'[t] = rec[t] /\ call'[t] = call[t] /\ D(t)' = D(t)
    BY <1>0, <1>1, <1>3 DEF LocalsOK, Alone, Same, Steps, D
  <1>5. Grows /\ StoresAgree' /\ LearningAgrees' /\ BoundsOK'
    BY <1>0, <1>1, StoresKept DEF Grows, bounds, BoundsOK
  <1>6. /\ StoresOK'
        /\ thresholds[m] # None => lock'[m] = t
        /\ thresholds[m] = None => lock'[m] = None
        /\ \A x \in Metrics : x # m => lock'[x] = lock[x]
    BY <1>0, <1>1, <1>2 DEF StoresOK
  <1>7. Backed(t)'
    <2>1. Computed(t)'
      BY <1>1, <1>3, <1>4, <1>6 DEF Computed, At, Larger
    <2> QED
      BY <1>0, <1>1, <1>3, <1>4, <2>1 DEF Backed, Deciding, Approving, Rejecting, Annotating,
             Completing, At, Learning, Current, Settled, TrueNotes
  <1>8. ASSUME NEW u \in Threads \ {t} PROVE Computed(u)'
    <2>1. Computed(u) /\ D(u) \in Decisions /\ D(u)' = D(u) /\ Same(u)
      BY <1>4, Parts DEF Alone, Same, D
    <2>2. MetricOf[D(u)] \in Metrics
      BY <2>1
    <2>3. lock'[MetricOf[D(u)]] = u <=> lock[MetricOf[D(u)]] = u
      BY <1>1, <1>6, <2>2
    <2> QED
      BY <1>1, <2>1, <2>3 DEF Computed, At, Same, Larger
  <1> QED
    BY <1>0, <1>1, <1>4, <1>5, <1>6, <1>7, <1>8, Compose

\* The learning transaction commits: what it wrote is the greatest threshold, and
\* the event on record is the first one.
LEMMA LearnCommitStep ==
    ASSUME LifecycleInv, NEW t \in Threads, LearnCommit(t) PROVE LifecycleInv'
  <1> USE LifecycleAssumption
  <1> DEFINE m == MetricOf[D(t)]
             final == IF thresholds[m] = None THEN ev[t].upd ELSE Larger(thresholds[m], ev[t].upd)
             stored == IF learning[D(t)] # None THEN learning[D(t)]
                                                ELSE [ev[t] EXCEPT !.upd = final]
             c == rec[t].content
  <1>0. /\ TypeOK /\ LocalsOK /\ BoundsOK /\ StoresOK /\ StoresAgree /\ LearningAgrees /\ Backed(t)
        /\ D(t) \in Decisions /\ call[t] \in Call
    BY Parts
  <1>1. /\ pc[t] = "learn_commit" /\ lock[m] \in {None, t}
        /\ thresholds' = [thresholds EXCEPT ![m] = final]
        /\ learning' = [learning EXCEPT ![D(t)] = stored]
        /\ pc' = [pc EXCEPT ![t] = "file_get"] /\ ev' = [ev EXCEPT ![t] = stored]
        /\ lock' = [lock EXCEPT ![m] = None]
        /\ UNCHANGED <<row, tasks, moved, call, rec, answered, bounds>>
    BY DEF LearnCommit, Goto, At
  <1>2. /\ Current(D(t), rec[t]) /\ rec[t].status = "approved"
        /\ ev[t] \in Event /\ ev[t].kind = "approved" /\ Computed(t)
    BY <1>0, <1>1 DEF Backed, Approving, Learning, At
  <1>3. /\ Settled(D(t)) /\ row[D(t)] # None
        /\ row[D(t)].status = "approved" /\ row[D(t)].content = c /\ c \in Contents
    BY <1>2 DEF Current, Payload, Settled
  <1>4. m \in Metrics /\ thresholds[m] \in Nat \cup {None} /\ ev[t].upd \in Nat /\ Measured[c] \in Nat
    BY <1>0, <1>2, <1>3 DEF StoresOK, Event
  <1>5. ev[t].upd >= Measured[c]
    BY <1>1, <1>2, <1>4 DEF Computed, At, Larger
  <1>6. /\ final \in Nat /\ final >= Measured[c] /\ final >= ev[t].upd
        /\ thresholds[m] # None => final >= thresholds[m]
    BY <1>4, <1>5 DEF Larger
  <1>7. learning[D(t)] # None => /\ learning[D(t)].kind = "approved" /\ learning[D(t)] \in Event
                                 /\ final = thresholds[m]
    <2> SUFFICES ASSUME learning[D(t)] # None
                 PROVE  /\ learning[D(t)].kind = "approved" /\ learning[D(t)] \in Event
                        /\ final = thresholds[m]
      OBVIOUS
    <2>1. learning[D(t)].kind = "approved" /\ learning[D(t)] \in Event
      BY <1>0, <1>3 DEF StoresAgree, ConsequencesMatch, StoresOK
    <2>2. thresholds[m] # None /\ Measured[c] <= thresholds[m]
      BY <1>0, <1>3, <2>1 DEF LearningAgrees, ThresholdCovers
    <2>3. ev[t].upd <= thresholds[m]
      BY <1>1, <1>2, <1>4, <2>2 DEF Computed, At, Larger
    <2> QED
      BY <1>4, <2>1, <2>2, <2>3 DEF Larger
  <1> HIDE DEF final
  <1>8. /\ stored \in Event /\ stored.kind = "approved"
        /\ learning[D(t)] # None => stored = learning[D(t)]
        /\ learning[D(t)] = None => stored.upd = final
    BY <1>2, <1>6, <1>7 DEF Event
  <1> HIDE DEF stored
  <1>9. /\ learning' \in [Decisions -> Event \cup {None}] /\ learning'[D(t)] = stored
        /\ Grows /\ StoresAgree'
    BY <1>0, <1>1, <1>3, <1>8, EventWrite
  <1>10. LearningAgrees' /\ thresholds' \in [Metrics -> Nat \cup {None}]
    BY <1>0, <1>1, <1>3, <1>6, <1>7, <1>8, ApprovalLearned
  <1>11. StoresOK' /\ BoundsOK' /\ \A x \in Metrics : x # m => lock'[x] = lock[x] /\ thresholds'[x] = thresholds[x]
    BY <1>0, <1>1, <1>4, <1>9, <1>10 DEF StoresOK, BoundsOK, bounds
  <1>12. /\ LocalsOK' /\ Alone(t) /\ pc'[t] = "file_get" /\ ev'[t] = stored
         /\ rec'[t] = rec[t] /\ call'[t] = call[t] /\ D(t)' = D(t)
    BY <1>0, <1>1, <1>8 DEF LocalsOK, Alone, Same, Steps, D
  <1>13. Backed(t)'
    <2>1. Current(D(t), rec[t])'
      BY <1>0, <1>1, <1>2, <1>9, <1>12 DEF Current, Settled, TrueNotes, Grows
    <2>2. stored # None
      BY <1>8
    <2> QED
      BY <1>0, <1>1, <1>2, <1>9, <1>12, <2>1, <2>2 DEF Backed, Deciding, Approving, Rejecting, Annotating,
             Completing, Computed, At, Learning
  <1>14. ASSUME NEW u \in Threads \ {t} PROVE Computed(u)'
    <2>1. Computed(u) /\ D(u) \in Decisions /\ D(u)' = D(u) /\ Same(u)
      BY <1>12, Parts DEF Alone, Same, D
    <2>2. MetricOf[D(u)] \in Metrics
      BY <2>1
    <2>3. CASE MetricOf[D(u)] = m
      <3>1. lock[m] # u /\ lock'[m] # u
        BY <1>0, <1>1, <1>4 DEF StoresOK
      <3> QED
        BY <2>1, <2>3, <3>1 DEF Computed, At, Same
    <2>4. CASE MetricOf[D(u)] # m
      BY <1>11, <2>1, <2>2, <2>4 DEF Computed, At, Same, Larger
    <2> QED
      BY <2>3, <2>4
  <1> QED
    BY <1>0, <1>1, <1>9, <1>10, <1>11, <1>12, <1>13, <1>14, Compose

\* A payload given the action of its decision's task is still current.
LEMMA TaskNoted ==
    ASSUME StoresOK, NEW d \in Decisions, NEW p \in Payload, Current(d, p), tasks[d] # None
    PROVE  LET q == [p EXCEPT !.task = tasks[d].action]
           IN  q \in Payload /\ q.task # None /\ q.task = tasks[d].action
  <1>1. tasks[d].action \in Contents
    BY DEF StoresOK, Task
  <1> QED
    BY <1>1, LifecycleAssumption DEF Payload

\* approve looks for the decision's task.
LEMMA FileGetStep ==
    ASSUME LifecycleInv, NEW t \in Threads, FileGet(t) PROVE LifecycleInv'
  <1> USE LifecycleAssumption
  <1>0. /\ LocalsOK /\ BoundsOK /\ StoresOK /\ Backed(t) /\ D(t) \in Decisions /\ call[t] \in Call
    BY Parts
  <1>1. /\ pc[t] = "file_get" /\ UNCHANGED <<stores, call, ev, answered, bounds>>
    BY DEF FileGet, At
  <1>2. /\ call[t].op = "approve" /\ Current(D(t), rec[t]) /\ rec[t] \in Payload
        /\ rec[t].status = "approved" /\ ev[t] # None /\ ev[t] = learning[D(t)]
    BY <1>0, <1>1 DEF Backed, Approving, Learning, Current
  <1>3. BoundsOK' /\ UNCHANGED stores
    BY <1>0, <1>1 DEF BoundsOK, bounds, stores
  <1>4. CASE tasks[D(t)] = None /\ rec[t].task = None
    <2>1. pc' = [pc EXCEPT ![t] = "file_put"] /\ UNCHANGED <<rec, call, ev>>
      BY <1>4 DEF FileGet, Goto, Hold
    <2>2. /\ LocalsOK' /\ Alone(t) /\ pc'[t] = "file_put" /\ rec'[t] = rec[t] /\ ev'[t] = ev[t]
          /\ call'[t] = call[t] /\ D(t)' = D(t)
      BY <1>0, <2>1 DEF LocalsOK, Alone, Same, Steps, D
    <2>3. Backed(t)'
      BY <1>2, <1>3, <2>2 DEF Backed, Deciding, Approving, Rejecting, Annotating, Completing,
              Computed, At, Learning, stores, Current, Settled, TrueNotes
    <2> QED
      BY <1>0, <1>1, <1>3, <2>2, <2>3, LocalStep
  <1>5. CASE tasks[D(t)] # None \/ rec[t].task # None
    <2>1. PICK p \in Payload : /\ pc' = [pc EXCEPT ![t] = "annotate_get"]
                               /\ rec' = [rec EXCEPT ![t] = p] \/ (rec' = rec /\ p = rec[t])
                               /\ tasks[D(t)] # None /\ p.task # None /\ p.task = tasks[D(t)].action
      <3>1. CASE rec[t].task # None
        BY <1>2, <3>1 DEF FileGet, Goto, Current, TrueNotes
      <3>2. CASE rec[t].task = None
        BY <1>0, <1>2, <1>5, <3>2, TaskNoted DEF FileGet, Goto, Hold
      <3> QED
        BY <3>1, <3>2
    <2>2. /\ LocalsOK' /\ Alone(t) /\ pc'[t] = "annotate_get" /\ rec'[t] = p /\ ev'[t] = ev[t]
          /\ call'[t] = call[t] /\ D(t)' = D(t)
      BY <1>0, <1>1, <2>1 DEF LocalsOK, Alone, Same, Steps, D
    <2>3. Backed(t)'
      BY <1>2, <1>3, <2>1, <2>2 DEF Backed, Deciding, Approving, Rejecting, Annotating, Completing,
              Computed, At, Learning, stores, Current, Settled
    <2> QED
      BY <1>0, <1>1, <1>3, <2>2, <2>3, LocalStep
  <1> QED
    BY <1>4, <1>5

\* approve files the task, or takes the one filed meanwhile.
LEMMA FilePutStep ==
    ASSUME LifecycleInv, NEW t \in Threads, FilePut(t) PROVE LifecycleInv'
  <1> USE LifecycleAssumption
  <1>0. /\ TypeOK /\ LocalsOK /\ BoundsOK /\ StoresOK /\ StoresAgree /\ LearningAgrees /\ Backed(t)
        /\ D(t) \in Decisions /\ call[t] \in Call
    BY Parts
  <1>1. /\ pc[t] = "file_put"
        /\ UNCHANGED <<row, learning, thresholds, lock, moved, call, ev, answered, bounds>>
    BY DEF FilePut, At
  <1>2. /\ call[t].op = "approve" /\ Current(D(t), rec[t]) /\ rec[t] \in Payload
        /\ rec[t].status = "approved" /\ ev[t] # None /\ ev[t] = learning[D(t)]
    BY <1>0, <1>1 DEF Backed, Approving, Learning, Current
  <1>3. /\ row[D(t)] # None /\ row[D(t)].status = "approved" /\ rec[t].content \in Contents
        /\ row[D(t)].content = rec[t].content /\ Settled(D(t))
    BY <1>2 DEF Current, Settled, Payload
  <1>4. /\ tasks' \in [Decisions -> Task \cup {None}] /\ tasks'[D(t)] # None
        /\ Grows /\ StoresAgree'
    <2>1. CASE tasks[D(t)] # None
      BY <1>0, <1>1, <2>1, StoresKept DEF FilePut, Grows, StoresOK
    <2>2. CASE tasks[D(t)] = None
      <3>1. tasks' = [tasks EXCEPT ![D(t)] = [action |-> rec[t].content, receipt |-> None]]
        BY <2>2 DEF FilePut
      <3>2. tasks' \in [Decisions -> Task \cup {None}] /\ Grows /\ StoresAgree'
        BY <1>0, <1>1, <1>3, <2>2, <3>1, TaskWrite
      <3>3. [action |-> rec[t].content, receipt |-> None] \in Task
        BY <1>3 DEF Task
      <3>4. tasks'[D(t)] # None
        BY <1>0, <3>1, <3>3 DEF StoresOK
      <3> QED
        BY <3>2, <3>4
    <2> QED
      BY <2>1, <2>2
  <1>5. StoresOK' /\ BoundsOK' /\ LearningAgrees'
    BY <1>0, <1>1, <1>4, LearningKept DEF StoresOK, BoundsOK, bounds
  <1> DEFINE p == [rec[t] EXCEPT !.task = tasks'[D(t)].action]
  <1>6. /\ p \in Payload /\ p.task # None /\ p.task = tasks'[D(t)].action
        /\ pc' = [pc EXCEPT ![t] = "annotate_get"] /\ rec' = [rec EXCEPT ![t] = p]
    <2>1. tasks'[D(t)].action \in Contents
      BY <1>0, <1>4 DEF Task
    <2>2. tasks'[D(t)].action # None
      BY <2>1
    <2>3. p \in Payload /\ p.task = tasks'[D(t)].action
      BY <1>2, <2>1 DEF Payload
    <2> QED
      BY <2>2, <2>3 DEF FilePut, Hold, Goto
  <1> HIDE DEF p
  <1>7. /\ LocalsOK' /\ Alone(t) /\ pc'[t] = "annotate_get" /\ rec'[t] = p /\ ev'[t] = ev[t]
        /\ call'[t] = call[t] /\ D(t)' = D(t)
    BY <1>0, <1>1, <1>6 DEF LocalsOK, Alone, Same, Steps, D
  <1>8. Backed(t)'
    BY <1>1, <1>2, <1>3, <1>4, <1>6, <1>7 DEF Backed, Deciding, Approving, Rejecting, Annotating,
            Completing, Computed, At, Learning, Settled
  <1>9. \A u \in Threads \ {t} : Computed(u)'
    BY <1>1, <1>7, Parts, ComputedKept DEF Alone
  <1> QED
    BY <1>0, <1>1, <1>4, <1>5, <1>7, <1>8, <1>9, Compose

\* annotate reads the decision and notes the event and the task on its copy.
LEMMA AnnotateGetStep ==
    ASSUME LifecycleInv, NEW t \in Threads, AnnotateGet(t) PROVE LifecycleInv'
  <1> USE LifecycleAssumption
  <1>0. /\ LocalsOK /\ BoundsOK /\ StoresOK /\ StoresAgree /\ Backed(t) /\ D(t) \in Decisions
        /\ call[t] \in Call
    BY Parts
  <1> DEFINE a == IF call[t].op = "approve" THEN rec[t].task ELSE row[D(t)].task
             x == IF call[t].op = "approve" /\ call[t].fix THEN "approve" ELSE row[D(t)].correction
             p == [row[D(t)] EXCEPT !.event = ev[t], !.task = a, !.correction = x]
  <1>1. /\ pc[t] = "annotate_get" /\ pc' = [pc EXCEPT ![t] = "annotate_put"]
        /\ rec' = [rec EXCEPT ![t] = p] /\ UNCHANGED <<stores, call, ev, answered, bounds>>
    BY DEF AnnotateGet, At, Hold, Goto
  <1>2. /\ Settled(D(t)) /\ call[t].op \in {"approve", "reject"}
        /\ ev[t] # None /\ ev[t] = learning[D(t)]
        /\ call[t].op = "approve" => /\ tasks[D(t)] # None /\ rec[t] \in Payload
                                     /\ rec[t].task # None /\ tasks[D(t)].action = rec[t].task
    BY <1>0, <1>1 DEF Backed, Annotating, At
  <1>3. row[D(t)] \in Payload /\ Current(D(t), row[D(t)])
    BY <1>0, <1>2, RowIsCurrent
  <1>4. ev[t] \in Event /\ a \in Contents \cup {None} /\ x \in {"approve", "reject", None}
    BY <1>0, <1>2, <1>3 DEF StoresOK, Payload
  <1>5. a # None => tasks[D(t)] # None /\ tasks[D(t)].action = a
    BY <1>2, <1>3 DEF Current, TrueNotes
  <1> HIDE DEF a, x
  <1>6. /\ p \in Payload /\ p.status = row[D(t)].status /\ p.content = row[D(t)].content
        /\ p.event = ev[t] /\ p.task = a /\ p.verified = row[D(t)].verified
    BY <1>3, <1>4 DEF Payload
  <1> HIDE DEF p
  <1>7. /\ LocalsOK' /\ Alone(t) /\ pc'[t] = "annotate_put" /\ rec'[t] = p /\ ev'[t] = ev[t]
        /\ call'[t] = call[t] /\ D(t)' = D(t)
    BY <1>0, <1>1, <1>6 DEF LocalsOK, Alone, Same, Steps, D
  <1>8. BoundsOK' /\ UNCHANGED stores
    BY <1>0, <1>1 DEF BoundsOK, bounds, stores
  <1>9. Current(D(t), p)
    BY <1>2, <1>3, <1>5, <1>6 DEF Current, TrueNotes
  <1>10. Backed(t)'
    BY <1>2, <1>7, <1>8, <1>9 DEF Backed, Deciding, Approving, Rejecting, Annotating,
            Completing, Computed, At, Learning, Settled, Current, TrueNotes, stores
  <1> QED
    BY <1>0, <1>1, <1>7, <1>8, <1>10, LocalStep

\* A current copy is written back and its request is answered truthfully.
LEMMA WriteBack ==
    ASSUME LifecycleInv, NEW t \in Threads, NEW d \in Decisions, NEW p \in Payload, Current(d, p),
           row' = [row EXCEPT ![d] = p],
           UNCHANGED <<learning, thresholds, lock, tasks, moved, bounds>>,
           LocalsOK', Alone(t), Backed(t)',
           NEW k \in Call, NEW e \in Event \cup {None},
           \/ answered' = answered
           \/ answered' = answered \cup {[call |-> k, event |-> e]} /\ Told([call |-> k, event |-> e])'
    PROVE  LifecycleInv'
  <1>1. TypeOK /\ StoresAgree /\ LearningAgrees /\ StoresOK /\ BoundsOK
    BY Parts
  <1>2. /\ row' \in [Decisions -> Payload \cup {None}] /\ Grows /\ StoresAgree'
        /\ \A x \in Decisions : learning[x] # None => row'[x].content = row[x].content
    BY <1>1, RowWrite
  <1>3. LearningAgrees' /\ StoresOK' /\ BoundsOK'
    BY <1>1, <1>2, LearningKept DEF StoresOK, BoundsOK, bounds
  <1>4. \A u \in Threads \ {t} : Computed(u)'
    BY Parts, ComputedKept DEF Alone
  <1> QED
    BY <1>2, <1>3, <1>4, Compose

\* annotate writes its copy over the row and the request is answered.
LEMMA AnnotatePutStep ==
    ASSUME LifecycleInv, NEW t \in Threads, AnnotatePut(t) PROVE LifecycleInv'
  <1> USE LifecycleAssumption
  <1>0. /\ LocalsOK /\ BoundsOK /\ StoresOK /\ StoresAgree /\ Backed(t) /\ D(t) \in Decisions
    BY Parts
  <1>1. PICK k \in Call : k = call[t]
    BY Parts
  <1>2. PICK e \in Event \cup {None} : e = ev[t]
    BY <1>0 DEF LocalsOK
  <1>3. /\ pc[t] = "annotate_put" /\ row' = [row EXCEPT ![D(t)] = rec[t]] /\ Drop(t)
        /\ answered' = answered \cup {[call |-> k, event |-> e]}
        /\ UNCHANGED <<learning, thresholds, lock, tasks, moved, bounds>>
    BY <1>1, <1>2 DEF AnnotatePut, At, Answer
  <1>4. /\ Current(D(t), rec[t]) /\ rec[t] \in Payload /\ k.d = D(t) /\ k.op \in {"approve", "reject"}
        /\ e # None /\ e = learning[k.d] /\ (k.op = "approve" => tasks[k.d] # None)
    BY <1>0, <1>1, <1>2, <1>3 DEF Backed, Annotating, At, Current, D
  <1>5. row'[k.d] = rec[t] /\ rec[t] # None /\ rec[t].status = row[k.d].status
    BY <1>0, <1>3, <1>4 DEF StoresOK, Current
  <1>6. Settled(k.d) /\ (k.op = "approve" => learning[k.d].kind = "approved")
    BY <1>0, <1>4 DEF Current, StoresAgree, ConsequencesMatch
  <1>7. Told([call |-> k, event |-> e])'
    BY <1>3, <1>4, <1>5, <1>6 DEF Told, Settled
  <1> QED
    BY <1>0, <1>3, <1>4, <1>7, Drops, WriteBack

\* reject notes its correction on a copy and writes it back.
LEMMA CorrectGetStep ==
    ASSUME LifecycleInv, NEW t \in Threads, CorrectGet(t) PROVE LifecycleInv'
  <1> USE LifecycleAssumption
  <1> DEFINE p == [row[D(t)] EXCEPT !.correction = "reject"]
  <1>0. /\ LocalsOK /\ BoundsOK /\ StoresOK /\ StoresAgree /\ Backed(t) /\ D(t) \in Decisions
        /\ call[t] \in Call
    BY Parts
  <1>1. /\ pc[t] = "correct_get" /\ pc' = [pc EXCEPT ![t] = "correct_put"]
        /\ rec' = [rec EXCEPT ![t] = p] /\ UNCHANGED <<stores, call, ev, answered, bounds>>
    BY DEF CorrectGet, At, Hold, Goto
  <1>2. Settled(D(t)) /\ call[t].op = "reject"
    BY <1>0, <1>1 DEF Backed, Rejecting
  <1>3. row[D(t)] \in Payload /\ Current(D(t), row[D(t)])
    BY <1>0, <1>2, RowIsCurrent
  <1>4. Current(D(t), p)
    <2>1. /\ p \in Payload /\ p.status = row[D(t)].status /\ p.content = row[D(t)].content
          /\ p.event = row[D(t)].event /\ p.task = row[D(t)].task /\ p.verified = row[D(t)].verified
      BY <1>3 DEF Payload
    <2> QED
      BY <1>3, <2>1 DEF Current, TrueNotes
  <1> HIDE DEF p
  <1>5. /\ LocalsOK' /\ Alone(t) /\ pc'[t] = "correct_put" /\ rec'[t] = p /\ ev'[t] = ev[t]
        /\ call'[t] = call[t] /\ D(t)' = D(t)
    BY <1>0, <1>1, <1>4 DEF LocalsOK, Alone, Same, Steps, D, Current
  <1>6. BoundsOK' /\ UNCHANGED stores
    BY <1>0, <1>1 DEF BoundsOK, bounds, stores
  <1>7. Backed(t)'
    BY <1>2, <1>4, <1>5, <1>6 DEF Backed, Deciding, Approving, Rejecting, Annotating,
            Completing, Computed, At, Learning, Settled, Current, TrueNotes, stores
  <1> QED
    BY <1>0, <1>1, <1>5, <1>6, <1>7, LocalStep

\* The correction note is written onto the row the thread read.
LEMMA CorrectPutStep ==
    ASSUME LifecycleInv, NEW t \in Threads, CorrectPut(t) PROVE LifecycleInv'
  <1> USE LifecycleAssumption
  <1>0. /\ LocalsOK /\ BoundsOK /\ StoresOK /\ StoresAgree /\ Backed(t) /\ D(t) \in Decisions
    BY Parts
  <1>1. PICK k \in Call : k = call[t]
    BY Parts
  <1>2. /\ pc[t] = "correct_put" /\ row' = [row EXCEPT ![D(t)] = rec[t]]
        /\ UNCHANGED <<learning, thresholds, lock, tasks, moved, bounds>>
    BY DEF CorrectPut, At
  <1>3. Current(D(t), rec[t]) /\ rec[t] \in Payload /\ k.d = D(t) /\ k.op = "reject"
    BY <1>0, <1>1, <1>2 DEF Backed, Rejecting, Annotating, At, Current, D
  <1>4. row'[k.d] = rec[t] /\ rec[t] # None /\ rec[t].status = row[k.d].status /\ Settled(k.d)
    BY <1>0, <1>2, <1>3 DEF StoresOK, Current
  <1>5. CASE rec[t].status = "rejected"
    <2>1. pc' = [pc EXCEPT ![t] = "reject_check"] /\ UNCHANGED <<call, rec, ev, answered>>
      BY <1>5 DEF CorrectPut, Goto
    <2>2. LocalsOK' /\ Alone(t) /\ pc'[t] = "reject_check" /\ call'[t] = k /\ D(t)' = k.d
      BY <1>0, <1>1, <2>1 DEF LocalsOK, Alone, Same, Steps, D
    <2>3. Backed(t)'
      BY <1>3, <1>4, <1>5, <2>2 DEF Backed, Deciding, Approving, Rejecting, Annotating,
            Completing, Computed, At, Learning, Settled
    <2> QED
      BY <1>0, <1>2, <1>3, <2>1, <2>2, <2>3, WriteBack
  <1>6. CASE rec[t].status # "rejected"
    <2>1. Drop(t) /\ answered' = answered \cup {[call |-> k, event |-> None]}
      BY <1>1, <1>6 DEF CorrectPut, Answer
    <2>2. Told([call |-> k, event |-> None])'
      BY <1>3, <1>4 DEF Told, Settled
    <2> QED
      BY <1>0, <1>2, <1>3, <2>1, <2>2, Drops, WriteBack
  <1> QED
    BY <1>5, <1>6

\* reject reads the learning store, and inserts the rejection unless an event is there.
LEMMA RejectCheckStep ==
    ASSUME LifecycleInv, NEW t \in Threads, RejectCheck(t) PROVE LifecycleInv'
  <1> USE LifecycleAssumption
  <1> DEFINE s == IF learning[D(t)] = None THEN "reject_insert" ELSE "annotate_get"
  <1>0. /\ LocalsOK /\ BoundsOK /\ StoresOK /\ Backed(t) /\ D(t) \in Decisions /\ call[t] \in Call
    BY Parts
  <1>1. /\ pc' = [pc EXCEPT ![t] = s] /\ ev' = [ev EXCEPT ![t] = learning[D(t)]]
        /\ UNCHANGED <<stores, call, rec, answered, bounds>> /\ pc[t] = "reject_check"
    BY DEF RejectCheck, Goto, At
  <1>2. Settled(D(t)) /\ call[t].op = "reject" /\ row[D(t)].status = "rejected"
    BY <1>0, <1>1 DEF Backed, Rejecting
  <1>3. /\ LocalsOK' /\ Alone(t) /\ pc'[t] = s /\ ev'[t] = learning[D(t)]
        /\ call'[t] = call[t] /\ D(t)' = D(t)
    BY <1>0, <1>1 DEF LocalsOK, StoresOK, Alone, Same, Steps, D
  <1>4. BoundsOK' /\ UNCHANGED stores
    BY <1>0, <1>1 DEF BoundsOK, bounds, stores
  <1>5. Backed(t)'
    BY <1>2, <1>3, <1>4 DEF Backed, Deciding, Approving, Rejecting, Annotating, Completing,
            Computed, At, Learning, stores, Settled
  <1> QED
    BY <1>0, <1>1, <1>3, <1>4, <1>5, LocalStep

\* The rejection is recorded, unless an event of the decision is there by now.
LEMMA RejectInsertStep ==
    ASSUME LifecycleInv, NEW t \in Threads, RejectInsert(t) PROVE LifecycleInv'
  <1> USE LifecycleAssumption
  <1> DEFINE stored == IF learning[D(t)] # None THEN learning[D(t)] ELSE Rejection
  <1>0. /\ TypeOK /\ LocalsOK /\ BoundsOK /\ StoresOK /\ StoresAgree /\ LearningAgrees /\ Backed(t)
        /\ D(t) \in Decisions /\ call[t] \in Call
    BY Parts
  <1>1. /\ pc[t] = "reject_insert" /\ pc' = [pc EXCEPT ![t] = "annotate_get"]
        /\ learning' = [learning EXCEPT ![D(t)] = stored] /\ ev' = [ev EXCEPT ![t] = stored]
        /\ UNCHANGED <<row, thresholds, lock, tasks, moved, call, rec, answered, bounds>>
    BY DEF RejectInsert, Goto, At
  <1>2. Settled(D(t)) /\ call[t].op = "reject" /\ row[D(t)].status = "rejected"
    BY <1>0, <1>1 DEF Backed, Rejecting
  <1>3. /\ stored \in Event /\ stored # None /\ stored.kind = "rejected"
        /\ learning[D(t)] # None => stored = learning[D(t)]
    <2>1. CASE learning[D(t)] # None
      BY <1>0, <1>2, <2>1 DEF StoresOK, StoresAgree, ConsequencesMatch
    <2>2. CASE learning[D(t)] = None
      BY <2>2 DEF Rejection, Event, Terminal
    <2> QED
      BY <2>1, <2>2
  <1> HIDE DEF stored
  <1>4. /\ learning' \in [Decisions -> Event \cup {None}] /\ learning'[D(t)] = stored
        /\ Grows /\ StoresAgree'
    BY <1>0, <1>1, <1>2, <1>3, EventWrite
  <1>5. LearningAgrees'
    BY <1>0, <1>1, <1>3, RejectionKept
  <1>6. StoresOK' /\ BoundsOK'
    BY <1>0, <1>1, <1>4 DEF StoresOK, BoundsOK, bounds
  <1>7. /\ LocalsOK' /\ Alone(t) /\ pc'[t] = "annotate_get" /\ ev'[t] = stored
        /\ call'[t] = call[t] /\ D(t)' = D(t)
    BY <1>0, <1>1, <1>3 DEF LocalsOK, Alone, Same, Steps, D
  <1>8. Backed(t)'
    BY <1>1, <1>2, <1>3, <1>4, <1>7 DEF Backed, Deciding, Approving, Rejecting, Annotating, Completing,
            Computed, At, Learning, Settled
  <1>9. \A u \in Threads \ {t} : Computed(u)'
    BY <1>1, <1>7, Parts, ComputedKept DEF Alone
  <1> QED
    BY <1>0, <1>1, <1>4, <1>5, <1>6, <1>7, <1>8, <1>9, Compose

\* How a completion goes on: to a step whose grounds are given, or to its answer.
LEMMA Proceeds ==
    ASSUME LocalsOK, NEW t \in Threads, NEW k \in Call, k = call[t], k.op = "complete",
           k.receipt \in Receipts, NEW s \in {"vacate", "verify_get", "answer"}, Proceed(t, s),
           tasks'[k.d] # None, tasks'[k.d].receipt = k.receipt,
           s = "vacate" => k.d \in Relocations,
           s # "vacate" => (k.d \in Relocations => moved'[k.d] = Bins)
    PROVE  /\ LocalsOK' /\ Alone(t) /\ Backed(t)'
           /\ \/ answered' = answered
              \/ /\ answered' = answered \cup {[call |-> k, event |-> None]}
                 /\ Told([call |-> k, event |-> None])'
  <1> USE LifecycleAssumption
  <1>1. CASE s # "answer"
    <2>1. pc' = [pc EXCEPT ![t] = s] /\ UNCHANGED <<call, rec, ev, answered>>
      BY <1>1 DEF Proceed, Goto
    <2>2. LocalsOK' /\ Alone(t) /\ pc'[t] = s /\ call'[t] = k
      BY <1>1, <2>1 DEF LocalsOK, Alone, Same, Steps
    <2>3. D(t)' = k.d
      BY <2>2 DEF D
    <2>4. Backed(t)'
      BY <1>1, <2>2, <2>3 DEF Backed, Deciding, Approving, Rejecting, Annotating, Completing,
              Computed, At, Learning
    <2> QED
      BY <2>1, <2>2, <2>4
  <1>2. CASE s = "answer"
    <2>1. Drop(t) /\ answered' = answered \cup {[call |-> k, event |-> None]}
      BY <1>2 DEF Proceed, Answer
    <2>2. Told([call |-> k, event |-> None])'
      BY <1>2 DEF Told
    <2> QED
      BY <2>1, <2>2, Drops
  <1> QED
    BY <1>1, <1>2

\* The task takes its receipt (complete_task).
LEMMA CompleteTaskStep ==
    ASSUME LifecycleInv, NEW t \in Threads, CompleteTask(t) PROVE LifecycleInv'
  <1> USE LifecycleAssumption
  <1>0. /\ TypeOK /\ LocalsOK /\ BoundsOK /\ StoresOK /\ StoresAgree /\ LearningAgrees /\ Backed(t)
        /\ D(t) \in Decisions
    BY Parts
  <1>1. PICK k \in Call : k = call[t]
    BY Parts
  <1>2. /\ pc[t] = "complete" /\ UNCHANGED <<row, learning, thresholds, lock, moved, bounds>>
    BY DEF CompleteTask, At
  <1>3. /\ k.d = D(t) /\ k.d \in Decisions /\ k.op = "complete" /\ k.receipt \in Receipts
        /\ tasks[k.d] # None
    BY <1>0, <1>1, <1>2 DEF Backed, Completing, D
  <1>4. CASE tasks[k.d].receipt \in {None, k.receipt}
    <2> DEFINE s == IF k.d \in Relocations THEN "vacate" ELSE AfterMove(t)
    <2>1. tasks' = [tasks EXCEPT ![k.d].receipt = k.receipt] /\ Proceed(t, s)
      BY <1>1, <1>3, <1>4 DEF CompleteTask
    <2>2. s \in {"vacate", "verify_get", "answer"} /\ (s = "vacate" <=> k.d \in Relocations)
      BY DEF AfterMove
    <2> HIDE DEF s
    <2>3. tasks[k.d] \in Task /\ tasks[k.d].action \in Contents
      BY <1>0, <1>3 DEF StoresOK, Task
    <2>4. tasks' = [tasks EXCEPT ![k.d] = [action |-> tasks[k.d].action, receipt |-> k.receipt]]
      <3>1. [tasks[k.d] EXCEPT !.receipt = k.receipt]
              = [action |-> tasks[k.d].action, receipt |-> k.receipt]
        BY <2>3 DEF Task
      <3> QED
        BY <2>1, <3>1, Zenon
    <2>5. row[k.d] # None /\ row[k.d].status = "approved" /\ row[k.d].content = tasks[k.d].action
      BY <1>0, <1>3 DEF StoresAgree, ConsequencesMatch
    <2>6. tasks' \in [Decisions -> Task \cup {None}] /\ Grows /\ StoresAgree'
      BY <1>0, <1>2, <1>3, <1>4, <2>3, <2>4, <2>5, TaskWrite
    <2>7. tasks'[k.d] # None /\ tasks'[k.d].receipt = k.receipt
      <3>1. [action |-> tasks[k.d].action, receipt |-> k.receipt] \in Task
        BY <1>3, <2>3 DEF Task
      <3> QED
        BY <1>0, <1>3, <2>4, <3>1 DEF StoresOK
    <2>8. StoresOK' /\ BoundsOK' /\ LearningAgrees'
      BY <1>0, <1>2, <2>6, LearningKept DEF StoresOK, BoundsOK, bounds
    <2>9. /\ LocalsOK' /\ Alone(t) /\ Backed(t)'
          /\ \/ answered' = answered
             \/ /\ answered' = answered \cup {[call |-> k, event |-> None]}
                /\ Told([call |-> k, event |-> None])'
      BY <1>0, <1>1, <1>3, <2>1, <2>2, <2>7, Proceeds
    <2>10. \A u \in Threads \ {t} : Computed(u)'
      BY <1>2, <2>9, Parts, ComputedKept DEF Alone
    <2> QED
      BY <2>6, <2>8, <2>9, <2>10, Compose
  <1>5. CASE tasks[k.d].receipt \notin {None, k.receipt}
    <2>1. Drop(t) /\ UNCHANGED <<tasks, answered>>
      BY <1>1, <1>3, <1>5 DEF CompleteTask
    <2>2. BoundsOK' /\ UNCHANGED stores
      BY <1>0, <1>2, <2>1 DEF BoundsOK, bounds, stores
    <2> QED
      BY <1>0, <2>1, <2>2, Drops, LocalStep
  <1> QED
    BY <1>4, <1>5

\* A step that only writes a position.
LEMMA PositionWrite ==
    ASSUME StoresOK, StoresAgree, LearningAgrees, NEW d \in Decisions, NEW b \in Bins,
           moved' = [moved EXCEPT ![d] = @ \cup {b}],
           UNCHANGED <<row, learning, thresholds, lock, tasks>>
    PROVE  /\ StoresOK' /\ Grows /\ StoresAgree' /\ LearningAgrees'
           /\ moved'[d] = moved[d] \cup {b}
  <1>1. /\ moved' \in [Decisions -> SUBSET Bins] /\ moved'[d] = moved[d] \cup {b}
        /\ \A x \in Decisions : moved[x] \subseteq moved'[x]
    BY DEF StoresOK
  <1>2. StoresAgree' /\ LearningAgrees'
    BY StoresKept
  <1> QED
    BY <1>1, <1>2 DEF StoresOK, Grows

\* A relocation's two bins are written one after the other.
LEMMA VacateStep ==
    ASSUME LifecycleInv, NEW t \in Threads, Vacate(t) PROVE LifecycleInv'
  <1> USE LifecycleAssumption
  <1>0. /\ LocalsOK /\ BoundsOK /\ StoresOK /\ StoresAgree /\ LearningAgrees /\ Backed(t)
        /\ D(t) \in Decisions /\ call[t] \in Call
    BY Parts
  <1>1. /\ pc[t] = "vacate" /\ pc' = [pc EXCEPT ![t] = "fill"]
        /\ moved' = [moved EXCEPT ![D(t)] = @ \cup {"source"}]
        /\ UNCHANGED <<row, learning, thresholds, lock, tasks, call, rec, ev, answered, bounds>>
    BY DEF Vacate, Goto, At
  <1>2. "source" \in Bins
    BY DEF Bins
  <1>3. StoresOK' /\ Grows /\ StoresAgree' /\ LearningAgrees' /\ moved'[D(t)] = moved[D(t)] \cup {"source"}
    BY <1>0, <1>1, <1>2, PositionWrite
  <1>4. BoundsOK' /\ LocalsOK' /\ Alone(t) /\ pc'[t] = "fill" /\ call'[t] = call[t] /\ D(t)' = D(t)
    BY <1>0, <1>1 DEF LocalsOK, Alone, Same, Steps, D, BoundsOK, bounds
  <1>5. Backed(t)'
    BY <1>0, <1>1, <1>3, <1>4 DEF Backed, Deciding, Approving, Rejecting, Annotating, Completing,
            Computed, At, Learning
  <1>6. \A u \in Threads \ {t} : Computed(u)'
    BY <1>1, <1>4, Parts, ComputedKept DEF Alone
  <1> QED
    BY <1>0, <1>1, <1>3, <1>4, <1>5, <1>6, Compose

\* The destination position receives what the source gave.
LEMMA FillStep ==
    ASSUME LifecycleInv, NEW t \in Threads, Fill(t) PROVE LifecycleInv'
  <1> USE LifecycleAssumption
  <1>0. /\ LocalsOK /\ BoundsOK /\ StoresOK /\ StoresAgree /\ LearningAgrees /\ Backed(t)
        /\ D(t) \in Decisions
    BY Parts
  <1>1. PICK k \in Call : k = call[t]
    BY Parts
  <1>2. /\ pc[t] = "fill" /\ Proceed(t, AfterMove(t))
        /\ moved' = [moved EXCEPT ![D(t)] = @ \cup {"destination"}]
        /\ UNCHANGED <<row, learning, thresholds, lock, tasks, bounds>>
    BY DEF Fill, At
  <1>3. /\ k.d = D(t) /\ k.d \in Decisions /\ k.op = "complete" /\ k.receipt \in Receipts
        /\ tasks[k.d] # None /\ tasks[k.d].receipt = k.receipt /\ "source" \in moved[k.d]
    BY <1>0, <1>1, <1>2 DEF Backed, Completing, D, At
  <1>4. "destination" \in Bins
    BY DEF Bins
  <1>5. StoresOK' /\ Grows /\ StoresAgree' /\ LearningAgrees' /\ moved'[k.d] = moved[k.d] \cup {"destination"}
    BY <1>0, <1>2, <1>3, <1>4, PositionWrite
  <1>6. moved'[k.d] = Bins
    BY <1>0, <1>3, <1>5 DEF StoresOK, Bins
  <1>7. PICK s \in {"vacate", "verify_get", "answer"} : s = AfterMove(t) /\ s # "vacate"
    BY DEF AfterMove
  <1>8. /\ LocalsOK' /\ Alone(t) /\ Backed(t)'
        /\ \/ answered' = answered
           \/ /\ answered' = answered \cup {[call |-> k, event |-> None]}
              /\ Told([call |-> k, event |-> None])'
    BY <1>0, <1>1, <1>2, <1>3, <1>6, <1>7, Proceeds
  <1>9. BoundsOK' /\ \A u \in Threads \ {t} : Computed(u)'
    BY <1>0, <1>2, <1>8, Parts, ComputedKept DEF Alone, BoundsOK, bounds
  <1> QED
    BY <1>5, <1>8, <1>9, Compose

\* The verified outcome is noted on a copy of the decision and written back.
LEMMA VerifyGetStep ==
    ASSUME LifecycleInv, NEW t \in Threads, VerifyGet(t) PROVE LifecycleInv'
  <1> USE LifecycleAssumption
  <1> DEFINE p == [row[D(t)] EXCEPT !.verified = call[t].receipt]
  <1>0. /\ LocalsOK /\ BoundsOK /\ StoresOK /\ StoresAgree /\ Backed(t) /\ D(t) \in Decisions
        /\ call[t] \in Call
    BY Parts
  <1>1. /\ pc[t] = "verify_get" /\ pc' = [pc EXCEPT ![t] = "verify_put"]
        /\ rec' = [rec EXCEPT ![t] = p] /\ UNCHANGED <<stores, call, ev, answered, bounds>>
    BY DEF VerifyGet, At, Hold, Goto
  <1>2. /\ call[t].op = "complete" /\ call[t].receipt \in Receipts /\ tasks[D(t)] # None
        /\ tasks[D(t)].receipt = call[t].receipt
        /\ (D(t) \in Relocations => moved[D(t)] = Bins)
    BY <1>0, <1>1 DEF Backed, Completing
  <1>3. Settled(D(t))
    BY <1>0, <1>2 DEF StoresAgree, ConsequencesMatch, Settled, Terminal
  <1>4. row[D(t)] \in Payload /\ Current(D(t), row[D(t)])
    BY <1>0, <1>3, RowIsCurrent
  <1>5. Current(D(t), p)
    <2>1. /\ p \in Payload /\ p.status = row[D(t)].status /\ p.content = row[D(t)].content
          /\ p.event = row[D(t)].event /\ p.task = row[D(t)].task /\ p.verified = call[t].receipt
      BY <1>2, <1>4 DEF Payload
    <2> QED
      BY <1>2, <1>4, <2>1 DEF Current, TrueNotes
  <1> HIDE DEF p
  <1>6. /\ LocalsOK' /\ Alone(t) /\ pc'[t] = "verify_put" /\ rec'[t] = p /\ ev'[t] = ev[t]
        /\ call'[t] = call[t] /\ D(t)' = D(t)
    BY <1>0, <1>1, <1>5 DEF LocalsOK, Alone, Same, Steps, D, Current
  <1>7. BoundsOK' /\ UNCHANGED stores
    BY <1>0, <1>1 DEF BoundsOK, bounds, stores
  <1>8. Backed(t)'
    BY <1>2, <1>5, <1>6, <1>7 DEF Backed, Deciding, Approving, Rejecting, Annotating,
            Completing, Computed, At, Learning, Settled, Current, TrueNotes, stores
  <1> QED
    BY <1>0, <1>1, <1>6, <1>7, <1>8, LocalStep

\* The verified receipt is written onto the row, and the completion is answered.
LEMMA VerifyPutStep ==
    ASSUME LifecycleInv, NEW t \in Threads, VerifyPut(t) PROVE LifecycleInv'
  <1> USE LifecycleAssumption
  <1>0. /\ LocalsOK /\ BoundsOK /\ StoresOK /\ StoresAgree /\ Backed(t) /\ D(t) \in Decisions
    BY Parts
  <1>1. PICK k \in Call : k = call[t]
    BY Parts
  <1>2. /\ pc[t] = "verify_put" /\ row' = [row EXCEPT ![D(t)] = rec[t]] /\ Drop(t)
        /\ answered' = answered \cup {[call |-> k, event |-> None]}
        /\ UNCHANGED <<learning, thresholds, lock, tasks, moved, bounds>>
    BY <1>1 DEF VerifyPut, At, Answer
  <1>3. Current(D(t), rec[t]) /\ rec[t] \in Payload
    BY <1>0, <1>2 DEF Backed, Annotating, Current
  <1>4. /\ k.d = D(t) /\ k.op = "complete" /\ k.receipt \in Receipts /\ tasks[k.d] # None
        /\ tasks[k.d].receipt = k.receipt /\ (k.d \in Relocations => moved[k.d] = Bins)
    BY <1>0, <1>1, <1>2 DEF Backed, Completing, D
  <1>5. Told([call |-> k, event |-> None])'
    BY <1>2, <1>4 DEF Told
  <1> QED
    BY <1>0, <1>2, <1>3, <1>5, Drops, WriteBack

\* A request is cut short: its transaction rolls back and frees its lock.
LEMMA CrashStep ==
    ASSUME LifecycleInv, NEW t \in Threads, Crash(t) PROVE LifecycleInv'
  <1> USE LifecycleAssumption
  <1>0. /\ LocalsOK /\ BoundsOK /\ StoresOK /\ StoresAgree /\ LearningAgrees /\ call[t] \in Call
    BY Parts
  <1>1. /\ crashes < MaxCrashes /\ crashes' = crashes + 1 /\ Drop(t)
        /\ lock' = [m \in Metrics |-> IF lock[m] = t THEN None ELSE lock[m]]
        /\ UNCHANGED <<row, learning, thresholds, tasks, moved, answered, calls>>
    BY DEF Crash
  <1>2. StoresOK' /\ BoundsOK' /\ Grows
    BY <1>0, <1>1 DEF StoresOK, BoundsOK, Grows
  <1>3. StoresAgree' /\ LearningAgrees'
    BY <1>0, <1>1, StoresKept
  <1>4. LocalsOK' /\ Alone(t) /\ Backed(t)'
    BY <1>0, <1>1, Drops
  <1>5. ASSUME NEW u \in Threads \ {t} PROVE Computed(u)'
    <2>1. Computed(u) /\ D(u) \in Decisions /\ D(u)' = D(u) /\ Same(u)
      BY <1>4, Parts DEF Alone, Same, D
    <2>2. lock'[MetricOf[D(u)]] = u <=> lock[MetricOf[D(u)]] = u
      BY <1>1, <2>1
    <2> QED
      BY <1>1, <2>1, <2>2 DEF Computed, At, Same, Larger
  <1> QED
    BY <1>0, <1>1, <1>2, <1>3, <1>4, <1>5, Compose

-----------------------------------------------------------------------------
(* The inductive invariant. *)

\* The empty stores satisfy it.
LEMMA InitInv == Init => LifecycleInv
  <1> SUFFICES ASSUME Init PROVE LifecycleInv
    OBVIOUS
  <1> USE LifecycleAssumption
  <1>1. Idle \in Call
    BY DEF Idle, Call
  <1>2. TypeOK
    BY <1>1 DEF Init, TypeOK, Steps
  <1>3. \A t \in Threads : Backed(t)
    BY DEF Init, Backed, Deciding, Approving, Rejecting, Annotating, Completing, Computed, At, Learning
  <1>4. PendingIsClean /\ AnnotationsTrue /\ ConsequencesMatch
    BY DEF Init, PendingIsClean, Pending, AnnotationsTrue, ConsequencesMatch
  <1>5. ThresholdCovers /\ ThresholdIsLearned /\ \A a \in answered : Told(a)
    BY DEF Init, ThresholdCovers, ThresholdIsLearned
  <1> QED
    BY <1>2, <1>3, <1>4, <1>5 DEF LifecycleInv

\* A stuttering step keeps it.
LEMMA StutterInv == LifecycleInv /\ UNCHANGED vars => LifecycleInv'
  <1> SUFFICES ASSUME LifecycleInv, UNCHANGED vars PROVE LifecycleInv'
    OBVIOUS
  <1> USE DEF vars
  <1>1. TypeOK'
    BY DEF LifecycleInv, TypeOK
  <1>2. \A t \in Threads : Backed(t)'
    <2> SUFFICES ASSUME NEW t \in Threads PROVE Backed(t)'
      OBVIOUS
    <2>1. Backed(t) /\ Same(t)
      BY Parts DEF Same
    <2>2. Computed(t)'
      BY <2>1, ComputedKept DEF Backed
    <2>3. Grows
      BY DEF Grows
    <2> QED
      BY <1>1, <2>1, <2>2, <2>3, OthersKept DEF TypeOK
  <1>3. StoresAgree' /\ LearningAgrees'
    BY Parts, StoresKept
  <1>4. \A a \in answered' : Told(a)'
    BY DEF LifecycleInv, Told, Settled
  <1> QED
    BY <1>1, <1>2, <1>3, <1>4 DEF LifecycleInv, StoresAgree, LearningAgrees

\* Every step of every request keeps it.
LEMMA StepInv == LifecycleInv /\ [Next]_vars => LifecycleInv'
  <1> SUFFICES ASSUME LifecycleInv, [Next]_vars PROVE LifecycleInv'
    OBVIOUS
  <1>1. ASSUME NEW t \in Threads, Serve(t) PROVE LifecycleInv'
    <2>1. CASE Upsert(t) \/ TransitionGet(t) \/ TransitionPut(t) \/ Reread(t)
      BY <2>1, UpsertStep, TransitionGetStep, TransitionPutStep, RereadStep
    <2>2. CASE LearnCheck(t) \/ LearnLock(t) \/ LearnCommit(t) \/ FileGet(t) \/ FilePut(t)
      BY <2>2, LearnCheckStep, LearnLockStep, LearnCommitStep, FileGetStep, FilePutStep
    <2>3. CASE AnnotateGet(t) \/ AnnotatePut(t) \/ CorrectGet(t) \/ CorrectPut(t)
      BY <2>3, AnnotateGetStep, AnnotatePutStep, CorrectGetStep, CorrectPutStep
    <2>4. CASE RejectCheck(t) \/ RejectInsert(t) \/ CompleteTask(t)
      BY <2>4, RejectCheckStep, RejectInsertStep, CompleteTaskStep
    <2>5. CASE Vacate(t) \/ Fill(t) \/ VerifyGet(t) \/ VerifyPut(t)
      BY <2>5, VacateStep, FillStep, VerifyGetStep, VerifyPutStep
    <2> QED
      BY <1>1, <2>1, <2>2, <2>3, <2>4, <2>5 DEF Serve
  <1>2. CASE Next
    BY <1>1, <1>2, ArriveStep, CrashStep DEF Next
  <1>3. CASE UNCHANGED vars
    BY <1>3, StutterInv
  <1> QED
    BY <1>2, <1>3

\* A largest threshold follows from one that covers the outcomes and is one of them.
LEMMA LargestFromInv == LifecycleInv => ThresholdIsLargest
  <1> SUFFICES ASSUME LifecycleInv, NEW m \in Metrics
               PROVE  LET recorded == {learning[d].upd : d \in {x \in Decisions :
                                          /\ MetricOf[x] = m
                                          /\ learning[x] # None /\ learning[x].kind = "approved"}}
                      IN  IF recorded = {} THEN thresholds[m] = None
                          ELSE /\ thresholds[m] \in recorded
                               /\ \A u \in recorded : u <= thresholds[m]
    BY DEF ThresholdIsLargest
  <1> DEFINE recorded == {learning[d].upd : d \in {x \in Decisions :
                             /\ MetricOf[x] = m
                             /\ learning[x] # None /\ learning[x].kind = "approved"}}
  <1>1. thresholds[m] # None => thresholds[m] \in recorded
    BY DEF LifecycleInv, ThresholdIsLearned
  <1>2. \A u \in recorded : thresholds[m] # None /\ u <= thresholds[m]
    BY DEF LifecycleInv, ThresholdCovers
  <1> HIDE DEF recorded
  <1>3. IF recorded = {} THEN thresholds[m] = None
        ELSE thresholds[m] \in recorded /\ \A u \in recorded : u <= thresholds[m]
    BY <1>1, <1>2
  <1> QED
    BY <1>3 DEF recorded

-----------------------------------------------------------------------------
\* What every reachable state of the approval loop satisfies: the tables agree, and
\* whatever copy a request still holds can be written back without harm.
THEOREM LifecycleInvariant == Spec => []LifecycleInv
  BY InitInv, StepInv, PTL DEF Spec

\* Every table and every local of a request keeps its type: no handler meets a
\* missing row, task or event where it does not look for one.
THEOREM TypeCorrect == Spec => []TypeOK
  <1>1. LifecycleInv => TypeOK
    BY DEF LifecycleInv
  <1> QED
    BY <1>1, LifecycleInvariant, PTL

\* Decision, learning event and task never contradict one another, whatever stale
\* payload a slow approval or a re-run cascade writes.
THEOREM ConsequencesAlwaysMatch == Spec => []ConsequencesMatch
  <1>1. LifecycleInv => ConsequencesMatch
    BY DEF LifecycleInv
  <1> QED
    BY <1>1, LifecycleInvariant, PTL

\* What a 200 answer reported stays true, and so does every annotation on a
\* decision, for any number of racing approvals, rejections and completions.
THEOREM AnswersAndNotes == Spec => []AnswersAndNotesTrue
  <1>1. LifecycleInv => AnswersAndNotesTrue
    <2> SUFFICES ASSUME LifecycleInv PROVE AnswersSound /\ AnnotationsTrue
      BY DEF AnswersAndNotesTrue
    <2>1. AnnotationsTrue
      BY DEF LifecycleInv
    <2>2. AnswersSound
      BY DEF LifecycleInv, Told, AnswersSound, Settled
    <2> QED
      BY <2>1, <2>2
  <1> QED
    BY <1>1, LifecycleInvariant, PTL

\* A threshold is the largest of the approved outcomes on record: racing approvals
\* neither lower it nor leave a loser's value in it.
THEOREM ThresholdAlwaysLargest == Spec => []ThresholdIsLargest
  BY LifecycleInvariant, LargestFromInv, PTL

-----------------------------------------------------------------------------
(* The requests implement the approval loop. *)

Implements == [Contract!Next]_(Contract!loop)

\* The abstract decision and the abstract lesson of a row and of an event.
AsDecision(p) == IF p = None THEN None ELSE [status |-> p.status, content |-> p.content]
AsLesson(e) == IF e = None THEN None ELSE e.kind

\* Writing a payload over an open decision proposes, revises or decides it; over a
\* settled one it changes nothing the contract sees.
LEMMA RowImplements ==
    ASSUME StoresOK, NEW d \in Decisions, NEW p \in Payload,
           Settled(d) => p.status = row[d].status /\ p.content = row[d].content,
           row' = [row EXCEPT ![d] = p], UNCHANGED <<learning, tasks>>
    PROVE  Implements
  <1> USE LifecycleAssumption
  <1> DEFINE old == [x \in Decisions |-> AsDecision(row[x])]
             new == [x \in Decisions |-> AsDecision(row'[x])]
  <1>1. new = [old EXCEPT ![d] = [status |-> p.status, content |-> p.content]]
    BY DEF StoresOK, AsDecision
  <1>2. p.status \in Status /\ p.content \in Contents /\ p # None
    BY DEF Payload
  <1>3. CASE Settled(d)
    <2>1. new = old
      <3>1. \A x \in Decisions : AsDecision(row'[x]) = AsDecision(row[x])
        BY <1>2, <1>3 DEF StoresOK, AsDecision, Settled
      <3> QED
        BY <3>1
    <2> QED
      BY <2>1 DEF Implements, Contract!loop, AsDecision
  <1>4. CASE ~ Settled(d)
    <2>1. old[d] = None \/ old[d].status = "pending"
      BY <1>4 DEF StoresOK, AsDecision, Settled, Payload, Status
    <2>2. CASE p.status = "pending"
      <3>1. Contract!Propose(d, p.content)
        BY <1>1, <2>1, <2>2 DEF Contract!Propose, Contract!Open, AsDecision
      <3> QED
        BY <1>2, <3>1 DEF Implements, Contract!Next
    <2>3. CASE p.status # "pending"
      <3>1. Contract!Decide(d, p.content, p.status)
        BY <1>1, <2>1 DEF Contract!Decide, Contract!Open, AsDecision
      <3>2. p.status \in Contract!Terminal
        BY <1>2, <2>3 DEF Contract!Terminal, Status, Terminal
      <3> QED
        BY <1>2, <3>1, <3>2 DEF Implements, Contract!Next
    <2> QED
      BY <2>2, <2>3
  <1> QED
    BY <1>3, <1>4

\* A settled row is a settled decision of the loop.
LEMMA SettledIsClosed ==
    ASSUME StoresOK, NEW d \in Decisions, Settled(d) PROVE ~ Contract!Open(d)
  <1>1. [status |-> row[d].status, content |-> row[d].content] # None
    BY LifecycleAssumption DEF StoresOK, Settled, Payload
  <1> QED
    BY <1>1 DEF Contract!Open, Settled, Terminal

\* The first event of a settled decision teaches its verdict; a later one is ignored.
LEMMA EventImplements ==
    ASSUME StoresOK, NEW d \in Decisions, NEW e \in Event, Settled(d), e.kind = row[d].status,
           learning[d] # None => e = learning[d],
           learning' = [learning EXCEPT ![d] = e], UNCHANGED <<row, tasks>>
    PROVE  Implements
  <1> USE LifecycleAssumption
  <1> DEFINE old == [x \in Decisions |-> AsLesson(learning[x])]
             new == [x \in Decisions |-> AsLesson(learning'[x])]
  <1>1. new = [old EXCEPT ![d] = e.kind]
    BY DEF StoresOK, AsLesson
  <1>2. CASE learning[d] # None
    <2>1. learning' = learning
      BY <1>2 DEF StoresOK
    <2> QED
      BY <2>1 DEF Implements, Contract!loop
  <1>3. CASE learning[d] = None
    <2>1. Contract!Learn(d)
      <3>1. old[d] = None
        BY <1>3 DEF AsLesson
      <3>2. ~ Contract!Open(d)
        BY SettledIsClosed
      <3> QED
        BY <1>1, <3>1, <3>2 DEF Contract!Learn, AsLesson, Settled
    <2> QED
      BY <2>1 DEF Implements, Contract!Next
  <1> QED
    BY <1>2, <1>3

\* The first task of an approved decision files it.
LEMMA FileImplements ==
    ASSUME StoresOK, NEW d \in Decisions, Settled(d), row[d].status = "approved",
           tasks[d] = None,
           tasks' = [tasks EXCEPT ![d] = [action |-> row[d].content, receipt |-> None]],
           UNCHANGED <<row, learning>>
    PROVE  Implements
  <1>1. ~ Contract!Open(d)
    BY SettledIsClosed
  <1>2. Contract!File(d)
    BY <1>1 DEF Contract!File, Settled
  <1> QED
    BY <1>2 DEF Implements, Contract!Next

\* The first receipt completes the task; the same one again changes nothing.
LEMMA CompleteImplements ==
    ASSUME StoresOK, NEW d \in Decisions, NEW r \in Receipts, tasks[d] # None,
           tasks[d].receipt \in {None, r},
           tasks' = [tasks EXCEPT ![d].receipt = r], UNCHANGED <<row, learning>>
    PROVE  Implements
  <1>1. CASE tasks[d].receipt = None
    <2>1. Contract!Complete(d, r)
      BY <1>1 DEF Contract!Complete
    <2> QED
      BY <2>1 DEF Implements, Contract!Next
  <1>2. CASE tasks[d].receipt = r
    <2>1. tasks[d] \in Task
      BY DEF StoresOK
    <2>2. [tasks[d] EXCEPT !.receipt = r] = tasks[d]
      BY <1>2, <2>1 DEF Task
    <2>3. tasks' = tasks
      BY <2>2 DEF StoresOK
    <2> QED
      BY <2>3 DEF Implements, Contract!loop
  <1> QED
    BY <1>1, <1>2

\* Steps that touch neither decisions nor events nor tasks are invisible.
LEMMA Invisible == UNCHANGED <<row, learning, tasks>> => Implements
  BY DEF Implements, Contract!loop

\* Every step of a request is a step of the loop or invisible.
LEMMA StepImplements == LifecycleInv /\ [Next]_vars => Implements
  <1> SUFFICES ASSUME LifecycleInv, [Next]_vars PROVE Implements
    OBVIOUS
  <1> USE LifecycleAssumption
  <1>0. StoresOK /\ LocalsOK /\ StoresAgree
    BY Parts
  <1>1. ASSUME NEW t \in Threads, Serve(t) PROVE Implements
    <2>0. Backed(t) /\ D(t) \in Decisions /\ call[t] \in Call
      BY Parts
    <2>1. CASE Upsert(t)
      <3>1. CASE Settled(D(t))
        BY <2>1, <3>1, Invisible DEF Upsert
      <3>2. CASE ~ Settled(D(t))
        <4>1. rec[t] \in Payload /\ row' = [row EXCEPT ![D(t)] = rec[t]] /\ UNCHANGED <<learning, tasks>>
          BY <2>0, <2>1, <3>2 DEF Upsert, At, Backed, Deciding, Clean
        <4> QED
          BY <1>0, <2>0, <3>2, <4>1, RowImplements
      <3> QED
        BY <3>1, <3>2
    <2>2. CASE TransitionPut(t)
      <3>1. CASE Pending(D(t))
        <4>1. ~ Settled(D(t))
          BY <3>1 DEF Pending, Settled, Terminal
        <4>2. rec[t] \in Payload /\ row' = [row EXCEPT ![D(t)] = rec[t]] /\ UNCHANGED <<learning, tasks>>
          BY <2>0, <2>2, <3>1 DEF TransitionPut, At, Backed, Deciding, Clean
        <4> QED
          BY <1>0, <2>0, <4>1, <4>2, RowImplements
      <3>2. CASE ~ Pending(D(t))
        BY <2>2, <3>2, Invisible DEF TransitionPut
      <3> QED
        BY <3>1, <3>2
    <2>3. CASE AnnotatePut(t) \/ CorrectPut(t) \/ VerifyPut(t)
      <3>1. Current(D(t), rec[t])
        BY <2>0, <2>3 DEF AnnotatePut, CorrectPut, VerifyPut, At, Backed, Annotating
      <3>2. /\ rec[t] \in Payload /\ row' = [row EXCEPT ![D(t)] = rec[t]] /\ UNCHANGED <<learning, tasks>>
            /\ rec[t].status = row[D(t)].status /\ rec[t].content = row[D(t)].content
        BY <2>3, <3>1 DEF AnnotatePut, CorrectPut, VerifyPut, Current
      <3> QED
        BY <1>0, <2>0, <3>2, RowImplements
    <2>4. CASE LearnCommit(t)
      <3> DEFINE m == MetricOf[D(t)]
                 final == IF thresholds[m] = None THEN ev[t].upd ELSE Larger(thresholds[m], ev[t].upd)
                 stored == IF learning[D(t)] # None THEN learning[D(t)]
                                                    ELSE [ev[t] EXCEPT !.upd = final]
      <3>1. /\ learning' = [learning EXCEPT ![D(t)] = stored] /\ UNCHANGED <<row, tasks>>
            /\ Current(D(t), rec[t]) /\ rec[t].status = "approved"
            /\ ev[t] \in Event /\ ev[t].kind = "approved"
        BY <2>0, <2>4 DEF LearnCommit, At, Backed, Approving, Learning
      <3>2. Settled(D(t)) /\ row[D(t)].status = "approved"
        BY <3>1 DEF Current
      <3>3. final \in Nat
        BY <1>0, <2>0, <3>1 DEF StoresOK, Event, Larger
      <3> HIDE DEF final
      <3>4. /\ stored \in Event /\ stored.kind = "approved"
            /\ learning[D(t)] # None => stored = learning[D(t)]
        BY <1>0, <2>0, <3>1, <3>2, <3>3 DEF StoresOK, Event, StoresAgree, ConsequencesMatch
      <3> HIDE DEF stored
      <3> QED
        BY <1>0, <2>0, <3>1, <3>2, <3>4, EventImplements
    <2>5. CASE RejectInsert(t)
      <3> DEFINE stored == IF learning[D(t)] # None THEN learning[D(t)] ELSE Rejection
      <3>1. /\ learning' = [learning EXCEPT ![D(t)] = stored] /\ UNCHANGED <<row, tasks>>
            /\ Settled(D(t)) /\ row[D(t)].status = "rejected"
        BY <2>0, <2>5 DEF RejectInsert, At, Backed, Rejecting
      <3>2. /\ stored \in Event /\ stored.kind = "rejected"
            /\ learning[D(t)] # None => stored = learning[D(t)]
        BY <1>0, <2>0, <3>1 DEF StoresOK, Event, Terminal, StoresAgree, ConsequencesMatch, Rejection
      <3> HIDE DEF stored
      <3> QED
        BY <1>0, <2>0, <3>1, <3>2, EventImplements
    <2>6. CASE FilePut(t)
      <3>1. CASE tasks[D(t)] # None
        BY <2>6, <3>1, Invisible DEF FilePut
      <3>2. CASE tasks[D(t)] = None
        <4>1. Current(D(t), rec[t]) /\ rec[t].status = "approved"
          BY <2>0, <2>6 DEF FilePut, At, Backed, Approving, Learning
        <4>2. /\ tasks' = [tasks EXCEPT ![D(t)] = [action |-> row[D(t)].content, receipt |-> None]]
              /\ Settled(D(t)) /\ row[D(t)].status = "approved" /\ UNCHANGED <<row, learning>>
          BY <2>6, <3>2, <4>1 DEF FilePut, Current
        <4> QED
          BY <1>0, <2>0, <3>2, <4>2, FileImplements
      <3> QED
        BY <3>1, <3>2
    <2>7. CASE CompleteTask(t)
      <3>1. call[t].receipt \in Receipts /\ tasks[D(t)] # None
        BY <2>0, <2>7 DEF CompleteTask, At, Backed, Completing
      <3>2. CASE tasks[D(t)].receipt \in {None, call[t].receipt}
        BY <1>0, <2>0, <2>7, <3>1, <3>2, CompleteImplements DEF CompleteTask
      <3>3. CASE tasks[D(t)].receipt \notin {None, call[t].receipt}
        BY <2>7, <3>3, Invisible DEF CompleteTask
      <3> QED
        BY <3>2, <3>3
    <2>8. CASE \/ TransitionGet(t) \/ Reread(t) \/ LearnCheck(t) \/ LearnLock(t) \/ FileGet(t)
               \/ AnnotateGet(t) \/ CorrectGet(t) \/ RejectCheck(t) \/ Vacate(t) \/ Fill(t) \/ VerifyGet(t)
      BY <2>8, Invisible DEF TransitionGet, Reread, LearnCheck, LearnLock, FileGet, AnnotateGet,
         CorrectGet, RejectCheck, Vacate, Fill, VerifyGet, stores
    <2> QED
      BY <1>1, <2>1, <2>2, <2>3, <2>4, <2>5, <2>6, <2>7, <2>8 DEF Serve
  <1>2. ASSUME NEW t \in Threads, Arrive(t) \/ Crash(t) PROVE Implements
    BY <1>2, Invisible DEF Arrive, Propose, Review, Complete, Crash, stores
  <1>3. CASE UNCHANGED vars
    BY <1>3, Invisible DEF vars
  <1> QED
    BY <1>1, <1>2, <1>3 DEF Next

\* The requests, however they interleave and wherever they are cut short, implement
\* the approval loop: one verdict per decision, learned as what it is, one task for
\* the approved content, one receipt.
THEOREM ContractImplemented == Spec => ApprovalContract
  <1>1. Init => Contract!Init
    BY DEF Init, Contract!Init
  <1> QED
    BY <1>1, LifecycleInvariant, StepImplements, PTL
       DEF Spec, Implements, ApprovalContract, Contract!Spec


-----------------------------------------------------------------------------
(* The shakedown of a deployed stack (DeploymentShakedown). *)

CONSTANTS Configs, DecisionIds, MaxBad
VARIABLES setup, step, polls, round, pending, failures, tally, decisions, verdict, bad, answers

Shakedown == INSTANCE DeploymentShakedown

\* The requests of a run, and where it may stand.
Requested == {"health", "frontend", "session", "readiness", "scenario", "approve", "reject", "chat",
              "replay", "decisions", "learning", "writeback", "observability"}
Bodies == SUBSET {"ok", "cookie", "tenant", "ready", "jwt", "secret", "amd", "same", "status",
                  "learning", "moved", "text", "correlation", "fresh", "provider", "model",
                  "named", "replayed", "list", "events", "pending"}
Opening == {"health", "frontend", "session", "readiness"}
Answered == [status : {"2xx", "5xx", "503", "timeout", "error"}, body : Bodies]
Entries == [to : Requested, of : DecisionIds \union {None}, answer : Answered]
Tallies == [approvals : Nat, rejections : Nat, mismatches : Nat, expected_learning : Nat,
            observed_learning : Nat, calls : Nat, model_answers : Nat, fallback_answers : Nat,
            fail_closed_answers : Nat, replay_checks : Nat, replay_matches : Nat, posts : Nat]

AllNew(ids) == \A k, l \in DOMAIN ids : ids[k] = ids[l] => k = l
Posted == {i \in Shakedown!To({"scenario"}) : Shakedown!Ok(answers[i].answer)}
Resolving == step \in {"approve", "reject"}

\* The variables have their types; no decision is asked for before readiness, and what is
\* left of the polls and the cycles is not negative.
RunTyped ==
    /\ Shakedown!TypeOK
    /\ answers \in Seq(Entries) /\ pending \in DecisionIds \union {None} /\ tally \in Tallies
    /\ step \in Requested \union {"verdict", "over"}
    /\ step = "health" => polls < setup.polls
    /\ step = "scenario" => round < setup.cycles
    /\ step \in Opening => round = 0 /\ Shakedown!To({"scenario"}) = {}

\* What an answer is when it was recorded as no failure.
Acceptable(x, live_required) ==
    /\ \/ Shakedown!Ok(x.answer)
       \/ x.to \in {"health", "frontend"} /\ x.answer.status = "5xx"
       \/ x.to = "chat" /\ x.answer.status = "503" /\ ~live_required
    /\ x.to \in {"approve", "reject"} => {"same", "status"} \subseteq x.answer.body
    /\ x.to = "approve" => "learning" \in x.answer.body
    /\ x.to = "chat" /\ live_required => {"model", "provider"} \subseteq x.answer.body
    /\ x.to = "chat" /\ Shakedown!Ok(x.answer) => "fresh" \in x.answer.body
    /\ x.to = "replay" => "replayed" \in x.answer.body
    /\ x.to = "learning" => "events" \in x.answer.body

\* As long as nothing was recorded as a failure: the answers are acceptable, the stack came
\* up, every decision is of the session's tenant and was resolved or is about to be, and
\* every chat was replayed or is about to be.
Untroubled ==
    failures = {} =>
      /\ \A i \in DOMAIN answers : Acceptable(answers[i], setup.live_required)
      /\ step # "health" => \E i \in Shakedown!To({"health"}) : "ok" \in Shakedown!Body(i)
      /\ \A i \in Shakedown!To({"scenario"}) :
            /\ Shakedown!TenantKnown => "tenant" \in Shakedown!Body(i)
            /\ \E k \in DOMAIN decisions : decisions[k] = answers[i].of
      /\ AllNew(decisions) =>
            \A i, j \in Shakedown!To({"scenario"}) : answers[i].of = answers[j].of => i = j
      /\ Cardinality(Shakedown!To({"approve", "reject"})) + Shakedown!One(Resolving)
            = Cardinality(Shakedown!To({"scenario"}))
      /\ \A i \in Shakedown!To({"chat"}) : Shakedown!Ok(answers[i].answer) =>
            \/ i + 1 \in Shakedown!To({"replay"})
            \/ i = Len(answers) /\ step = "replay"

\* What is counted, with the decision and the replay that are still to come.
Counted ==
    /\ tally.approvals + tally.rejections + tally.mismatches + Shakedown!One(Resolving)
          = Len(decisions)
    /\ tally.observed_learning <= tally.expected_learning
    /\ tally.expected_learning <= tally.approvals
    /\ tally.model_answers + tally.fallback_answers = tally.calls
    /\ tally.replay_checks + Shakedown!One(step = "replay") = tally.calls
    /\ tally.posts = Cardinality(Posted)

\* A stack with no bad answer gives no reason to fail it.
Spotless ==
    bad = 0 =>
      /\ failures = {} /\ AllNew(decisions)
      /\ tally.replay_checks = tally.replay_matches /\ tally.fallback_answers = 0

\* The verdict is the last step, and follows from what was recorded.
Concluded == verdict # None =>
    /\ step = "over" /\ (verdict.verdict = "PASS" => failures = {} /\ AllNew(decisions))
    /\ bad = 0 => verdict.verdict = "PASS"

\* The inductive invariant.
ShakedownInv == RunTyped /\ Untroubled /\ Counted /\ Spotless /\ Concluded

\* The shakedown counts with the same Cardinality.
LEMMA ShakedownCounts == \A S : Shakedown!Cardinality(S) = Cardinality(S)
  BY DEF Shakedown!Cardinality, Cardinality

\* The set of the values of a sequence has as many elements as the sequence exactly when
\* they differ.
LEMMA DistinctValues ==
    ASSUME NEW S, NEW ids \in Seq(S)
    PROVE  Cardinality({ids[i] : i \in DOMAIN ids}) = Len(ids) <=> AllNew(ids)
  <1> DEFINE T == {ids[i] : i \in DOMAIN ids}
             n == Len(ids)
  <1>1. n \in Nat /\ DOMAIN ids = 1 .. n /\ ids \in [1 .. n -> S]
    OBVIOUS
  <1>2. ids \in Surjection(1 .. n, T)
    <2>1. ids \in [1 .. n -> T]
      BY <1>1
    <2> QED
      BY <2>1, <1>1 DEF Surjection
  <1>3. IsFiniteSet(1 .. n) /\ Cardinality(1 .. n) = n
    BY <1>1, FS_Interval
  <1>4. Cardinality(T) = n <=> ids \in Injection(1 .. n, T)
    BY <1>2, <1>3, FS_Surjection
  <1>5. ids \in Injection(1 .. n, T) <=> AllNew(ids)
    BY <1>1, <1>2 DEF Injection, Surjection, IsInjective, AllNew
  <1> QED
    BY <1>4, <1>5

\* The positions of some kinds of request in a longer record.
LEMMA AnswersGrow ==
    ASSUME answers \in Seq(Entries), NEW x \in Entries, answers' = Append(answers, x)
    PROVE  /\ answers' \in Seq(Entries)
           /\ Len(answers)' = Len(answers) + 1 /\ Len(answers) \in Nat
           /\ DOMAIN answers = 1 .. Len(answers) /\ DOMAIN answers' = 1 .. Len(answers) + 1
           /\ \A i \in DOMAIN answers : i \in DOMAIN answers' /\ answers'[i] = answers[i]
           /\ answers'[Len(answers) + 1] = x
           /\ \A kinds : Shakedown!To(kinds)' =
                 Shakedown!To(kinds) \union IF x.to \in kinds THEN {Len(answers) + 1} ELSE {}
  <1>1. /\ answers' \in Seq(Entries)
        /\ Len(answers)' = Len(answers) + 1 /\ Len(answers) \in Nat
        /\ DOMAIN answers = 1 .. Len(answers) /\ DOMAIN answers' = 1 .. Len(answers) + 1
        /\ \A i \in DOMAIN answers : i \in DOMAIN answers' /\ answers'[i] = answers[i]
        /\ answers'[Len(answers) + 1] = x
    OBVIOUS
  <1>2. ASSUME NEW kinds
        PROVE  Shakedown!To(kinds)' =
                 Shakedown!To(kinds) \union IF x.to \in kinds THEN {Len(answers) + 1} ELSE {}
    BY <1>1 DEF Shakedown!To
  <1> QED
    BY <1>1, <1>2

\* The positions are finitely many, and so are those of the decisions asked for.
LEMMA FinitelyMany ==
    ASSUME answers \in Seq(Entries), NEW kinds
    PROVE  /\ Shakedown!To(kinds) \subseteq 1 .. Len(answers) /\ IsFiniteSet(Shakedown!To(kinds))
           /\ Posted \subseteq 1 .. Len(answers) /\ IsFiniteSet(Posted)
           /\ Cardinality(Shakedown!To(kinds)) \in Nat /\ Cardinality(Posted) \in Nat
  <1>1. Len(answers) \in Nat /\ DOMAIN answers = 1 .. Len(answers)
    OBVIOUS
  <1>2. IsFiniteSet(1 .. Len(answers))
    BY <1>1, FS_Interval
  <1>3. Shakedown!To(kinds) \subseteq 1 .. Len(answers) /\ Posted \subseteq 1 .. Len(answers)
    BY <1>1 DEF Shakedown!To, Posted
  <1>4. IsFiniteSet(Shakedown!To(kinds)) /\ IsFiniteSet(Posted)
    BY <1>2, <1>3, FS_Subset
  <1> QED
    BY <1>3, <1>4, FS_CardinalityType

\* One answer more is counted once.
LEMMA CountedOnce ==
    ASSUME answers \in Seq(Entries), NEW x \in Entries, answers' = Append(answers, x)
    PROVE  /\ \A kinds : Cardinality(Shakedown!To(kinds)') =
                 Cardinality(Shakedown!To(kinds)) + Shakedown!One(x.to \in kinds)
           /\ Cardinality(Posted') =
                 Cardinality(Posted) + Shakedown!One(x.to = "scenario" /\ Shakedown!Ok(x.answer))
  <1> DEFINE n == Len(answers) + 1
  <1>1. ASSUME NEW kinds
        PROVE  Cardinality(Shakedown!To(kinds)') =
                 Cardinality(Shakedown!To(kinds)) + Shakedown!One(x.to \in kinds)
    <2>1. n \notin Shakedown!To(kinds) /\ IsFiniteSet(Shakedown!To(kinds))
          /\ Cardinality(Shakedown!To(kinds)) \in Nat
      BY FinitelyMany
    <2>2. Shakedown!To(kinds)' = Shakedown!To(kinds) \union IF x.to \in kinds THEN {n} ELSE {}
      BY AnswersGrow
    <2>3. CASE x.to \in kinds
      BY <2>1, <2>2, <2>3, FS_AddElement DEF Shakedown!One
    <2>4. CASE x.to \notin kinds
      BY <2>1, <2>2, <2>4 DEF Shakedown!One
    <2> QED
      BY <2>3, <2>4
  <1>2. Cardinality(Posted') =
           Cardinality(Posted) + Shakedown!One(x.to = "scenario" /\ Shakedown!Ok(x.answer))
    <2>1. n \notin Posted /\ IsFiniteSet(Posted) /\ Cardinality(Posted) \in Nat
      BY FinitelyMany
    <2>2. Posted' =
            Posted \union IF x.to = "scenario" /\ Shakedown!Ok(x.answer) THEN {n} ELSE {}
      BY AnswersGrow DEF Posted, Shakedown!Ok, Shakedown!To
    <2>3. CASE x.to = "scenario" /\ Shakedown!Ok(x.answer)
      BY <2>1, <2>2, <2>3, FS_AddElement DEF Shakedown!One
    <2>4. CASE ~(x.to = "scenario" /\ Shakedown!Ok(x.answer))
      <3>1. Posted' = Posted
        BY <2>2, <2>4
      <3>2. Shakedown!One(x.to = "scenario" /\ Shakedown!Ok(x.answer)) = 0
        BY <2>4 DEF Shakedown!One
      <3> QED
        BY <2>1, <3>1, <3>2
    <2> QED
      BY <2>3, <2>4
  <1> QED
    BY <1>1, <1>2

\* What a request is answered with.
LEMMA ReplyTyped ==
    ASSUME Shakedown!ShakedownAssumption, RunTyped, NEW to \in Requested \ {"scenario"}, NEW a,
           Shakedown!Reply(to, a)
    PROVE  /\ a \in Answered /\ step = to /\ verdict = None
           /\ [to |-> to, of |-> pending, answer |-> a] \in Entries
           /\ answers' = Append(answers, [to |-> to, of |-> pending, answer |-> a])
           /\ bad' \in 0 .. MaxBad /\ (bad' = 0 => bad = 0 /\ a = Shakedown!Good(to))
           /\ a.status = "503" => to = "chat"
           /\ a.body \subseteq Shakedown!GoodBody[to]
  <1>1. Shakedown!GoodBody[to] \in Bodies
    BY DEF Requested, Shakedown!GoodBody, Bodies
  <1>2. Shakedown!Good(to) \in Answered
    BY <1>1 DEF Shakedown!Good, Shakedown!Answer, Answered
  <1>3. \A r \in Shakedown!Worse(to) : r \in Answered
    <2>1. {} \in Bodies /\ \A b \in Bodies : \A e : b \ {e} \in Bodies
      BY DEF Bodies
    <2>2. \A r \in Shakedown!Broken \union {Shakedown!Answer("503", {})} : r \in Answered
      BY <2>1 DEF Shakedown!Broken, Shakedown!Answer, Answered
    <2>3. \A b \in Bodies : \A e : Shakedown!Answer("2xx", b \ {e}) \in Answered
      BY <2>1 DEF Shakedown!Answer, Answered
    <2> QED
      BY <1>1, <2>2, <2>3 DEF Shakedown!Worse
  <1>4. a \in Answered /\ pending \in DecisionIds \union {None}
    BY <1>2, <1>3 DEF Shakedown!Reply, RunTyped
  <1>5. bad \in 0 .. MaxBad /\ MaxBad \in Nat
    BY DEF RunTyped, Shakedown!TypeOK, Shakedown!ShakedownAssumption
  <1>6. bad' \in 0 .. MaxBad /\ (bad' = 0 => bad = 0 /\ a = Shakedown!Good(to))
    BY <1>5 DEF Shakedown!Reply
  <1>7. a.status = "503" => to = "chat"
    BY DEF Shakedown!Reply, Shakedown!Good, Shakedown!Worse, Shakedown!Broken, Shakedown!Answer
  <1>8. a.body \subseteq Shakedown!GoodBody[to]
    BY DEF Shakedown!Reply, Shakedown!Good, Shakedown!Worse, Shakedown!Broken, Shakedown!Answer
  <1> QED
    BY <1>4, <1>6, <1>7, <1>8 DEF Shakedown!Reply, Entries

\* A request other than for a decision: what was recorded says of its answer what the
\* invariant asks, and a good one gives nothing to record.
LEMMA RequestKeeps ==
    ASSUME Shakedown!ShakedownAssumption, ShakedownInv,
           NEW to \in Requested \ {"scenario"}, NEW a, Shakedown!Reply(to, a),
           NEW codes, Shakedown!Fails(codes),
           UNCHANGED <<setup, round, pending, decisions, verdict>>,
           polls' \in 0 .. setup.polls, tally' \in Tallies,
           step' \in Requested \union {"verdict"}, step' \notin {"approve", "reject"},
           step' = "health" => polls' < setup.polls,
           step' = "scenario" => round < setup.cycles,
           step' \in Opening => to \in Opening,
           codes = {} =>
             Acceptable([to |-> to, of |-> pending, answer |-> a], setup.live_required),
           codes = {} /\ to = "health" /\ step' # "health" => "ok" \in a.body,
           to = "chat" /\ Shakedown!Ok(a) => step' = "replay",
           a = Shakedown!Good(to) => codes = {}
    PROVE  /\ RunTyped' /\ Untroubled' /\ Concluded'
           /\ bad' = 0 => bad = 0 /\ a = Shakedown!Good(to) /\ failures' = {} /\ AllNew(decisions)'
  <1> DEFINE x == [to |-> to, of |-> pending, answer |-> a]
             n == Len(answers) + 1
  <1>1. /\ step = to /\ verdict = None /\ x \in Entries /\ answers' = Append(answers, x)
        /\ bad' \in 0 .. MaxBad /\ (bad' = 0 => bad = 0 /\ a = Shakedown!Good(to))
    BY ReplyTyped DEF ShakedownInv
  <1>2. x.to = to /\ x.answer = a /\ x.of = pending
    OBVIOUS
  <1>3. answers \in Seq(Entries) /\ Shakedown!TypeOK
    BY DEF ShakedownInv, RunTyped
  <1>4. /\ answers' \in Seq(Entries)
        /\ Len(answers)' = n /\ Len(answers) \in Nat
        /\ DOMAIN answers = 1 .. Len(answers) /\ DOMAIN answers' = 1 .. n
        /\ \A i \in DOMAIN answers : i \in DOMAIN answers' /\ answers'[i] = answers[i]
        /\ answers'[n] = x
    BY <1>1, <1>3, AnswersGrow
  <1>5. \A kinds : Shakedown!To(kinds)' =
                 Shakedown!To(kinds) \union IF to \in kinds THEN {n} ELSE {}
    BY <1>1, <1>2, <1>3, AnswersGrow
  <1>6. Shakedown!To({"scenario"})' = Shakedown!To({"scenario"})
    BY <1>5
  <1>7. RunTyped'
    BY <1>1, <1>3, <1>4, <1>6 DEF ShakedownInv, RunTyped, Shakedown!TypeOK, Opening
  <1>8. failures' = {} => failures = {} /\ codes = {}
    <2>1. \A c \in codes : [code |-> c, of |-> pending] \in failures'
      BY DEF Shakedown!Fails
    <2> QED
      BY <2>1 DEF Shakedown!Fails
  <1>9. ASSUME failures' = {} PROVE Untroubled'
    <2>1. Untroubled /\ failures = {} /\ codes = {}
      BY <1>8, <1>9 DEF ShakedownInv
    <2>2. \A i \in DOMAIN answers' : Acceptable(answers'[i], setup'.live_required)
      <3>1. \A i \in DOMAIN answers' : i \in DOMAIN answers \/ i = n
        BY <1>4
      <3>2. \A i \in DOMAIN answers : Acceptable(answers[i], setup.live_required)
        BY <2>1, <1>9 DEF Untroubled
      <3> QED
        BY <1>4, <2>1, <3>1, <3>2
    <2>3. step' # "health" => \E i \in Shakedown!To({"health"})' : "ok" \in Shakedown!Body(i)'
      <3>1. CASE to = "health"
        BY <1>2, <1>4, <1>5, <2>1, <3>1 DEF Shakedown!Body
      <3>2. CASE to # "health"
        <4>1. PICK i \in Shakedown!To({"health"}) : "ok" \in Shakedown!Body(i)
          BY <1>1, <2>1, <3>2, <1>9 DEF Untroubled
        <4>2. i \in Shakedown!To({"health"})' /\ answers'[i] = answers[i]
          BY <1>4, <1>5, <4>1 DEF Shakedown!To
        <4> QED
          BY <4>1, <4>2 DEF Shakedown!Body
      <3> QED
        BY <3>1, <3>2
    <2>4. \A i \in Shakedown!To({"scenario"}) :
             i \in DOMAIN answers /\ answers'[i] = answers[i]
      BY <1>4 DEF Shakedown!To
    <2>5. \A i \in Shakedown!To({"scenario"})' :
            /\ Shakedown!TenantKnown' => "tenant" \in Shakedown!Body(i)'
            /\ \E k \in DOMAIN decisions' : decisions'[k] = answers'[i].of
      <3>1. CASE to = "session"
        BY <1>1, <1>6, <3>1 DEF ShakedownInv, RunTyped, Opening
      <3>2. CASE to # "session"
        <4>1. Shakedown!TenantKnown' => Shakedown!TenantKnown
          BY <1>2, <1>4, <3>2 DEF Shakedown!TenantKnown
        <4> QED
          BY <1>6, <1>9, <2>1, <2>4, <4>1 DEF Untroubled, Shakedown!Body
      <3> QED
        BY <3>1, <3>2
    <2>6. AllNew(decisions)' =>
            \A i, j \in Shakedown!To({"scenario"})' : answers'[i].of = answers'[j].of => i = j
      BY <1>6, <2>1, <2>4 DEF Untroubled, AllNew
    <2>7. Cardinality(Shakedown!To({"approve", "reject"})') + Shakedown!One(Resolving)'
            = Cardinality(Shakedown!To({"scenario"})')
      <3>1. Cardinality(Shakedown!To({"approve", "reject"})) \in Nat
        BY <1>3, FinitelyMany
      <3>2. Cardinality(Shakedown!To({"approve", "reject"})') =
              Cardinality(Shakedown!To({"approve", "reject"})) + Shakedown!One(x.to \in {"approve", "reject"})
        BY <1>1, <1>3, CountedOnce
      <3>3. Shakedown!One(Resolving)' = 0
        BY DEF Shakedown!One, Resolving
      <3>4. Shakedown!One(Resolving) = Shakedown!One(x.to \in {"approve", "reject"})
        BY <1>1, <1>2 DEF Resolving
      <3>5. Cardinality(Shakedown!To({"approve", "reject"})) + Shakedown!One(Resolving)
              = Cardinality(Shakedown!To({"scenario"}))
        BY <2>1 DEF Untroubled
      <3>6. Shakedown!One(Resolving) \in Nat
        BY DEF Shakedown!One
      <3> QED
        BY <1>6, <3>1, <3>2, <3>3, <3>4, <3>5, <3>6
    <2>8. ASSUME NEW i \in Shakedown!To({"chat"})', Shakedown!Ok(answers'[i].answer)
          PROVE  \/ i + 1 \in Shakedown!To({"replay"})'
                 \/ i = Len(answers)' /\ step' = "replay"
      <3>1. i \in Shakedown!To({"chat"}) \/ (to = "chat" /\ i = n)
        BY <1>5, <2>8
      <3>2. CASE to = "chat" /\ i = n
        BY <1>2, <1>4, <2>8, <3>2 DEF Shakedown!Ok
      <3>3. CASE i \in Shakedown!To({"chat"})
        <4>1. i \in DOMAIN answers /\ answers'[i] = answers[i]
          BY <1>4, <3>3 DEF Shakedown!To
        <4>2. i + 1 \in Shakedown!To({"replay"}) \/ (i = Len(answers) /\ step = "replay")
          BY <2>1, <2>8, <3>3, <4>1, <1>9 DEF Untroubled
        <4> QED
          BY <1>1, <1>5, <4>2
      <3> QED
        BY <3>1, <3>2, <3>3
    <2> QED
      BY <2>2, <2>3, <2>5, <2>6, <2>7, <2>8 DEF Untroubled
  <1>10. Untroubled'
    BY <1>9 DEF Untroubled
  <1>11. Concluded'
    BY <1>1 DEF Concluded
  <1>12. bad' = 0 => failures' = {} /\ AllNew(decisions)'
    BY <1>1 DEF ShakedownInv, Spotless, AllNew, Shakedown!Fails
  <1> QED
    BY <1>1, <1>7, <1>10, <1>11, <1>12

\* When a check records nothing (TransportCode, RouteFailure).
LEMMA NoCode ==
    ASSUME NEW a
    PROVE  /\ Shakedown!TransportCode(a) = {} <=> a.status \notin {"timeout", "error"}
           /\ \A code : Shakedown!RouteFailure(a, code) = {} <=> Shakedown!Ok(a)
           /\ \A part, code : Shakedown!Without(a, part, code) = {} <=> part \in a.body
  <1>1. Shakedown!TransportCode(a) = {} <=> a.status \notin {"timeout", "error"}
    BY DEF Shakedown!TransportCode
  <1>2. \A code : Shakedown!RouteFailure(a, code) = {} <=> Shakedown!Ok(a)
    BY DEF Shakedown!RouteFailure, Shakedown!TransportCode, Shakedown!Ok
  <1>3. \A part, code : Shakedown!Without(a, part, code) = {} <=> part \in a.body
    BY DEF Shakedown!Without, Shakedown!If
  <1> QED
    BY <1>1, <1>2, <1>3

\* What a good answer is.
LEMMA GoodAnswer ==
    ASSUME NEW to \in Requested \ {"scenario"}
    PROVE  /\ Shakedown!Ok(Shakedown!Good(to)) /\ Shakedown!Good(to).status = "2xx"
           /\ Shakedown!Good(to).body = Shakedown!GoodBody[to]
  BY DEF Shakedown!Good, Shakedown!Answer, Shakedown!Ok

\* A request that counts nothing keeps the counts.
LEMMA TallyKept ==
    ASSUME ShakedownInv, NEW x \in Entries, answers' = Append(answers, x), x.to # "scenario",
           UNCHANGED <<tally, decisions>>,
           step \notin {"approve", "reject", "replay"}, step' \notin {"approve", "reject", "replay"}
    PROVE  Counted'
  <1>1. answers \in Seq(Entries) /\ tally \in Tallies
    BY DEF ShakedownInv, RunTyped
  <1>2. Cardinality(Posted) \in Nat
    BY <1>1, FinitelyMany
  <1>3. Cardinality(Posted') = Cardinality(Posted) + Shakedown!One(x.to = "scenario" /\ Shakedown!Ok(x.answer))
    BY <1>1, CountedOnce
  <1>4. Shakedown!One(x.to = "scenario" /\ Shakedown!Ok(x.answer)) = 0
    BY DEF Shakedown!One
  <1>5. Cardinality(Posted') = Cardinality(Posted)
    BY <1>2, <1>3, <1>4
  <1>6. /\ Shakedown!One(Resolving) = 0 /\ Shakedown!One(Resolving)' = 0
        /\ Shakedown!One(step = "replay") = 0 /\ Shakedown!One(step = "replay")' = 0
    BY DEF Shakedown!One, Resolving
  <1> QED
    BY <1>5, <1>6 DEF ShakedownInv, Counted

\* The polls, however many fail (_poll_health).
LEMMA PollHealthKeeps ==
    ASSUME Shakedown!ShakedownAssumption, ShakedownInv, Shakedown!PollHealth
    PROVE  ShakedownInv'
  <1> DEFINE up(a) == Shakedown!Ok(a) /\ "ok" \in a.body
             codes(a) == Shakedown!TransportCode(a)
                \union Shakedown!If(a.status = "timeout", "startup_timeout")
                \union Shakedown!If(~up(a) /\ polls + 1 = setup.polls, "startup_deadline_exceeded")
  <1>1. PICK a : /\ Shakedown!Reply("health", a) /\ Shakedown!Fails(codes(a)) /\ polls' = polls + 1
                 /\ step' = IF up(a) \/ polls + 1 = setup.polls THEN "frontend" ELSE "health"
                 /\ UNCHANGED <<setup, round, pending, tally, decisions, verdict>>
    BY DEF Shakedown!PollHealth
  <1>2. setup.polls \in Nat /\ polls \in 0 .. setup.polls /\ tally \in Tallies
    BY DEF ShakedownInv, RunTyped, Shakedown!TypeOK, Shakedown!ShakedownAssumption
  <1>3. "health" \in Requested \ {"scenario"}
    BY DEF Requested
  <1>4. /\ a \in Answered /\ step = "health" /\ (a.status = "503" => "health" = "chat")
        /\ [to |-> "health", of |-> pending, answer |-> a] \in Entries
        /\ answers' = Append(answers, [to |-> "health", of |-> pending, answer |-> a])
    BY <1>1, <1>3, ReplyTyped DEF ShakedownInv
  <1>5. polls < setup.polls
    BY <1>4 DEF ShakedownInv, RunTyped
  <1>6. codes(a) = {} => a.status \in {"2xx", "5xx"}
    BY <1>4, NoCode DEF Answered
  <1>7. codes(a) = {} => Acceptable([to |-> "health", of |-> pending, answer |-> a], setup.live_required)
    BY <1>6 DEF Acceptable, Shakedown!Ok
  <1>8. codes(a) = {} /\ step' # "health" => "ok" \in a.body
    BY <1>1 DEF Shakedown!If
  <1>9. a = Shakedown!Good("health") => codes(a) = {}
    <2>1. Shakedown!GoodBody["health"] = {"ok"}
      BY DEF Shakedown!GoodBody
    <2>2. a = Shakedown!Good("health") => up(a) /\ a.status = "2xx"
      BY <1>3, <2>1, GoodAnswer
    <2> QED
      BY <2>2, NoCode DEF Shakedown!If
  <1>10. step' \in {"health", "frontend"} /\ (step' = "health" => polls' < setup.polls)
         /\ polls' \in 0 .. setup.polls
    BY <1>1, <1>2, <1>5
  <1> HIDE DEF codes, up
  <1>11. /\ RunTyped' /\ Untroubled' /\ Concluded'
         /\ bad' = 0 => bad = 0 /\ failures' = {} /\ AllNew(decisions)'
    BY <1>1, <1>2, <1>3, <1>7, <1>8, <1>9, <1>10, RequestKeeps
      DEF Requested, Opening
  <1>12. Counted'
    BY <1>1, <1>4, <1>10, TallyKept
  <1>13. Spotless'
    BY <1>1, <1>11 DEF ShakedownInv, Spotless
  <1> QED
    BY <1>11, <1>12, <1>13 DEF ShakedownInv

\* A request that only says what is next, and what failed, keeps the invariant.
LEMMA QuietKeeps ==
    ASSUME Shakedown!ShakedownAssumption, ShakedownInv,
           NEW to \in {"frontend", "session", "readiness", "decisions", "learning", "writeback",
                       "observability"},
           NEW a, Shakedown!Reply(to, a), NEW codes, Shakedown!Fails(codes),
           UNCHANGED <<setup, polls, round, pending, tally, decisions, verdict>>,
           step' \in {"session", "readiness", "scenario", "learning", "writeback", "observability",
                      "verdict"},
           step' = "session" => to = "frontend", step' = "readiness" => to = "session",
           step' = "scenario" => to = "readiness",
           codes = {} => Acceptable([to |-> to, of |-> pending, answer |-> a], setup.live_required),
           a = Shakedown!Good(to) => codes = {}
    PROVE  ShakedownInv'
  <1>1. to \in Requested \ {"scenario"}
    BY DEF Requested
  <1>2. /\ setup.cycles \in Nat \ {0} /\ polls \in 0 .. setup.polls /\ tally \in Tallies
    BY DEF ShakedownInv, RunTyped, Shakedown!TypeOK, Shakedown!ShakedownAssumption
  <1>3. /\ a \in Answered /\ step = to
        /\ [to |-> to, of |-> pending, answer |-> a] \in Entries
        /\ answers' = Append(answers, [to |-> to, of |-> pending, answer |-> a])
    BY <1>1, ReplyTyped DEF ShakedownInv
  <1>4. step' = "scenario" => round < setup.cycles
    BY <1>2, <1>3 DEF ShakedownInv, RunTyped, Opening
  <1>5. /\ RunTyped' /\ Untroubled' /\ Concluded'
        /\ bad' = 0 => bad = 0 /\ failures' = {} /\ AllNew(decisions)'
    BY <1>1, <1>2, <1>4, RequestKeeps DEF Requested, Opening
  <1>6. Counted'
    BY <1>3, TallyKept
  <1>7. Spotless'
    BY <1>5 DEF ShakedownInv, Spotless
  <1> QED
    BY <1>5, <1>6, <1>7 DEF ShakedownInv

\* The page, the session and readiness (_session_context, _check_readiness).
LEMMA OpeningKeeps ==
    ASSUME Shakedown!ShakedownAssumption, ShakedownInv,
           Shakedown!Frontend \/ Shakedown!Session \/ Shakedown!Readiness
    PROVE  ShakedownInv'
  <1>1. CASE Shakedown!Frontend
    <2>1. PICK a : /\ Shakedown!Reply("frontend", a) /\ Shakedown!Fails(Shakedown!TransportCode(a))
                   /\ step' = "session"
                   /\ UNCHANGED <<setup, polls, round, pending, tally, decisions, verdict>>
      BY <1>1 DEF Shakedown!Frontend
    <2>2. a \in Answered /\ (a.status = "503" => "frontend" = "chat")
      BY <2>1, ReplyTyped DEF ShakedownInv, Requested
    <2>3. Shakedown!TransportCode(a) = {} =>
             Acceptable([to |-> "frontend", of |-> pending, answer |-> a], setup.live_required)
      BY <2>2, NoCode DEF Acceptable, Shakedown!Ok, Answered
    <2>4. a = Shakedown!Good("frontend") => Shakedown!TransportCode(a) = {}
      BY NoCode, GoodAnswer DEF Requested
    <2> QED
      BY <2>1, <2>3, <2>4, QuietKeeps
  <1>2. CASE Shakedown!Session
    <2> DEFINE codes(a) == Shakedown!RouteFailure(a, "session_route")
                              \union Shakedown!Without(a, "cookie", "cookie_missing")
    <2>1. PICK a : /\ Shakedown!Reply("session", a) /\ Shakedown!Fails(codes(a))
                   /\ step' = "readiness"
                   /\ UNCHANGED <<setup, polls, round, pending, tally, decisions, verdict>>
      BY <1>2 DEF Shakedown!Session
    <2>2. codes(a) = {} =>
             Acceptable([to |-> "session", of |-> pending, answer |-> a], setup.live_required)
      BY NoCode DEF Acceptable
    <2>3. a = Shakedown!Good("session") => codes(a) = {}
      <3>1. "cookie" \in Shakedown!GoodBody["session"]
        BY DEF Shakedown!GoodBody
      <3> QED
        BY <3>1, NoCode, GoodAnswer DEF Requested
    <2> HIDE DEF codes
    <2> QED
      BY <2>1, <2>2, <2>3, QuietKeeps
  <1>3. CASE Shakedown!Readiness
    <2> DEFINE codes(a) == Shakedown!RouteFailure(a, "readiness_route")
                 \union Shakedown!Without(a, "ready", "not_ready")
                 \union IF setup.live_required
                        THEN Shakedown!Without(a, "jwt", "not_jwt")
                             \union Shakedown!Without(a, "secret", "no_secret")
                             \union Shakedown!Without(a, "amd", "no_amd")
                        ELSE {}
    <2>1. PICK a : /\ Shakedown!Reply("readiness", a) /\ Shakedown!Fails(codes(a))
                   /\ step' \in {"scenario", "verdict"}
                   /\ UNCHANGED <<setup, polls, round, pending, tally, decisions, verdict>>
      BY <1>3 DEF Shakedown!Readiness
    <2>2. codes(a) = {} =>
             Acceptable([to |-> "readiness", of |-> pending, answer |-> a], setup.live_required)
      BY NoCode DEF Acceptable
    <2>3. a = Shakedown!Good("readiness") => codes(a) = {}
      <3>1. {"ready", "jwt", "secret", "amd"} \subseteq Shakedown!GoodBody["readiness"]
        BY DEF Shakedown!GoodBody
      <3> QED
        BY <3>1, NoCode, GoodAnswer DEF Requested
    <2> HIDE DEF codes
    <2> QED
      BY <2>1, <2>2, <2>3, QuietKeeps
  <1> QED
    BY <1>1, <1>2, <1>3

\* What the stack kept (_probe_state_routes).
LEMMA StateRouteKeeps ==
    ASSUME Shakedown!ShakedownAssumption, ShakedownInv,
           NEW to \in {"decisions", "learning", "writeback", "observability"},
           Shakedown!StateRoute(to)
    PROVE  ShakedownInv'
  <1> DEFINE codes(a) == Shakedown!StateFailures(to, a)
  <1>1. PICK a : /\ Shakedown!Reply(to, a) /\ Shakedown!Fails(codes(a))
                 /\ step' = Shakedown!AfterState[to]
                 /\ UNCHANGED <<setup, polls, round, pending, tally, decisions, verdict>>
    BY DEF Shakedown!StateRoute
  <1>2. Shakedown!AfterState[to] \in {"learning", "writeback", "observability", "verdict"}
    BY DEF Shakedown!AfterState
  <1>3. codes(a) = {} => Shakedown!Ok(a) /\ (to = "learning" => "events" \in a.body)
    <2>1. codes(a) = {} => Shakedown!Ok(a)
      BY DEF Shakedown!StateFailures, Shakedown!If
    <2>2. CASE to = "learning"
      <3>1. codes(a) = {} => "list" \in a.body /\ Shakedown!Without(a, "events", "learning_events_missing") = {}
        BY <2>2 DEF Shakedown!StateFailures
      <3> QED
        BY <2>1, <3>1, NoCode
    <2> QED
      BY <2>1, <2>2
  <1>4. codes(a) = {} => Acceptable([to |-> to, of |-> pending, answer |-> a], setup.live_required)
    BY <1>3 DEF Acceptable
  <1>5. a = Shakedown!Good(to) => codes(a) = {}
    <2>1. /\ {"list", "tenant"} \subseteq Shakedown!GoodBody["decisions"]
          /\ {"list", "events"} \subseteq Shakedown!GoodBody["learning"]
          /\ {"list", "pending"} \subseteq Shakedown!GoodBody["writeback"]
      BY DEF Shakedown!GoodBody
    <2>2. a = Shakedown!Good(to) => Shakedown!Ok(a) /\ a.body = Shakedown!GoodBody[to]
      BY GoodAnswer DEF Requested
    <2> QED
      BY <2>1, <2>2 DEF Shakedown!StateFailures, Shakedown!If, Shakedown!Without
  <1> HIDE DEF codes
  <1> QED
    BY <1>1, <1>2, <1>4, <1>5, QuietKeeps

\* The counters are numbers.
LEMMA Counters ==
    ASSUME NEW t \in Tallies
    PROVE  /\ t.approvals \in Nat
           /\ t.rejections \in Nat
           /\ t.mismatches \in Nat
           /\ t.expected_learning \in Nat
           /\ t.observed_learning \in Nat
           /\ t.calls \in Nat
           /\ t.model_answers \in Nat
           /\ t.fallback_answers \in Nat
           /\ t.fail_closed_answers \in Nat
           /\ t.replay_checks \in Nat
           /\ t.replay_matches \in Nat
           /\ t.posts \in Nat
  BY DEF Tallies

\* What resolving a decision counts.
LEMMA ResolvedTally ==
    ASSUME NEW t \in Tallies, NEW i \in Nat, NEW j \in Nat, NEW k \in Nat, NEW l \in Nat, NEW m \in Nat
    PROVE  LET u == [t EXCEPT !.approvals = i, !.rejections = j, !.mismatches = k,
                     !.expected_learning = l, !.observed_learning = m]
           IN  /\ u \in Tallies
               /\ u.approvals = i
               /\ u.rejections = j
               /\ u.mismatches = k
               /\ u.expected_learning = l
               /\ u.observed_learning = m
               /\ u.calls = t.calls
               /\ u.model_answers = t.model_answers
               /\ u.fallback_answers = t.fallback_answers
               /\ u.replay_checks = t.replay_checks
               /\ u.replay_matches = t.replay_matches
               /\ u.posts = t.posts
  BY DEF Tallies

\* What an answer to a question counts.
LEMMA ChatTally ==
    ASSUME NEW t \in Tallies, NEW i \in Nat, NEW j \in Nat, NEW k \in Nat
    PROVE  LET u == [t EXCEPT !.calls = i, !.model_answers = j, !.fallback_answers = k]
           IN  /\ u \in Tallies
               /\ u.approvals = t.approvals
               /\ u.rejections = t.rejections
               /\ u.mismatches = t.mismatches
               /\ u.expected_learning = t.expected_learning
               /\ u.observed_learning = t.observed_learning
               /\ u.calls = i
               /\ u.model_answers = j
               /\ u.fallback_answers = k
               /\ u.replay_checks = t.replay_checks
               /\ u.replay_matches = t.replay_matches
               /\ u.posts = t.posts
  BY DEF Tallies

\* What a chat without a model counts.
LEMMA ClosedTally ==
    ASSUME NEW t \in Tallies, NEW i \in Nat
    PROVE  LET u == [t EXCEPT !.fail_closed_answers = i]
           IN  /\ u \in Tallies
               /\ u.approvals = t.approvals
               /\ u.rejections = t.rejections
               /\ u.mismatches = t.mismatches
               /\ u.expected_learning = t.expected_learning
               /\ u.observed_learning = t.observed_learning
               /\ u.calls = t.calls
               /\ u.model_answers = t.model_answers
               /\ u.fallback_answers = t.fallback_answers
               /\ u.replay_checks = t.replay_checks
               /\ u.replay_matches = t.replay_matches
               /\ u.posts = t.posts
  BY DEF Tallies

\* What a replay counts.
LEMMA ReplayTally ==
    ASSUME NEW t \in Tallies, NEW i \in Nat, NEW j \in Nat
    PROVE  LET u == [t EXCEPT !.replay_checks = i, !.replay_matches = j]
           IN  /\ u \in Tallies
               /\ u.approvals = t.approvals
               /\ u.rejections = t.rejections
               /\ u.mismatches = t.mismatches
               /\ u.expected_learning = t.expected_learning
               /\ u.observed_learning = t.observed_learning
               /\ u.calls = t.calls
               /\ u.model_answers = t.model_answers
               /\ u.fallback_answers = t.fallback_answers
               /\ u.replay_checks = i
               /\ u.replay_matches = j
               /\ u.posts = t.posts
  BY DEF Tallies

\* What a decision made counts.
LEMMA PostedTally ==
    ASSUME NEW t \in Tallies, NEW i \in Nat
    PROVE  LET u == [t EXCEPT !.posts = i]
           IN  /\ u \in Tallies
               /\ u.approvals = t.approvals
               /\ u.rejections = t.rejections
               /\ u.mismatches = t.mismatches
               /\ u.expected_learning = t.expected_learning
               /\ u.observed_learning = t.observed_learning
               /\ u.calls = t.calls
               /\ u.model_answers = t.model_answers
               /\ u.fallback_answers = t.fallback_answers
               /\ u.replay_checks = t.replay_checks
               /\ u.replay_matches = t.replay_matches
               /\ u.posts = i
  BY DEF Tallies

\* An answer that is no decision leaves the count of those.
LEMMA PostedKept ==
    ASSUME RunTyped, NEW x \in Entries, answers' = Append(answers, x), x.to # "scenario"
    PROVE  Cardinality(Posted') = Cardinality(Posted) /\ Cardinality(Posted) \in Nat
  <1>1. answers \in Seq(Entries)
    BY DEF RunTyped
  <1>2. Cardinality(Posted) \in Nat
    BY <1>1, FinitelyMany
  <1>3. Cardinality(Posted') = Cardinality(Posted) + Shakedown!One(x.to = "scenario" /\ Shakedown!Ok(x.answer))
    BY <1>1, CountedOnce
  <1>4. Shakedown!One(x.to = "scenario" /\ Shakedown!Ok(x.answer)) = 0
    BY DEF Shakedown!One
  <1> QED
    BY <1>2, <1>3, <1>4

\* The decision is resolved, or is not (_resolve_decision).
LEMMA ResolveKeeps ==
    ASSUME Shakedown!ShakedownAssumption, ShakedownInv, NEW action \in {"approve", "reject"},
           Shakedown!Resolve(action)
    PROVE  ShakedownInv'
  <1> DEFINE codes(a) ==
        Shakedown!If(~Shakedown!Resolved(a), "transition_mismatch")
        \union Shakedown!If(Shakedown!Resolved(a) /\ action = "approve" /\ "learning" \notin a.body,
                            "learning_receipt_missing")
  <1>1. PICK a : /\ Shakedown!Reply(action, a) /\ Shakedown!Fails(codes(a))
                 /\ tally' = [tally EXCEPT
                      !.approvals = @ + Shakedown!One(Shakedown!Resolved(a) /\ action = "approve"),
                      !.rejections = @ + Shakedown!One(Shakedown!Resolved(a) /\ action = "reject"),
                      !.mismatches = @ + Shakedown!One(~Shakedown!Resolved(a)),
                      !.expected_learning =
                          @ + Shakedown!One(Shakedown!Resolved(a) /\ "learning" \in a.body),
                      !.observed_learning =
                          @ + Shakedown!One(Shakedown!Resolved(a) /\ {"learning", "moved"} \subseteq a.body)]
                 /\ step' = "chat"
                 /\ UNCHANGED <<setup, polls, round, pending, decisions, verdict>>
    BY DEF Shakedown!Resolve
  <1> DEFINE i == Shakedown!One(Shakedown!Resolved(a) /\ action = "approve")
             j == Shakedown!One(Shakedown!Resolved(a) /\ action = "reject")
             k == Shakedown!One(~Shakedown!Resolved(a))
             l == Shakedown!One(Shakedown!Resolved(a) /\ "learning" \in a.body)
             m == Shakedown!One(Shakedown!Resolved(a) /\ {"learning", "moved"} \subseteq a.body)
  <1>2. polls \in 0 .. setup.polls /\ tally \in Tallies
    BY DEF ShakedownInv, RunTyped, Shakedown!TypeOK
  <1>3. action \in Requested \ {"scenario"}
    BY DEF Requested
  <1>4. /\ a \in Answered /\ step = action /\ a.body \subseteq Shakedown!GoodBody[action]
        /\ [to |-> action, of |-> pending, answer |-> a] \in Entries
        /\ answers' = Append(answers, [to |-> action, of |-> pending, answer |-> a])
    BY <1>1, <1>3, ReplyTyped DEF ShakedownInv
  <1>5. i \in {0, 1} /\ j \in {0, 1} /\ k \in {0, 1} /\ l \in {0, 1} /\ m \in {0, 1}
    BY DEF Shakedown!One
  <1>6. i + j + k = 1 /\ m <= l /\ l <= i
    <2>1. Shakedown!GoodBody["reject"] = {"same", "status"}
      BY DEF Shakedown!GoodBody
    <2>2. Shakedown!Resolved(a) /\ "learning" \in a.body => action = "approve"
      BY <1>4, <2>1
    <2>3. Shakedown!Resolved(a) \in BOOLEAN
      BY DEF Shakedown!Resolved, Shakedown!Ok
    <2> QED
      BY <2>2, <2>3 DEF Shakedown!One
  <1> HIDE DEF i, j, k, l, m
  <1>7. /\ tally' \in Tallies
        /\ tally'.approvals = tally.approvals + i /\ tally'.rejections = tally.rejections + j
        /\ tally'.mismatches = tally.mismatches + k
        /\ tally'.expected_learning = tally.expected_learning + l
        /\ tally'.observed_learning = tally.observed_learning + m
        /\ tally'.calls = tally.calls /\ tally'.posts = tally.posts
        /\ tally'.model_answers = tally.model_answers /\ tally'.fallback_answers = tally.fallback_answers
        /\ tally'.replay_checks = tally.replay_checks /\ tally'.replay_matches = tally.replay_matches
    <2> DEFINE ai == tally.approvals + i
               rj == tally.rejections + j
               mk == tally.mismatches + k
               el == tally.expected_learning + l
               om == tally.observed_learning + m
    <2>1. ai \in Nat /\ rj \in Nat /\ mk \in Nat /\ el \in Nat /\ om \in Nat
      BY <1>2, <1>5, Counters
    <2>2. tally' = [tally EXCEPT !.approvals = ai, !.rejections = rj, !.mismatches = mk,
                                 !.expected_learning = el, !.observed_learning = om]
      BY <1>1 DEF i, j, k, l, m
    <2>3. /\ tally' \in Tallies
          /\ tally'.approvals = ai /\ tally'.rejections = rj /\ tally'.mismatches = mk
          /\ tally'.expected_learning = el /\ tally'.observed_learning = om
          /\ tally'.calls = tally.calls /\ tally'.posts = tally.posts
          /\ tally'.model_answers = tally.model_answers
          /\ tally'.fallback_answers = tally.fallback_answers
          /\ tally'.replay_checks = tally.replay_checks
          /\ tally'.replay_matches = tally.replay_matches
      <3> HIDE DEF ai, rj, mk, el, om
      <3> QED
        BY <1>2, <2>1, <2>2 DEF Tallies
    <2> QED
      BY <2>3
  <1>8. codes(a) = {} => Shakedown!Resolved(a) /\ (action = "approve" => "learning" \in a.body)
    BY DEF Shakedown!If
  <1>9. codes(a) = {} => Acceptable([to |-> action, of |-> pending, answer |-> a], setup.live_required)
    BY <1>8 DEF Acceptable, Shakedown!Resolved
  <1>10. a = Shakedown!Good(action) => codes(a) = {}
    <2>1. /\ {"same", "status"} \subseteq Shakedown!GoodBody[action]
          /\ action = "approve" => "learning" \in Shakedown!GoodBody[action]
      BY DEF Shakedown!GoodBody
    <2> QED
      BY <1>3, <2>1, GoodAnswer DEF Shakedown!If, Shakedown!Resolved
  <1> HIDE DEF codes
  <1>11. /\ RunTyped' /\ Untroubled' /\ Concluded'
         /\ bad' = 0 => bad = 0 /\ failures' = {} /\ AllNew(decisions)'
    BY <1>1, <1>2, <1>3, <1>4, <1>7, <1>9, <1>10, RequestKeeps DEF Requested, Opening
  <1>12. Counted'
    <2>1. Cardinality(Posted') = Cardinality(Posted)
      BY <1>4, PostedKept DEF ShakedownInv
    <2>2. /\ Shakedown!One(Resolving) = 1 /\ Shakedown!One(Resolving)' = 0
          /\ Shakedown!One(step = "replay") = 0 /\ Shakedown!One(step = "replay")' = 0
      BY <1>1, <1>4 DEF Shakedown!One, Resolving
    <2>3. Counted
      BY DEF ShakedownInv
    <2>4. /\ tally.approvals \in Nat /\ tally.rejections \in Nat /\ tally.mismatches \in Nat
          /\ tally.expected_learning \in Nat /\ tally.observed_learning \in Nat
          /\ tally.replay_checks \in Nat
      BY <1>2 DEF Tallies
    <2>5. Len(decisions)' = Len(decisions)
      BY <1>1
    <2>6. tally'.approvals + tally'.rejections + tally'.mismatches + Shakedown!One(Resolving)'
                = Len(decisions)'
      <3>1. tally.approvals + tally.rejections + tally.mismatches + 1 = Len(decisions)
        BY <2>2, <2>3 DEF Counted
      <3>2. tally'.approvals + tally'.rejections + tally'.mismatches + 0
              = tally.approvals + tally.rejections + tally.mismatches + (i + j + k)
        BY <1>5, <1>7, <2>4
      <3> QED
        BY <1>6, <2>2, <2>5, <3>1, <3>2
    <2>8. /\ tally'.observed_learning <= tally'.expected_learning
          /\ tally'.expected_learning <= tally'.approvals
      <3>1. /\ tally.observed_learning <= tally.expected_learning
            /\ tally.expected_learning <= tally.approvals
        BY <2>3 DEF Counted
      <3>2. \A p, q \in Nat : \A y, z \in {0, 1} : p <= q /\ y <= z => p + y <= q + z
        OBVIOUS
      <3> QED
        BY <1>5, <1>6, <1>7, <2>4, <3>1, <3>2
    <2>7. /\ tally'.model_answers + tally'.fallback_answers = tally'.calls
          /\ tally'.replay_checks + Shakedown!One(step = "replay")' = tally'.calls
          /\ tally'.posts = Cardinality(Posted')
      BY <1>7, <2>1, <2>2, <2>3 DEF Counted
    <2> QED
      BY <2>6, <2>7, <2>8 DEF Counted
  <1>13. Spotless'
    BY <1>7, <1>11 DEF ShakedownInv, Spotless
  <1> QED
    BY <1>11, <1>12, <1>13 DEF ShakedownInv

\* A step from which the cycles go on: to the next one, or to what was kept.
LEMMA AfterCycles ==
    ASSUME step' \in Shakedown!AfterCycle(round)
    PROVE  step' \in {"scenario", "decisions"} /\ (step' = "scenario" => round < setup.cycles)
  BY DEF Shakedown!AfterCycle, Shakedown!If

\* What remains of the counts when questions are answered and replayed.
LEMMA AnswersCounted ==
    ASSUME ShakedownInv, NEW x \in Entries, answers' = Append(answers, x), x.to # "scenario",
           UNCHANGED decisions, ~Resolving, ~Resolving', tally' \in Tallies,
           tally'.approvals = tally.approvals, tally'.rejections = tally.rejections,
           tally'.mismatches = tally.mismatches,
           tally'.expected_learning = tally.expected_learning,
           tally'.observed_learning = tally.observed_learning, tally'.posts = tally.posts,
           tally'.model_answers + tally'.fallback_answers = tally'.calls,
           tally'.replay_checks + Shakedown!One(step = "replay")' = tally'.calls
    PROVE  Counted'
  <1>1. Cardinality(Posted') = Cardinality(Posted)
    BY PostedKept DEF ShakedownInv
  <1>2. Shakedown!One(Resolving) = 0 /\ Shakedown!One(Resolving)' = 0
    BY DEF Shakedown!One
  <1>3. Len(decisions)' = Len(decisions)
    OBVIOUS
  <1> QED
    BY <1>1, <1>2, <1>3 DEF ShakedownInv, Counted

\* A question (_record_chat).
LEMMA ChatKeeps ==
    ASSUME Shakedown!ShakedownAssumption, ShakedownInv, Shakedown!Chat
    PROVE  ShakedownInv'
  <1> DEFINE codes(a) == IF Shakedown!FailsClosed(a) THEN {} ELSE Shakedown!ChatFailures(a)
  <1>1. PICK a : /\ Shakedown!Reply("chat", a) /\ Shakedown!Fails(codes(a))
                 /\ tally' = CASE Shakedown!FailsClosed(a) -> [tally EXCEPT !.fail_closed_answers = @ + 1]
                      [] Shakedown!Ok(a) -> [tally EXCEPT !.calls = @ + 1,
                             !.model_answers = @ + Shakedown!One("model" \in a.body),
                             !.fallback_answers = @ + Shakedown!One("model" \notin a.body)]
                      [] OTHER -> tally
                 /\ step' \in IF Shakedown!Ok(a) THEN {"replay"} ELSE Shakedown!AfterCycle(round)
                 /\ UNCHANGED <<setup, polls, round, pending, decisions, verdict>>
    BY DEF Shakedown!Chat
  <1>2. polls \in 0 .. setup.polls /\ tally \in Tallies
    BY DEF ShakedownInv, RunTyped, Shakedown!TypeOK
  <1>3. "chat" \in Requested \ {"scenario"}
    BY DEF Requested
  <1>4. /\ a \in Answered /\ step = "chat"
        /\ [to |-> "chat", of |-> pending, answer |-> a] \in Entries
        /\ answers' = Append(answers, [to |-> "chat", of |-> pending, answer |-> a])
    BY <1>1, <1>3, ReplyTyped DEF ShakedownInv
  <1>5. /\ step' \in {"replay", "scenario", "decisions"} /\ (step' = "replay" <=> Shakedown!Ok(a))
        /\ step' = "scenario" => round < setup.cycles
    BY <1>1, AfterCycles
  <1>6. codes(a) = {} => Acceptable([to |-> "chat", of |-> pending, answer |-> a], setup.live_required)
    <2>1. CASE Shakedown!FailsClosed(a)
      BY <2>1 DEF Acceptable, Shakedown!FailsClosed, Shakedown!Ok
    <2>2. CASE ~Shakedown!FailsClosed(a) /\ ~Shakedown!Ok(a)
      <3>1. Shakedown!RouteFailure(a, "chat_route") # {}
        BY <2>2, NoCode
      <3> QED
        BY <2>2, <3>1 DEF Shakedown!ChatFailures
    <2>3. CASE ~Shakedown!FailsClosed(a) /\ Shakedown!Ok(a)
      <3>1. codes(a) = {} => Shakedown!Without(a, "fresh", "fresh_request_replayed") = {}
        BY <2>3 DEF Shakedown!ChatFailures
      <3>2. codes(a) = {} /\ setup.live_required =>
               /\ Shakedown!Without(a, "provider", "provider_not_amd") = {}
               /\ Shakedown!Without(a, "model", "not_model_backed") = {}
        BY <2>3 DEF Shakedown!ChatFailures
      <3>3. codes(a) = {} => "fresh" \in a.body
        BY <3>1, NoCode
      <3>4. codes(a) = {} /\ setup.live_required => {"model", "provider"} \subseteq a.body
        BY <3>2, NoCode
      <3> HIDE DEF codes
      <3> QED
        BY <2>3, <3>3, <3>4 DEF Acceptable
    <2> QED
      BY <2>1, <2>2, <2>3
  <1>7. a = Shakedown!Good("chat") => codes(a) = {} /\ Shakedown!Ok(a) /\ "model" \in a.body
    <2>1. {"text", "correlation", "fresh", "provider", "model", "named"}
             \subseteq Shakedown!GoodBody["chat"]
      BY DEF Shakedown!GoodBody
    <2>2. a = Shakedown!Good("chat") =>
             /\ Shakedown!Ok(a)
             /\ {"text", "correlation", "fresh", "provider", "model", "named"} \subseteq a.body
      BY <1>3, <2>1, GoodAnswer
    <2> QED
      BY <2>2, NoCode DEF Shakedown!ChatFailures
  <1> DEFINE o == Shakedown!One(Shakedown!Ok(a))
             f == Shakedown!One(Shakedown!Ok(a) /\ "model" \notin a.body)
  <1>8. /\ tally' \in Tallies
        /\ tally'.calls = tally.calls + o /\ tally'.fallback_answers = tally.fallback_answers + f
        /\ tally'.model_answers + tally'.fallback_answers
              = (tally.model_answers + tally.fallback_answers) + o
        /\ tally'.approvals = tally.approvals /\ tally'.rejections = tally.rejections
        /\ tally'.mismatches = tally.mismatches
        /\ tally'.expected_learning = tally.expected_learning
        /\ tally'.observed_learning = tally.observed_learning /\ tally'.posts = tally.posts
        /\ tally'.replay_checks = tally.replay_checks
        /\ tally'.replay_matches = tally.replay_matches
    <2>1. CASE Shakedown!Ok(a)
      <3> DEFINE ca == tally.calls + 1
                 ma == tally.model_answers + Shakedown!One("model" \in a.body)
                 fa == tally.fallback_answers + Shakedown!One("model" \notin a.body)
      <3>1. ~Shakedown!FailsClosed(a)
        BY <2>1 DEF Shakedown!FailsClosed, Shakedown!Ok
      <3>2. tally' = [tally EXCEPT !.calls = ca, !.model_answers = ma, !.fallback_answers = fa]
        BY <1>1, <2>1, <3>1
      <3>3. ca \in Nat /\ ma \in Nat /\ fa \in Nat
        BY <1>2, Counters DEF Shakedown!One
      <3>4. o = 1 /\ f = Shakedown!One("model" \notin a.body)
        BY <2>1 DEF Shakedown!One
      <3>5. ma + fa = (tally.model_answers + tally.fallback_answers) + 1
        BY <1>2, Counters DEF Shakedown!One
      <3>6. /\ tally' \in Tallies /\ tally'.calls = ca /\ tally'.model_answers = ma
            /\ tally'.fallback_answers = fa
            /\ tally'.approvals = tally.approvals /\ tally'.rejections = tally.rejections
            /\ tally'.mismatches = tally.mismatches
            /\ tally'.expected_learning = tally.expected_learning
            /\ tally'.observed_learning = tally.observed_learning /\ tally'.posts = tally.posts
            /\ tally'.replay_checks = tally.replay_checks
            /\ tally'.replay_matches = tally.replay_matches
        <4> HIDE DEF ca, ma, fa
        <4> QED
          BY <1>2, <3>2, <3>3 DEF Tallies
      <3> QED
        BY <3>4, <3>5, <3>6
    <2>2. CASE ~Shakedown!Ok(a)
      <3>1. o = 0 /\ f = 0
        BY <2>2 DEF Shakedown!One
      <3>2. tally' = tally \/ tally' = [tally EXCEPT !.fail_closed_answers = tally.fail_closed_answers + 1]
        BY <1>1, <2>2
      <3>3. tally.fail_closed_answers + 1 \in Nat
        BY <1>2, Counters
      <3>4. /\ tally' \in Tallies /\ tally'.calls = tally.calls
            /\ tally'.model_answers = tally.model_answers
            /\ tally'.fallback_answers = tally.fallback_answers
            /\ tally'.approvals = tally.approvals /\ tally'.rejections = tally.rejections
            /\ tally'.mismatches = tally.mismatches
            /\ tally'.expected_learning = tally.expected_learning
            /\ tally'.observed_learning = tally.observed_learning /\ tally'.posts = tally.posts
            /\ tally'.replay_checks = tally.replay_checks
            /\ tally'.replay_matches = tally.replay_matches
        <4> DEFINE c == tally.fail_closed_answers + 1
        <4>1. c \in Nat /\ (tally' = tally \/ tally' = [tally EXCEPT !.fail_closed_answers = c])
          BY <3>2, <3>3
        <4> HIDE DEF c
        <4> QED
          BY <1>2, <4>1 DEF Tallies
      <3> QED
        BY <1>2, <3>1, <3>4, Counters
    <2> QED
      BY <2>1, <2>2
  <1> HIDE DEF codes
  <1>9. /\ RunTyped' /\ Untroubled' /\ Concluded'
        /\ bad' = 0 => bad = 0 /\ failures' = {} /\ AllNew(decisions)' /\ a = Shakedown!Good("chat")
    BY <1>1, <1>2, <1>3, <1>4, <1>5, <1>6, <1>7, <1>8, RequestKeeps DEF Requested, Opening
  <1>10. Counted'
    <2>1. tally.replay_checks = tally.calls /\ tally.model_answers + tally.fallback_answers = tally.calls
      BY <1>2, <1>4, Counters DEF ShakedownInv, Counted, Shakedown!One
    <2>2. Shakedown!One(step = "replay")' = o
      BY <1>5 DEF Shakedown!One
    <2>3. ~Resolving /\ ~Resolving'
      BY <1>4, <1>5 DEF Resolving
    <2> QED
      BY <1>1, <1>4, <1>8, <2>1, <2>2, <2>3, AnswersCounted
  <1>11. Spotless'
    <2>1. bad' = 0 => f = 0
      BY <1>7, <1>9 DEF Shakedown!One
    <2>2. tally.fallback_answers + 0 = tally.fallback_answers
      BY <1>2, Counters
    <2> QED
      BY <1>8, <1>9, <2>1, <2>2 DEF ShakedownInv, Spotless
  <1> QED
    BY <1>9, <1>10, <1>11 DEF ShakedownInv

\* The same question again.
LEMMA ReplayKeeps ==
    ASSUME Shakedown!ShakedownAssumption, ShakedownInv, Shakedown!Replay
    PROVE  ShakedownInv'
  <1> DEFINE match(a) == Shakedown!Ok(a) /\ "replayed" \in a.body
             codes(a) == Shakedown!If(~match(a), "replay_mismatch") \union Shakedown!TransportCode(a)
  <1>1. PICK a : /\ Shakedown!Reply("replay", a) /\ Shakedown!Fails(codes(a))
                 /\ tally' = [tally EXCEPT !.replay_checks = @ + 1,
                                          !.replay_matches = @ + Shakedown!One(match(a))]
                 /\ step' \in Shakedown!AfterCycle(round)
                 /\ UNCHANGED <<setup, polls, round, pending, decisions, verdict>>
    BY DEF Shakedown!Replay
  <1>2. polls \in 0 .. setup.polls /\ tally \in Tallies
    BY DEF ShakedownInv, RunTyped, Shakedown!TypeOK
  <1>3. "replay" \in Requested \ {"scenario"}
    BY DEF Requested
  <1>4. /\ a \in Answered /\ step = "replay"
        /\ [to |-> "replay", of |-> pending, answer |-> a] \in Entries
        /\ answers' = Append(answers, [to |-> "replay", of |-> pending, answer |-> a])
    BY <1>1, <1>3, ReplyTyped DEF ShakedownInv
  <1>5. step' \in {"scenario", "decisions"} /\ (step' = "scenario" => round < setup.cycles)
    BY <1>1, AfterCycles
  <1>6. codes(a) = {} => Acceptable([to |-> "replay", of |-> pending, answer |-> a], setup.live_required)
    BY DEF Acceptable, Shakedown!If
  <1>7. a = Shakedown!Good("replay") => codes(a) = {} /\ match(a)
    <2>1. "replayed" \in Shakedown!GoodBody["replay"]
      BY DEF Shakedown!GoodBody
    <2> QED
      BY <1>3, <2>1, GoodAnswer, NoCode DEF Shakedown!If
  <1> DEFINE m == Shakedown!One(match(a))
             rc == tally.replay_checks + 1
             rm == tally.replay_matches + m
  <1>8. /\ tally' \in Tallies /\ tally'.replay_checks = rc /\ tally'.replay_matches = rm
        /\ tally'.calls = tally.calls /\ tally'.fallback_answers = tally.fallback_answers
        /\ tally'.model_answers = tally.model_answers
        /\ tally'.approvals = tally.approvals /\ tally'.rejections = tally.rejections
        /\ tally'.mismatches = tally.mismatches
        /\ tally'.expected_learning = tally.expected_learning
        /\ tally'.observed_learning = tally.observed_learning /\ tally'.posts = tally.posts
    <2>1. rc \in Nat /\ rm \in Nat
      BY <1>2, Counters DEF Shakedown!One
    <2>2. tally' = [tally EXCEPT !.replay_checks = rc, !.replay_matches = rm]
      BY <1>1
    <2> HIDE DEF rc, rm
    <2> QED
      BY <1>2, <2>1, <2>2 DEF Tallies
  <1> HIDE DEF codes
  <1>9. /\ RunTyped' /\ Untroubled' /\ Concluded'
        /\ bad' = 0 => bad = 0 /\ failures' = {} /\ AllNew(decisions)' /\ a = Shakedown!Good("replay")
    BY <1>1, <1>2, <1>3, <1>4, <1>5, <1>6, <1>7, <1>8, RequestKeeps DEF Requested, Opening
  <1>10. Counted'
    <2>1. rc = tally.calls /\ tally.model_answers + tally.fallback_answers = tally.calls
      BY <1>2, <1>4, Counters DEF ShakedownInv, Counted, Shakedown!One
    <2>2. Shakedown!One(step = "replay")' = 0
      BY <1>5 DEF Shakedown!One
    <2>3. ~Resolving /\ ~Resolving'
      BY <1>4, <1>5 DEF Resolving
    <2>4. rc + 0 = rc
      BY <1>2, Counters
    <2> HIDE DEF rc
    <2> QED
      BY <1>1, <1>4, <1>8, <2>1, <2>2, <2>3, <2>4, AnswersCounted
  <1>11. Spotless'
    <2>1. bad' = 0 => m = 1
      BY <1>7, <1>9 DEF Shakedown!One
    <2> QED
      BY <1>8, <1>9, <2>1 DEF ShakedownInv, Spotless
  <1> QED
    BY <1>9, <1>10, <1>11 DEF ShakedownInv

\* A decision is made, of some id and for some tenant (_run_scenarios).
LEMMA DecisionKeeps ==
    ASSUME Shakedown!ShakedownAssumption, ShakedownInv, step = "scenario", verdict = None,
           round' = round + 1, NEW id \in DecisionIds, NEW own \in BOOLEAN,
           IF own /\ \A i \in DOMAIN decisions : decisions[i] # id
             THEN UNCHANGED bad ELSE bad < MaxBad /\ bad' = bad + 1,
           decisions' = Append(decisions, id), pending' = id,
           failures' = failures \union
             Shakedown!If(~own /\ Shakedown!TenantKnown, [code |-> "tenant_mismatch", of |-> id]),
           tally' = [tally EXCEPT !.posts = @ + 1], step' \in {"approve", "reject"},
           answers' = Append(answers, [to |-> "scenario", of |-> id,
                        answer |-> Shakedown!Answer("2xx", Shakedown!If(own, "tenant"))]),
           UNCHANGED <<setup, polls, verdict>>
    PROVE  ShakedownInv'
  <1> DEFINE x == [to |-> "scenario", of |-> id,
                   answer |-> Shakedown!Answer("2xx", Shakedown!If(own, "tenant"))]
             n == Len(answers) + 1
             d == Len(decisions) + 1
  <1>1. x \in Entries /\ x.to = "scenario" /\ Shakedown!Ok(x.answer) /\ x.of = id
        /\ (own => "tenant" \in x.answer.body)
    <2>1. Shakedown!If(own, "tenant") \in Bodies /\ (own => "tenant" \in Shakedown!If(own, "tenant"))
      BY DEF Shakedown!If, Bodies
    <2> QED
      BY <2>1 DEF Entries, Answered, Requested, Shakedown!Answer, Shakedown!Ok
  <1>2. /\ answers \in Seq(Entries) /\ decisions \in Seq(DecisionIds) /\ tally \in Tallies
        /\ setup \in Configs /\ polls \in 0 .. setup.polls /\ bad \in 0 .. MaxBad
        /\ round \in 0 .. setup.cycles /\ round < setup.cycles /\ MaxBad \in Nat
        /\ setup.cycles \in Nat
    BY DEF ShakedownInv, RunTyped, Shakedown!TypeOK, Shakedown!ShakedownAssumption
  <1>3. /\ answers' \in Seq(Entries)
        /\ Len(answers)' = n /\ Len(answers) \in Nat
        /\ DOMAIN answers = 1 .. Len(answers) /\ DOMAIN answers' = 1 .. n
        /\ \A i \in DOMAIN answers : i \in DOMAIN answers' /\ answers'[i] = answers[i]
        /\ answers'[n] = x
        /\ \A kinds : Shakedown!To(kinds)' =
               Shakedown!To(kinds) \union IF x.to \in kinds THEN {n} ELSE {}
    BY <1>1, <1>2, AnswersGrow
  <1>4. /\ decisions' \in Seq(DecisionIds) /\ Len(decisions)' = d /\ Len(decisions) \in Nat
        /\ DOMAIN decisions = 1 .. Len(decisions) /\ DOMAIN decisions' = 1 .. d
        /\ \A k \in DOMAIN decisions : k \in DOMAIN decisions' /\ decisions'[k] = decisions[k]
        /\ decisions'[d] = id /\ d \in DOMAIN decisions' /\ d \notin DOMAIN decisions
    BY <1>2
  <1>5. AllNew(decisions)' <=> AllNew(decisions) /\ \A k \in DOMAIN decisions : decisions[k] # id
    <2>1. DOMAIN decisions' = DOMAIN decisions \union {d}
      BY <1>4
    <2> QED
      BY <1>4, <2>1 DEF AllNew
  <1>6. /\ tally' \in Tallies /\ tally'.posts = tally.posts + 1
        /\ tally'.calls = tally.calls /\ tally'.fallback_answers = tally.fallback_answers
        /\ tally'.model_answers = tally.model_answers
        /\ tally'.approvals = tally.approvals /\ tally'.rejections = tally.rejections
        /\ tally'.mismatches = tally.mismatches
        /\ tally'.expected_learning = tally.expected_learning
        /\ tally'.observed_learning = tally.observed_learning
        /\ tally'.replay_checks = tally.replay_checks
        /\ tally'.replay_matches = tally.replay_matches
    <2> DEFINE pd == tally.posts + 1
    <2>1. pd \in Nat /\ tally' = [tally EXCEPT !.posts = pd]
      BY <1>2, Counters
    <2> HIDE DEF pd
    <2> QED
      BY <1>2, <2>1 DEF Tallies
  <1>7. bad' \in 0 .. MaxBad /\ round' \in 0 .. setup.cycles
    BY <1>2
  <1>8. RunTyped'
    BY <1>2, <1>3, <1>4, <1>6, <1>7 DEF RunTyped, Shakedown!TypeOK, Opening, Requested
  <1>9. ASSUME failures' = {} PROVE Untroubled'
    <2>1. Untroubled /\ failures = {} /\ (Shakedown!TenantKnown => own)
      BY <1>9 DEF ShakedownInv, Shakedown!If
    <2>2. \A i \in DOMAIN answers' : Acceptable(answers'[i], setup'.live_required)
      <3>1. \A i \in DOMAIN answers' : i \in DOMAIN answers \/ i = n
        BY <1>3
      <3>2. \A i \in DOMAIN answers : Acceptable(answers[i], setup.live_required)
        BY <2>1 DEF Untroubled
      <3>3. Acceptable(x, setup.live_required)
        BY <1>1 DEF Acceptable
      <3> QED
        BY <1>3, <3>1, <3>2, <3>3
    <2>3. \E i \in Shakedown!To({"health"})' : "ok" \in Shakedown!Body(i)'
      <3>1. PICK i \in Shakedown!To({"health"}) : "ok" \in Shakedown!Body(i)
        BY <2>1 DEF Untroubled
      <3>2. i \in Shakedown!To({"health"})' /\ answers'[i] = answers[i]
        BY <1>3, <3>1 DEF Shakedown!To
      <3> QED
        BY <3>1, <3>2 DEF Shakedown!Body
    <2>4. Shakedown!To({"scenario"})' = Shakedown!To({"scenario"}) \union {n}
      BY <1>1, <1>3
    <2>5. \A i \in Shakedown!To({"scenario"}) :
             i \in DOMAIN answers /\ answers'[i] = answers[i]
      BY <1>3 DEF Shakedown!To
    <2>6. \A i \in Shakedown!To({"scenario"})' :
            /\ Shakedown!TenantKnown' => "tenant" \in Shakedown!Body(i)'
            /\ \E k \in DOMAIN decisions' : decisions'[k] = answers'[i].of
      <3>1. Shakedown!TenantKnown' => Shakedown!TenantKnown
        BY <1>1, <1>3 DEF Shakedown!TenantKnown
      <3>2. ASSUME NEW i \in Shakedown!To({"scenario"})
            PROVE  /\ Shakedown!TenantKnown' => "tenant" \in Shakedown!Body(i)'
                   /\ \E k \in DOMAIN decisions' : decisions'[k] = answers'[i].of
        <4>1. PICK k \in DOMAIN decisions : decisions[k] = answers[i].of
          BY <2>1, <3>2 DEF Untroubled
        <4>2. Shakedown!TenantKnown => "tenant" \in Shakedown!Body(i)
          BY <2>1, <3>2 DEF Untroubled
        <4> QED
          BY <1>4, <2>5, <3>1, <4>1, <4>2 DEF Shakedown!Body
      <3>3. Shakedown!TenantKnown' => "tenant" \in answers'[n].answer.body
        BY <1>1, <1>3, <2>1, <3>1
      <3>4. \E k \in DOMAIN decisions' : decisions'[k] = answers'[n].of
        BY <1>1, <1>3, <1>4
      <3> HIDE DEF n
      <3> QED
        BY <2>4, <3>2, <3>3, <3>4 DEF Shakedown!Body
    <2>7. AllNew(decisions)' =>
            \A i, j \in Shakedown!To({"scenario"})' : answers'[i].of = answers'[j].of => i = j
      <3> SUFFICES ASSUME AllNew(decisions)', NEW i \in Shakedown!To({"scenario"})',
                          NEW j \in Shakedown!To({"scenario"})', answers'[i].of = answers'[j].of
                   PROVE  i = j
        OBVIOUS
      <3>1. AllNew(decisions) /\ \A k \in DOMAIN decisions : decisions[k] # id
        BY <1>5
      <3>2. \A h \in Shakedown!To({"scenario"}) : answers'[h].of # id /\ answers'[h] = answers[h]
        BY <2>1, <2>5, <3>1 DEF Untroubled
      <3>3. answers'[n].of = id
        BY <1>1, <1>3
      <3>4. CASE i \in Shakedown!To({"scenario"}) /\ j \in Shakedown!To({"scenario"})
        BY <2>1, <3>1, <3>2, <3>4 DEF Untroubled
      <3> QED
        BY <2>4, <3>2, <3>3, <3>4
    <2>8. Cardinality(Shakedown!To({"approve", "reject"})') + Shakedown!One(Resolving)'
            = Cardinality(Shakedown!To({"scenario"})')
      <3>1. /\ Cardinality(Shakedown!To({"approve", "reject"})) \in Nat
            /\ Cardinality(Shakedown!To({"scenario"})) \in Nat
        BY <1>2, FinitelyMany
      <3>2. Shakedown!To({"approve", "reject"})' = Shakedown!To({"approve", "reject"})
        BY <1>1, <1>3
      <3>3. Cardinality(Shakedown!To({"scenario"})') =
              Cardinality(Shakedown!To({"scenario"})) + Shakedown!One(x.to \in {"scenario"})
        BY <1>1, <1>2, CountedOnce
      <3>4. /\ Shakedown!One(x.to \in {"scenario"}) = 1 /\ Shakedown!One(Resolving) = 0
            /\ Shakedown!One(Resolving)' = 1
        BY <1>1 DEF Shakedown!One, Resolving
      <3>5. Cardinality(Shakedown!To({"approve", "reject"})) + Shakedown!One(Resolving)
              = Cardinality(Shakedown!To({"scenario"}))
        BY <2>1 DEF Untroubled
      <3> QED
        BY <3>1, <3>2, <3>3, <3>4, <3>5
    <2>9. ASSUME NEW i \in Shakedown!To({"chat"})', Shakedown!Ok(answers'[i].answer)
          PROVE  i + 1 \in Shakedown!To({"replay"})'
      <3>1. i \in Shakedown!To({"chat"})
        BY <1>1, <1>3, <2>9
      <3>2. i \in DOMAIN answers /\ answers'[i] = answers[i]
        BY <1>3, <3>1 DEF Shakedown!To
      <3>3. i + 1 \in Shakedown!To({"replay"})
        BY <2>1, <2>9, <3>1, <3>2 DEF Untroubled
      <3> QED
        BY <1>3, <3>3
    <2> QED
      BY <2>2, <2>3, <2>6, <2>7, <2>8, <2>9 DEF Untroubled
  <1>10. Untroubled'
    BY <1>9 DEF Untroubled
  <1>11. Counted'
    <2>1. Cardinality(Posted) \in Nat
      BY <1>2, FinitelyMany
    <2>2. Cardinality(Posted') =
             Cardinality(Posted) + Shakedown!One(x.to = "scenario" /\ Shakedown!Ok(x.answer))
      BY <1>1, <1>2, CountedOnce
    <2>3. /\ Shakedown!One(x.to = "scenario" /\ Shakedown!Ok(x.answer)) = 1
          /\ Shakedown!One(Resolving) = 0 /\ Shakedown!One(Resolving)' = 1
          /\ Shakedown!One(step = "replay") = 0 /\ Shakedown!One(step = "replay")' = 0
      BY <1>1 DEF Shakedown!One, Resolving
    <2>4. Counted
      BY DEF ShakedownInv
    <2>5. tally'.approvals + tally'.rejections + tally'.mismatches + Shakedown!One(Resolving)'
            = Len(decisions)'
      <3>1. tally.approvals + tally.rejections + tally.mismatches + 0 = Len(decisions)
        BY <2>3, <2>4 DEF Counted
      <3>2. tally.approvals \in Nat /\ tally.rejections \in Nat /\ tally.mismatches \in Nat
        BY <1>2, Counters
      <3> QED
        BY <1>4, <1>6, <2>3, <3>1, <3>2
    <2>6. tally'.posts = Cardinality(Posted')
      BY <1>6, <2>1, <2>2, <2>3, <2>4 DEF Counted
    <2> QED
      BY <1>6, <2>3, <2>4, <2>5, <2>6 DEF Counted
  <1>12. Spotless'
    <2>1. bad' = 0 => bad = 0 /\ own /\ \A i \in DOMAIN decisions : decisions[i] # id
      BY <1>2
    <2>2. own => failures' = failures
      BY DEF Shakedown!If
    <2> QED
      BY <1>5, <1>6, <2>1, <2>2 DEF ShakedownInv, Spotless
  <1>13. Concluded'
    BY DEF Concluded
  <1> QED
    BY <1>8, <1>10, <1>11, <1>12, <1>13 DEF ShakedownInv

\* No decision is made.
LEMMA NoDecisionKeeps ==
    ASSUME Shakedown!ShakedownAssumption, ShakedownInv, step = "scenario", verdict = None,
           round' = round + 1, NEW a \in Shakedown!Broken \union {Shakedown!Answer("2xx", {})},
           bad < MaxBad, bad' = bad + 1,
           Shakedown!Fails(Shakedown!RouteFailure(a, "scenario_route")
                           \union Shakedown!If(Shakedown!Ok(a), "decision_id_missing")),
           tally' = IF Shakedown!Ok(a) THEN [tally EXCEPT !.posts = @ + 1] ELSE tally,
           step' \in Shakedown!AfterCycle(round'),
           answers' = Append(answers, [to |-> "scenario", of |-> None, answer |-> a]),
           UNCHANGED <<decisions, pending, setup, polls, verdict>>
    PROVE  ShakedownInv'
  <1> DEFINE x == [to |-> "scenario", of |-> None, answer |-> a]
             o == Shakedown!One(Shakedown!Ok(a))
  <1>1. x \in Entries /\ x.to = "scenario" /\ x.answer = a
    <2>1. {} \in Bodies
      BY DEF Bodies
    <2>2. \A s \in {"2xx", "5xx", "timeout", "error"} : Shakedown!Answer(s, {}) \in Answered
      BY <2>1 DEF Shakedown!Answer, Answered
    <2>3. a \in Answered
      BY <2>2 DEF Shakedown!Broken
    <2> QED
      BY <2>3 DEF Entries, Requested
  <1>2. /\ answers \in Seq(Entries) /\ tally \in Tallies
        /\ setup \in Configs /\ polls \in 0 .. setup.polls /\ bad \in 0 .. MaxBad
        /\ round \in 0 .. setup.cycles /\ round < setup.cycles /\ MaxBad \in Nat
        /\ setup.cycles \in Nat
    BY DEF ShakedownInv, RunTyped, Shakedown!TypeOK, Shakedown!ShakedownAssumption
  <1>3. answers' \in Seq(Entries)
    BY <1>1, <1>2
  <1>4. step' \in {"scenario", "decisions"} /\ (step' = "scenario" => round' < setup.cycles)
    BY DEF Shakedown!AfterCycle, Shakedown!If
  <1>5. /\ tally' \in Tallies /\ tally'.posts = tally.posts + o
        /\ tally'.calls = tally.calls /\ tally'.fallback_answers = tally.fallback_answers
        /\ tally'.model_answers = tally.model_answers
        /\ tally'.approvals = tally.approvals /\ tally'.rejections = tally.rejections
        /\ tally'.mismatches = tally.mismatches
        /\ tally'.expected_learning = tally.expected_learning
        /\ tally'.observed_learning = tally.observed_learning
        /\ tally'.replay_checks = tally.replay_checks
    <2> DEFINE pd == tally.posts + o
    <2>1. CASE Shakedown!Ok(a)
      <3>1. pd \in Nat /\ tally' = [tally EXCEPT !.posts = pd]
        BY <1>2, <2>1, Counters DEF Shakedown!One
      <3> HIDE DEF pd
      <3>2. /\ tally' \in Tallies /\ tally'.posts = pd
            /\ tally'.calls = tally.calls /\ tally'.fallback_answers = tally.fallback_answers
            /\ tally'.model_answers = tally.model_answers
            /\ tally'.approvals = tally.approvals /\ tally'.rejections = tally.rejections
            /\ tally'.mismatches = tally.mismatches
            /\ tally'.expected_learning = tally.expected_learning
            /\ tally'.observed_learning = tally.observed_learning
            /\ tally'.replay_checks = tally.replay_checks
        BY <1>2, <3>1 DEF Tallies
      <3> QED
        BY <3>2 DEF pd
    <2>2. CASE ~Shakedown!Ok(a)
      <3>1. o = 0 /\ tally' = tally /\ tally.posts + 0 = tally.posts
        BY <1>2, <2>2, Counters DEF Shakedown!One
      <3> QED
        BY <1>2, <3>1
    <2> QED
      BY <2>1, <2>2
  <1>6. bad' \in 0 .. MaxBad /\ bad' # 0 /\ round' \in 0 .. setup.cycles
    BY <1>2
  <1>7. RunTyped'
    BY <1>2, <1>3, <1>4, <1>5, <1>6
       DEF ShakedownInv, RunTyped, Shakedown!TypeOK, Opening, Requested
  <1>8. failures' # {}
    <2> DEFINE codes == Shakedown!RouteFailure(a, "scenario_route")
                           \union Shakedown!If(Shakedown!Ok(a), "decision_id_missing")
    <2>1. codes # {}
      BY NoCode DEF Shakedown!If
    <2>2. PICK c : c \in codes
      BY <2>1
    <2>3. failures' = failures \union {[code |-> e, of |-> pending] : e \in codes}
      BY DEF Shakedown!Fails
    <2> HIDE DEF codes
    <2> QED
      BY <2>2, <2>3
  <1>9. Counted'
    <2>1. Cardinality(Posted) \in Nat
      BY <1>2, FinitelyMany
    <2>2. Cardinality(Posted') =
             Cardinality(Posted) + Shakedown!One(x.to = "scenario" /\ Shakedown!Ok(x.answer))
      BY <1>1, <1>2, CountedOnce
    <2>3. Shakedown!One(x.to = "scenario" /\ Shakedown!Ok(x.answer)) = o
      BY <1>1 DEF Shakedown!One
    <2>4. /\ Shakedown!One(Resolving) = 0 /\ Shakedown!One(Resolving)' = 0
          /\ Shakedown!One(step = "replay") = 0 /\ Shakedown!One(step = "replay")' = 0
      BY <1>4 DEF Shakedown!One, Resolving
    <2>5. tally'.posts = Cardinality(Posted')
      BY <1>5, <2>2, <2>3 DEF ShakedownInv, Counted
    <2> QED
      BY <1>5, <2>4, <2>5 DEF ShakedownInv, Counted
  <1> QED
    BY <1>6, <1>7, <1>8, <1>9 DEF ShakedownInv, Untroubled, Spotless, Concluded

\* The verdict (run_deployment_shakedown).
LEMMA ConcludeKeeps ==
    ASSUME ShakedownInv, Shakedown!Conclude
    PROVE  ShakedownInv'
  <1> DEFINE codes == failures
                \union Shakedown!If(~Shakedown!Unique, [code |-> "decision_id_reuse", of |-> None])
                \union Shakedown!If(tally.replay_checks # tally.replay_matches,
                        [code |-> "replay_integrity", of |-> None])
                \union Shakedown!If(setup.live_required /\ tally.fallback_answers > 0,
                        [code |-> "live_fallbacks", of |-> None])
  <1>1. /\ step = "verdict" /\ step' = "over" /\ failures' = codes
        /\ verdict' = [verdict |-> Shakedown!Verdict(codes), unique |-> Shakedown!Unique]
        /\ UNCHANGED <<setup, polls, round, pending, tally, decisions, bad, answers>>
    BY DEF Shakedown!Conclude
  <1>2. Shakedown!Unique <=> AllNew(decisions)
    BY DistinctValues, ShakedownCounts
       DEF ShakedownInv, RunTyped, Shakedown!TypeOK, Shakedown!Unique
  <1>3. codes = {} => failures = {} /\ AllNew(decisions)
    BY <1>2 DEF Shakedown!If
  <1>4. bad = 0 => codes = {}
    <2>1. tally.fallback_answers = 0 => ~(tally.fallback_answers > 0)
      OBVIOUS
    <2> QED
      BY <1>2, <2>1 DEF ShakedownInv, Spotless, Shakedown!If
  <1> HIDE DEF codes
  <1>5. RunTyped'
    BY <1>1 DEF ShakedownInv, RunTyped, Shakedown!TypeOK, Shakedown!To, Opening, Requested
  <1>6. /\ Shakedown!One(Resolving) = 0 /\ Shakedown!One(Resolving)' = 0
        /\ Shakedown!One(step = "replay") = 0 /\ Shakedown!One(step = "replay")' = 0
    BY <1>1 DEF Shakedown!One, Resolving
  <1>7. \A kinds : Shakedown!To(kinds)' = Shakedown!To(kinds)
    BY <1>1 DEF Shakedown!To
  <1>8. Untroubled'
    <2>1. failures' = {} => Untroubled /\ failures = {}
      BY <1>1, <1>3 DEF ShakedownInv
    <2>2. Shakedown!TenantKnown' <=> Shakedown!TenantKnown
      BY <1>1 DEF Shakedown!TenantKnown
    <2>3. \A i : Shakedown!Body(i)' = Shakedown!Body(i)
      BY <1>1 DEF Shakedown!Body
    <2> QED
      BY <1>1, <1>6, <1>7, <2>1, <2>2, <2>3 DEF Untroubled, AllNew
  <1>9. Counted'
    <2>1. Posted' = Posted
      BY <1>1, <1>7 DEF Posted
    <2> QED
      BY <1>1, <1>6, <2>1 DEF ShakedownInv, Counted
  <1>10. Spotless'
    BY <1>1, <1>4 DEF ShakedownInv, Spotless, AllNew
  <1>11. Concluded'
    <2>1. Shakedown!Verdict(codes) = "PASS" <=> codes = {}
      BY DEF Shakedown!Verdict
    <2> QED
      BY <1>1, <1>3, <1>4, <2>1 DEF Concluded, AllNew
  <1> QED
    BY <1>5, <1>8, <1>9, <1>10, <1>11 DEF ShakedownInv

\* A run begins with the invariant, and every step keeps it.
LEMMA ShakedownBegins ==
    ASSUME Shakedown!ShakedownAssumption, Shakedown!Init
    PROVE  ShakedownInv
  <1>1. /\ setup.polls \in Nat \ {0} /\ setup.cycles \in Nat \ {0} /\ MaxBad \in Nat
    BY DEF Shakedown!Init, Shakedown!ShakedownAssumption
  <1>2. /\ answers = <<>> /\ decisions = <<>> /\ step = "health" /\ tally = Shakedown!NoTally
        /\ verdict = None /\ failures = {} /\ bad = 0 /\ polls = 0 /\ round = 0
    BY DEF Shakedown!Init
  <1>3. \A kinds : Shakedown!To(kinds) = {}
    BY <1>2 DEF Shakedown!To
  <1>4. /\ \A kinds : Cardinality(Shakedown!To(kinds)) = 0
        /\ Cardinality(Posted) = 0
    BY <1>3, FS_EmptySet DEF Posted
  <1>5. RunTyped
    BY <1>1, <1>2, <1>3 DEF Shakedown!Init, RunTyped, Shakedown!TypeOK, Shakedown!NoTally, Tallies, Requested
  <1>6. Shakedown!One(Resolving) = 0 /\ Shakedown!One(step = "replay") = 0
    BY <1>2 DEF Resolving, Shakedown!One
  <1>7. Untroubled
    BY <1>2, <1>3, <1>4, <1>6 DEF Untroubled
  <1>8. Counted
    BY <1>2, <1>4, <1>6 DEF Counted, Shakedown!NoTally
  <1>9. Spotless /\ Concluded
    BY <1>2 DEF Spotless, Concluded, AllNew, Shakedown!NoTally
  <1> QED
    BY <1>5, <1>7, <1>8, <1>9 DEF ShakedownInv

LEMMA ShakedownSteps ==
    ASSUME Shakedown!ShakedownAssumption, ShakedownInv, [Shakedown!Next]_Shakedown!vars
    PROVE  ShakedownInv'
  <1>1. CASE Shakedown!PollHealth
    BY <1>1, PollHealthKeeps
  <1>2. CASE Shakedown!Frontend \/ Shakedown!Session \/ Shakedown!Readiness
    BY <1>2, OpeningKeeps
  <1>3. CASE Shakedown!Scenario
    <2>1. ASSUME NEW id \in DecisionIds, NEW own \in BOOLEAN,
                 IF own /\ \A i \in DOMAIN decisions : decisions[i] # id
                   THEN UNCHANGED bad ELSE bad < MaxBad /\ bad' = bad + 1,
                 decisions' = Append(decisions, id), pending' = id,
                 failures' = failures \union
                   Shakedown!If(~own /\ Shakedown!TenantKnown, [code |-> "tenant_mismatch", of |-> id]),
                 tally' = [tally EXCEPT !.posts = @ + 1],
                 step' = IF round' % 2 = 1 THEN "approve" ELSE "reject",
                 answers' = Append(answers, [to |-> "scenario", of |-> id,
                              answer |-> Shakedown!Answer("2xx", Shakedown!If(own, "tenant"))])
          PROVE  ShakedownInv'
      <3>1. step' \in {"approve", "reject"}
        BY <2>1
      <3>2. /\ step = "scenario" /\ verdict = None /\ round' = round + 1
            /\ UNCHANGED <<setup, polls, verdict>>
        BY <1>3 DEF Shakedown!Scenario
      <3> QED
        BY <2>1, <3>1, <3>2, DecisionKeeps
    <2>2. ASSUME NEW a \in Shakedown!Broken \union {Shakedown!Answer("2xx", {})},
                 bad < MaxBad, bad' = bad + 1,
                 Shakedown!Fails(Shakedown!RouteFailure(a, "scenario_route")
                           \union Shakedown!If(Shakedown!Ok(a), "decision_id_missing")),
                 tally' = IF Shakedown!Ok(a) THEN [tally EXCEPT !.posts = @ + 1] ELSE tally,
                 step' \in Shakedown!AfterCycle(round'),
                 answers' = Append(answers, [to |-> "scenario", of |-> None, answer |-> a]),
                 UNCHANGED <<decisions, pending>>
          PROVE  ShakedownInv'
      <3>1. /\ step = "scenario" /\ verdict = None /\ round' = round + 1
            /\ UNCHANGED <<setup, polls, verdict>>
        BY <1>3 DEF Shakedown!Scenario
      <3> QED
        BY <2>2, <3>1, NoDecisionKeeps
    <2> QED
      BY <1>3, <2>1, <2>2 DEF Shakedown!Scenario
  <1>4. CASE Shakedown!Resolve("approve") \/ Shakedown!Resolve("reject")
    BY <1>4, ResolveKeeps
  <1>5. CASE Shakedown!Chat \/ Shakedown!Replay
    BY <1>5, ChatKeeps, ReplayKeeps
  <1>6. CASE \E to \in DOMAIN Shakedown!AfterState : Shakedown!StateRoute(to)
    <2>1. DOMAIN Shakedown!AfterState = {"decisions", "learning", "writeback", "observability"}
      BY DEF Shakedown!AfterState
    <2> QED
      BY <1>6, <2>1, StateRouteKeeps
  <1>7. CASE Shakedown!Conclude
    BY <1>7, ConcludeKeeps
  <1>8. CASE UNCHANGED Shakedown!vars
    <2>1. UNCHANGED <<setup, step, polls, round, pending, failures, tally, decisions, verdict, bad,
                      answers>>
      BY <1>8 DEF Shakedown!vars
    <2>2. RunTyped'
      BY <2>1 DEF ShakedownInv, RunTyped, Shakedown!TypeOK, Shakedown!To
    <2>3. \A kinds : Shakedown!To(kinds)' = Shakedown!To(kinds)
      BY <2>1 DEF Shakedown!To
    <2>4. Posted' = Posted /\ (Resolving' <=> Resolving)
      BY <2>1, <2>3 DEF Posted, Resolving
    <2>5. Untroubled'
      <3>1. Shakedown!TenantKnown' <=> Shakedown!TenantKnown
        BY <2>1 DEF Shakedown!TenantKnown
      <3>2. \A i : Shakedown!Body(i)' = Shakedown!Body(i)
        BY <2>1 DEF Shakedown!Body
      <3>3. Shakedown!One(Resolving)' = Shakedown!One(Resolving)
        BY <2>4 DEF Shakedown!One
      <3> QED
        BY <2>1, <2>3, <3>1, <3>2, <3>3 DEF ShakedownInv, Untroubled, AllNew
    <2>6. Counted'
      <3>1. /\ Shakedown!One(Resolving)' = Shakedown!One(Resolving)
            /\ Shakedown!One(step = "replay")' = Shakedown!One(step = "replay")
        BY <2>1, <2>4 DEF Shakedown!One
      <3> QED
        BY <2>1, <2>4, <3>1 DEF ShakedownInv, Counted
    <2>7. Spotless' /\ Concluded'
      BY <2>1 DEF ShakedownInv, Spotless, Concluded, AllNew
    <2> QED
      BY <2>2, <2>5, <2>6, <2>7 DEF ShakedownInv
  <1> QED
    BY <1>1, <1>2, <1>3, <1>4, <1>5, <1>6, <1>7, <1>8 DEF Shakedown!Next

\* What the invariant says of a verdict.
LEMMA VerdictHolds == ShakedownInv => Shakedown!DeploymentVerdictHolds
  <1> SUFFICES ASSUME ShakedownInv PROVE Shakedown!DeploymentVerdictHolds
    OBVIOUS
  <1>1. ASSUME verdict # None, verdict.verdict = "PASS" PROVE Shakedown!PassIsDeserved
    <2>1. failures = {} /\ AllNew(decisions) /\ step = "over"
      BY <1>1 DEF ShakedownInv, Concluded
    <2>2. Untroubled /\ answers \in Seq(Entries)
      BY DEF ShakedownInv, RunTyped
    <2>3. \A i \in DOMAIN answers : Acceptable(answers[i], setup.live_required)
      BY <2>1, <2>2 DEF Untroubled
    <2>4. /\ \E i \in Shakedown!To({"health"}) : "ok" \in Shakedown!Body(i)
          /\ \A i \in Shakedown!To({"scenario"}) : Shakedown!TenantKnown => "tenant" \in Shakedown!Body(i)
      BY <2>1, <2>2 DEF Untroubled
    <2>5. \A i, j \in Shakedown!To({"scenario"}) : i # j => answers[i].of # answers[j].of
      BY <2>1, <2>2 DEF Untroubled
    <2>6. Shakedown!Cardinality(Shakedown!To({"approve", "reject"}))
             = Shakedown!Cardinality(Shakedown!To({"scenario"}))
      <3>1. Shakedown!One(Resolving) = 0
        BY <2>1 DEF Shakedown!One, Resolving
      <3>2. Cardinality(Shakedown!To({"approve", "reject"})) \in Nat
        BY <2>2, FinitelyMany
      <3> QED
        BY <2>1, <2>2, <3>1, <3>2, ShakedownCounts DEF Untroubled
    <2>7. \A i \in Shakedown!To({"chat"}) : Shakedown!Ok(answers[i].answer) =>
             i + 1 \in Shakedown!To({"replay"})
      BY <2>1, <2>2 DEF Untroubled
    <2>8. \A kinds : \A i \in Shakedown!To(kinds) : i \in DOMAIN answers /\ answers[i].to \in kinds
      BY DEF Shakedown!To
    <2>9. /\ \A i \in DOMAIN answers :
                \/ Shakedown!Ok(answers[i].answer)
                \/ answers[i].to \in {"health", "frontend"} /\ answers[i].answer.status = "5xx"
                \/ /\ answers[i].to = "chat" /\ answers[i].answer.status = "503"
                   /\ ~setup.live_required
          /\ \A i \in Shakedown!To({"approve", "reject"}) : {"same", "status"} \subseteq Shakedown!Body(i)
          /\ \A i \in Shakedown!To({"approve"}) : "learning" \in Shakedown!Body(i)
          /\ \A i \in Shakedown!To({"chat"}) :
                setup.live_required => {"model", "provider"} \subseteq Shakedown!Body(i)
          /\ \A i \in Shakedown!To({"learning"}) : "events" \in Shakedown!Body(i)
      BY <2>3, <2>8 DEF Acceptable, Shakedown!Body
    <2>10. \A i \in Shakedown!To({"chat"}) : Shakedown!Ok(answers[i].answer) =>
             "fresh" \in Shakedown!Body(i) /\ answers[i + 1].to = "replay"
             /\ "replayed" \in Shakedown!Body(i + 1)
      BY <2>3, <2>7, <2>8 DEF Acceptable, Shakedown!Body
    <2> QED
      BY <2>4, <2>5, <2>6, <2>9, <2>10 DEF Shakedown!PassIsDeserved
  <1>2. Shakedown!PassIsDeserved
    BY <1>1 DEF Shakedown!PassIsDeserved
  <1>3. Shakedown!GoodStackPasses
    BY DEF Shakedown!GoodStackPasses, ShakedownInv, Concluded
  <1>4. Shakedown!CountsAgree
    <2> SUFFICES ASSUME step \in {"scenario", "verdict", "over"} PROVE
          /\ tally.approvals + tally.rejections + tally.mismatches = Len(decisions)
          /\ tally.observed_learning <= tally.expected_learning
          /\ tally.expected_learning <= tally.approvals
          /\ tally.model_answers + tally.fallback_answers = tally.calls
          /\ tally.replay_checks = tally.calls
          /\ tally.posts = Cardinality(Posted)
      BY ShakedownCounts DEF Shakedown!CountsAgree, Posted
    <2>1. Shakedown!One(Resolving) = 0 /\ Shakedown!One(step = "replay") = 0
      BY DEF Shakedown!One, Resolving
    <2>2. tally \in Tallies /\ Counted
      BY DEF ShakedownInv, RunTyped
    <2>3. /\ tally.approvals \in Nat /\ tally.rejections \in Nat /\ tally.mismatches \in Nat
          /\ tally.replay_checks \in Nat
      BY <2>2, Counters
    <2> QED
      BY <2>1, <2>2, <2>3 DEF Counted
  <1> QED
    BY <1>2, <1>3, <1>4 DEF Shakedown!DeploymentVerdictHolds

\* The inductive invariant holds in every state (scripts/deployment_shakedown.py).
THEOREM ShakedownInvariance ==
    ASSUME Shakedown!ShakedownAssumption
    PROVE  Shakedown!Spec => []ShakedownInv
  <1>1. Shakedown!Init => ShakedownInv
    BY ShakedownBegins
  <1>2. ShakedownInv /\ [Shakedown!Next]_Shakedown!vars => ShakedownInv'
    BY ShakedownSteps
  <1> QED
    BY <1>1, <1>2, PTL DEF Shakedown!Spec

\* However the answers of a stack fall, for any number of cycles and whenever the time is
\* over: it passes only when it deserved to, a stack that answers all as it should passes,
\* and the receipt counts what happened (run_deployment_shakedown).
THEOREM DeploymentVerdicts ==
    ASSUME Shakedown!ShakedownAssumption
    PROVE  Shakedown!Spec => []Shakedown!DeploymentVerdictHolds
  <1>1. ShakedownInv => Shakedown!DeploymentVerdictHolds
    BY VerdictHolds
  <1> QED
    BY <1>1, ShakedownInvariance, PTL
=============================================================================
