----------------------- MODULE FidelityRevalidation -----------------------
(***************************************************************************)
(* The scheduled revalidation of every store's twin fidelity: a pass runs   *)
(* one plan per store through the plan runner, and a second one that files  *)
(* a drift task when the score is below the review threshold. Both plans    *)
(* have one step and a plan id made of the tenant and the store alone, so   *)
(* both go by one journal run for ever. The task's idempotency key is the   *)
(* store's too.                                                             *)
(*                                                                          *)
(* A score is told apart by its side of the threshold. The service is one   *)
(* task of one backend process; a step of it may raise, and the process may *)
(* be killed between any two.                                               *)
(***************************************************************************)
EXTENDS Naturals, FiniteSets

CONSTANTS Stores,      \* onboarded stores of the deployment's tenant
          None,        \* nothing journaled, no task
          MaxChanges,  \* bound: changes of a store's fidelity
          MaxFaults    \* bound: calls that raise, or kills of the process

FidelityAssumption ==
    /\ Stores # {} /\ IsFiniteSet(Stores)
    /\ None \notin {"ok", "low", "open", "completed"} \cup Stores
    /\ MaxChanges \in Nat /\ MaxFaults \in Nat

Score == {"ok", "low"}

VARIABLES
    fidelity,   \* what twin_service.fidelity would compute now
    recomputed, \* journal, run fidelity_revalidation_<store>: the step's output
    drift,      \* journal, run fidelity_drift_<store>: the stores it filed for
    task,       \* the drift task of each store, and whether it was completed
    pass,       \* stores the running pass has still to look at
    pc, store, score,  \* where run_once is, the store in hand, the score it got
    changes, faults

journals == <<recomputed, drift>>
service  == <<pass, pc, store, score>>
vars == <<fidelity, recomputed, drift, task, pass, pc, store, score, changes, faults>>

At(step) == pc = step

Init ==
    /\ fidelity \in [Stores -> Score]
    /\ recomputed = [s \in Stores |-> None]
    /\ drift = {}
    /\ task = [s \in Stores |-> None]
    /\ pass = {} /\ pc = "sleep" /\ store = None /\ score = None
    /\ changes = 0 /\ faults = 0

\* Data feeds and calibration move a store's fidelity across the threshold.
Change(s) ==
    /\ changes < MaxChanges
    /\ changes' = changes + 1
    /\ fidelity' = [fidelity EXCEPT ![s] = IF @ = "ok" THEN "low" ELSE "ok"]
    /\ UNCHANGED <<journals, task, service, faults>>

\* The manager completes the task.
CompleteTask(s) ==
    /\ task[s] = "open"
    /\ task' = [task EXCEPT ![s] = "completed"]
    /\ UNCHANGED <<fidelity, journals, service, changes, faults>>

-----------------------------------------------------------------------------
\* The interval is over: run_once over _onboarded_stores.
BeginPass ==
    /\ At("sleep")
    /\ pass' = Stores /\ pc' = "next"
    /\ UNCHANGED <<fidelity, journals, task, store, score, changes, faults>>

\* The next store of the loop; in list order, which the model leaves open.
TakeStore(s) ==
    /\ At("next") /\ s \in pass
    /\ pass' = pass \ {s} /\ store' = s /\ pc' = "recompute"
    /\ UNCHANGED <<fidelity, journals, task, score, changes, faults>>

EndPass ==
    /\ At("next") /\ pass = {}
    /\ pc' = "sleep"
    /\ UNCHANGED <<fidelity, journals, task, pass, store, score, changes, faults>>

\* Mistake: a journaled score is not replayed but dropped.
RecomputeForgets ==
    /\ At("recompute")
    /\ \/ /\ recomputed[store] # None
          /\ pc' = "next" /\ store' = None
          /\ UNCHANGED score
       \/ /\ recomputed[store] = None
          /\ score' = fidelity[store]
          /\ pc' = "journal"
          /\ UNCHANGED store
    /\ UNCHANGED <<fidelity, journals, task, pass, changes, faults>>

\* PlanRunner on the revalidation plan: a journaled score is replayed, else
\* the capability computes one.
Recompute ==
    /\ At("recompute")
    /\ \/ /\ recomputed[store] # None
          /\ score' = recomputed[store]
          /\ pc' = "compare"
       \/ /\ recomputed[store] = None
          /\ score' = fidelity[store]
          /\ pc' = "journal"
    /\ UNCHANGED <<fidelity, journals, task, pass, store, changes, faults>>

JournalScore ==
    /\ At("journal")
    /\ recomputed' = [recomputed EXCEPT ![store] = score]
    /\ pc' = "compare"
    /\ UNCHANGED <<fidelity, drift, task, pass, store, score, changes, faults>>

\* Mistake: the drift task is filed when the score is fine.
CompareInverted ==
    /\ At("compare")
    /\ pc' = IF score = "low" THEN "next" ELSE "file"
    /\ UNCHANGED <<fidelity, journals, task, pass, store, score, changes, faults>>

\* if score < _FIDELITY_TASK_THRESHOLD.
Compare ==
    /\ At("compare")
    /\ pc' = IF score = "low" THEN "file" ELSE "next"
    /\ UNCHANGED <<fidelity, journals, task, pass, store, score, changes, faults>>

\* _file_drift_task: a journaled drift plan is replayed; else create_manager_task,
\* which returns the task that already has the key.
FileDriftTask ==
    /\ At("file")
    /\ \/ /\ store \in drift
          /\ pc' = "next"
          /\ UNCHANGED task
       \/ /\ store \notin drift
          /\ task' = [task EXCEPT ![store] = IF @ = None THEN "open" ELSE @]
          /\ pc' = "journal_task"
    /\ UNCHANGED <<fidelity, journals, pass, store, score, changes, faults>>

JournalTask ==
    /\ At("journal_task")
    /\ drift' = drift \cup {store}
    /\ pc' = "next"
    /\ UNCHANGED <<fidelity, recomputed, task, pass, store, score, changes, faults>>

\* A step of a plan raises: its plan fails and the loop goes on with the next
\* store (run_once's continue, or a drift plan that is not done).
PlanFails ==
    /\ pc \in {"recompute", "journal", "file", "journal_task"} /\ faults < MaxFaults
    /\ faults' = faults + 1
    /\ pc' = "next"
    /\ UNCHANGED <<fidelity, journals, task, pass, store, score, changes>>

\* Anything else raises into _run, or the process is killed and started again:
\* the pass is lost, the next one starts over.
PassLost ==
    /\ ~ At("sleep") /\ faults < MaxFaults
    /\ faults' = faults + 1
    /\ pass' = {} /\ pc' = "sleep" /\ store' = None /\ score' = None
    /\ UNCHANGED <<fidelity, journals, task, changes>>

-----------------------------------------------------------------------------
RunOnce == BeginPass \/ (\E s \in Stores : TakeStore(s)) \/ EndPass \/ Recompute
              \/ JournalScore \/ Compare \/ FileDriftTask \/ JournalTask

Next == RunOnce \/ PlanFails \/ PassLost
           \/ \E s \in Stores : Change(s) \/ CompleteTask(s)

Spec == Init /\ [][Next]_vars

\* The service's loop is an asyncio task that keeps running; the feeds and the
\* manager owe nothing.
FairSpec == Spec /\ WF_vars(RunOnce)

-----------------------------------------------------------------------------
(* Properties. *)

\* The journal, the sink and run_once's locals hold what their code stores.
TypeOK ==
    /\ fidelity \in [Stores -> Score]
    /\ recomputed \in [Stores -> Score \cup {None}] /\ drift \subseteq Stores
    /\ task \in [Stores -> {"open", "completed", None}]
    /\ pass \subseteq Stores
    /\ pc \in {"sleep", "next", "recompute", "journal", "compare", "file", "journal_task"}
    /\ store \in Stores \cup {None} /\ score \in Score \cup {None}
    /\ pc \notin {"sleep", "next"} => store # None

\* A drift task stands for a score that was really seen and journaled as low,
\* and the journal of the drift plan never claims a task that was not filed.
DriftIsJustified ==
    \A s \in Stores : /\ task[s] # None => recomputed[s] = "low"
                      /\ s \in drift => task[s] # None

\* A low score that was journaled gets its task, whatever fails or is killed
\* between the two plans: the next pass replays the score and files.
SeenDriftGetsTask == \A s \in Stores : recomputed[s] = "low" ~> task[s] # None

\* What the schedule is for: a store whose fidelity drops below the threshold
\* gets a manager task, unless the fidelity recovers.
DriftGetsTask == \A s \in Stores : fidelity[s] = "low" ~> (fidelity[s] = "ok" \/ task[s] # None)
=============================================================================
