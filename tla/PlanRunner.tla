---------------------------- MODULE PlanRunner ----------------------------
(***************************************************************************)
(* Governed plans: PlanRunner.run executes the steps of a plan in order     *)
(* over the durable journal, keyed by the plan's run id and the step's key, *)
(* so that a retried plan replays what it has done. Runners are the         *)
(* processes that serve POST /mlops/plans/execute and the schedules; two    *)
(* may run one plan, one may die in the middle, a store call may raise.     *)
(*                                                                          *)
(* A read capability returns an observation (attempts are told apart by a   *)
(* number), a write capability the task its idempotency key stands for.     *)
(***************************************************************************)
EXTENDS Naturals, Sequences, FiniteSets

CONSTANTS Plans,      \* plan ids
          Keys,       \* step keys
          StepsOf,    \* the step keys of each plan, in order
          Writes,     \* keys whose capability creates a manager task
          Invalid,    \* plans validate_plan finds a problem in
          Filed,      \* a write's output: the task of its idempotency key
          Runners, None,
          MaxRuns,    \* bound: plan executions
          MaxReads,   \* bound: observations told apart
          MaxFaults,  \* bound: calls that raise
          MaxCrashes  \* bound: processes killed

PlanAssumption ==
    /\ StepsOf \in [Plans -> Seq(Keys) \ {<<>>}]
    /\ Writes \subseteq Keys /\ Invalid \subseteq Plans
    /\ None \notin Nat \cup Plans \cup {Filed} /\ Filed \notin Nat
    /\ MaxRuns \in Nat /\ MaxReads \in Nat \ {0} /\ MaxFaults \in Nat /\ MaxCrashes \in Nat

VARIABLES
    status,    \* cascade_runs: plan -> "none", "running", "done", "failed"
    journal,   \* cascade_steps: plan -> key -> output or None
    filed,     \* write-back tasks: <<plan, key>> pairs of executed writes
    reads,     \* observations made so far (saturating)
    pc, plan,  \* per runner: next step of _run_bound, the plan it runs
    at,        \* per runner: index of the step it is on
    out,       \* per runner: output in hand
    outputs,   \* per runner: result.outputs so far
    results,   \* answers given: plan, status, outputs
    runs, faults, crashes

stores  == <<status, journal, filed, reads>>
locals  == <<pc, plan, at, out, outputs>>
bounds  == <<runs, faults, crashes>>
vars == <<status, journal, filed, reads, pc, plan, at, out, outputs, results,
          runs, faults, crashes>>

Output == 1..MaxReads \cup {Filed}
Steps == {"idle", "start", "get", "handler", "journaled_get", "journaled_put", "finish_done",
          "finish_failed"}
Blank == [k \in Keys |-> None]

Key(r) == StepsOf[plan[r]][at[r]]
At(r, step) == pc[r] = step
Goto(r, step) == pc' = [pc EXCEPT ![r] = step]

Init ==
    /\ status = [p \in Plans |-> "none"]
    /\ journal = [p \in Plans |-> Blank]
    /\ filed = {} /\ reads = 0
    /\ pc = [r \in Runners |-> "idle"] /\ plan = [r \in Runners |-> None]
    /\ at = [r \in Runners |-> 1] /\ out = [r \in Runners |-> None]
    /\ outputs = [r \in Runners |-> Blank]
    /\ results = {} /\ runs = 0 /\ faults = 0 /\ crashes = 0

Forget(r) ==
    /\ Goto(r, "idle")
    /\ plan' = [plan EXCEPT ![r] = None] /\ at' = [at EXCEPT ![r] = 1]
    /\ out' = [out EXCEPT ![r] = None] /\ outputs' = [outputs EXCEPT ![r] = Blank]

-----------------------------------------------------------------------------
\* run: a plan with a problem is answered "failed" and touches nothing.
Run(r, p) ==
    /\ At(r, "idle") /\ runs < MaxRuns
    /\ runs' = runs + 1
    /\ \/ /\ p \in Invalid
          /\ results' = results \cup {[plan |-> p, status |-> "failed", outputs |-> Blank]}
          /\ UNCHANGED <<pc, plan>>
       \/ /\ p \notin Invalid
          /\ plan' = [plan EXCEPT ![r] = p]
          /\ Goto(r, "start")
          /\ UNCHANGED results
    /\ UNCHANGED <<stores, at, out, outputs, faults, crashes>>

\* start_run: an existing run keeps its status.
StartRun(r) ==
    /\ At(r, "start")
    /\ status' = [status EXCEPT ![plan[r]] = IF @ = "none" THEN "running" ELSE @]
    /\ Goto(r, "get")
    /\ UNCHANGED <<journal, filed, reads, plan, at, out, outputs, results, bounds>>

\* result.outputs[step.key] = output, publish progress, next step or the end.
StepDone(r, o) ==
    /\ outputs' = [outputs EXCEPT ![r][Key(r)] = o]
    /\ out' = [out EXCEPT ![r] = None]
    /\ IF at[r] < Len(StepsOf[plan[r]])
       THEN at' = [at EXCEPT ![r] = @ + 1] /\ Goto(r, "get")
       ELSE at' = at /\ Goto(r, "finish_done")

\* Mistake: a journaled step counts as the end of the plan.
StepGetStops(r) ==
    /\ At(r, "get")
    /\ \/ /\ journal[plan[r]][Key(r)] # None
          /\ Goto(r, "finish_done")
          /\ UNCHANGED <<at, out, outputs>>
       \/ /\ journal[plan[r]][Key(r)] = None
          /\ Goto(r, "handler")
          /\ UNCHANGED <<at, out, outputs>>
    /\ UNCHANGED <<stores, plan, results, bounds>>

\* _run_step: a journaled step is replayed, not executed.
StepGet(r) ==
    /\ At(r, "get")
    /\ \/ /\ journal[plan[r]][Key(r)] # None
          /\ StepDone(r, journal[plan[r]][Key(r)])
       \/ /\ journal[plan[r]][Key(r)] = None
          /\ Goto(r, "handler")
          /\ UNCHANGED <<at, out, outputs>>
    /\ UNCHANGED <<stores, plan, results, bounds>>

\* The capability: create_manager_task files the task of its idempotency key,
\* recompute_twin_fidelity observes.
Handler(r) ==
    /\ At(r, "handler")
    /\ IF Key(r) \in Writes
       THEN /\ filed' = filed \cup {<<plan[r], Key(r)>>}
            /\ out' = [out EXCEPT ![r] = Filed]
            /\ UNCHANGED reads
       ELSE /\ reads' = IF reads < MaxReads THEN reads + 1 ELSE reads
            /\ out' = [out EXCEPT ![r] = reads']
            /\ UNCHANGED filed
    /\ Goto(r, "journaled_get")
    /\ UNCHANGED <<status, journal, plan, at, outputs, results, bounds>>

\* journaled looks again: an output another runner journaled meanwhile stays,
\* and the step still reports its own.
JournaledGet(r) ==
    /\ At(r, "journaled_get")
    /\ \/ /\ journal[plan[r]][Key(r)] # None
          /\ StepDone(r, out[r])
       \/ /\ journal[plan[r]][Key(r)] = None
          /\ Goto(r, "journaled_put")
          /\ UNCHANGED <<at, out, outputs>>
    /\ UNCHANGED <<stores, plan, results, bounds>>

\* put: INSERT ... ON CONFLICT DO NOTHING.
JournaledPut(r) ==
    /\ At(r, "journaled_put")
    /\ journal' = [journal EXCEPT ![plan[r]][Key(r)] = IF @ = None THEN out[r] ELSE @]
    /\ StepDone(r, out[r])
    /\ UNCHANGED <<status, filed, reads, plan, results, bounds>>

\* A capability or a journal call of a step raises: the plan fails there.
StepRaises(r) ==
    /\ pc[r] \in {"get", "handler", "journaled_get", "journaled_put"} /\ faults < MaxFaults
    /\ faults' = faults + 1
    /\ out' = [out EXCEPT ![r] = None]
    /\ Goto(r, "finish_failed")
    /\ UNCHANGED <<stores, plan, at, outputs, results, runs, crashes>>

\* finish_run: the last runner to finish sets the status.
FinishRun(r) ==
    LET s == IF At(r, "finish_done") THEN "done" ELSE "failed"
    IN  /\ pc[r] \in {"finish_done", "finish_failed"}
        /\ status' = [status EXCEPT ![plan[r]] = s]
        /\ results' = results \cup {[plan |-> plan[r], status |-> s, outputs |-> outputs[r]]}
        /\ Forget(r)
        /\ UNCHANGED <<journal, filed, reads, bounds>>

\* The process dies, or start_run or finish_run raises out of run.
Crash(r) ==
    /\ ~ At(r, "idle") /\ crashes < MaxCrashes
    /\ crashes' = crashes + 1
    /\ Forget(r)
    /\ UNCHANGED <<stores, results, runs, faults>>

-----------------------------------------------------------------------------
Execute(r) == StartRun(r) \/ StepGet(r) \/ Handler(r) \/ JournaledGet(r)
                 \/ JournaledPut(r) \/ FinishRun(r)

Next == \E r \in Runners :
            (\E p \in Plans : Run(r, p)) \/ Execute(r) \/ StepRaises(r) \/ Crash(r)

Spec == Init /\ [][Next]_vars

-----------------------------------------------------------------------------
(* Properties. *)

StepSet(p) == {StepsOf[p][i] : i \in DOMAIN StepsOf[p]}

\* The journal, the tasks and the locals of a runner hold what their code stores.
TypeOK ==
    /\ status \in [Plans -> {"none", "running", "done", "failed"}]
    /\ journal \in [Plans -> [Keys -> Output \cup {None}]]
    /\ filed \subseteq Plans \X Writes /\ reads \in 0..MaxReads
    /\ pc \in [Runners -> Steps] /\ plan \in [Runners -> Plans \cup {None}]
    /\ at \in [Runners -> Nat] /\ out \in [Runners -> Output \cup {None}]
    /\ outputs \in [Runners -> [Keys -> Output \cup {None}]]
    /\ \A a \in results : a.plan \in Plans /\ a.status \in {"done", "failed"}
    /\ runs \in 0..MaxRuns /\ faults \in 0..MaxFaults /\ crashes \in 0..MaxCrashes

\* An answer "done" is backed by the journal: every step has its output there,
\* with it the compensation of every write, and every write has its task.
DoneIsBacked ==
    \A a \in results : a.status = "done" =>
        \A k \in StepSet(a.plan) :
            /\ journal[a.plan][k] # None /\ a.outputs[k] # None
            /\ k \in Writes => <<a.plan, k>> \in filed
=============================================================================
