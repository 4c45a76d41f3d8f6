--------------------------- MODULE GovernedPlans ---------------------------
(***************************************************************************)
(* The two users of the durable journal beside the cascades: the plan       *)
(* runner, for any plans, and the scheduled revalidation of twin fidelity,  *)
(* which runs its two plans per store the same way. They share no state.    *)
(***************************************************************************)
EXTENDS Naturals, Sequences, FiniteSets

CONSTANTS Plans, Keys, StepsOf, Writes, Invalid, Filed, Runners, Stores,
          Nothing,         \* no output, no plan, no task
          MaxRuns, MaxReads, MaxPlanFaults, MaxCrashes, MaxChanges, MaxFailures

VARIABLES
    status, journal, filed, reads, pc, plan, at, out, outputs, results, runs, faults, crashes,
    fidelity, recomputed, drift, task, pass, phase, store, score, changes, failures

planVars == <<status, journal, filed, reads, pc, plan, at, out, outputs, results, runs,
              faults, crashes>>
fidelityVars ==
    <<fidelity, recomputed, drift, task, pass, phase, store, score, changes, failures>>

Runner   == INSTANCE PlanRunner WITH None <- Nothing, MaxFaults <- MaxPlanFaults
Fidelity == INSTANCE FidelityRevalidation
                WITH None <- Nothing, pc <- phase, faults <- failures, MaxFaults <- MaxFailures

\* A plan answered as done has every step journaled and every write filed
\* (PlanRunner.run), and a drift task stands for a score that was low (run_once).
PlansAreBacked == Runner!DoneIsBacked /\ Fidelity!DriftIsJustified
=============================================================================
