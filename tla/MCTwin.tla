------------------------------- MODULE MCTwin -------------------------------
(***************************************************************************)
(* Small instances of what keeps the digital twin: its projection, the      *)
(* governed plans run over the journal, and the scheduled revalidation of   *)
(* its fidelity. They share no state, so a behaviour is about one of them,  *)
(* its subject.                                                             *)
(***************************************************************************)
EXTENDS TwinProjection, GovernedPlans, TLC

CONSTANTS p, q, b1, t1, p1, p2, look, file, r1, r2, s1, s2

VARIABLE subject

\* The projection: two events and a batch on two properties; the second event
\* and the batch carry readings of one moment from sources of different precedence.
Reading(id, prop, moment, precedence) ==
    [id |-> id, prop |-> prop, at |-> moment, precedence |-> precedence]
Readings ==
    (1 :> <<Reading(1, p, 1, 10), Reading(2, q, 1, 10)>>) @@ (2 :> <<Reading(3, p, 2, 30)>>)
    @@ (b1 :> <<Reading(4, p, 2, 50)>>)
Belonging == (p :> "product") @@ (q :> "asset")
OneAsset == <<"asset">>

\* The plans: one observes and then files a task, the other is refused by validation.
TwoPlans == (p1 :> <<look, file>>) @@ (p2 :> <<file>>)

ASSUME TwinAssumptions ==
    TwinAssumption /\ Runner!PlanAssumption /\ Fidelity!FidelityAssumption

MCInit ==
    /\ subject \in {"twin", "plan", "fidelity"}
    /\ Init /\ Runner!Init /\ Fidelity!Init
    /\ subject # "fidelity" => \A s \in Stores : fidelity[s] = "ok"

MCNext ==
    /\ UNCHANGED subject
    /\ \/ subject = "twin" /\ Next /\ UNCHANGED <<planVars, fidelityVars>>
       \/ subject = "plan" /\ Runner!Next /\ UNCHANGED <<vars, fidelityVars>>
       \/ subject = "fidelity" /\ Fidelity!Next /\ UNCHANGED <<vars, planVars>>

\* The loops of the twin's worker and of the scheduler go round after any
\* exception, and are started again with the process (restart: unless-stopped).
Fairness ==
    /\ WF_vars(subject = "twin" /\ (\E e \in Events : Deliver(e))
               /\ UNCHANGED <<subject, planVars, fidelityVars>>)
    /\ WF_vars(subject = "twin" /\ Step("twin")
               /\ UNCHANGED <<subject, planVars, fidelityVars>>)
    /\ WF_fidelityVars(subject = "fidelity" /\ Fidelity!RunOnce
                       /\ UNCHANGED <<subject, vars, planVars>>)

MCSpec == MCInit /\ [][MCNext]_<<subject, vars, planVars, fidelityVars>> /\ Fairness

\* (FidelityRevalidation) A pass that reads a low score leaves a task.
SeenDriftGetsTask == subject = "fidelity" => Fidelity!SeenDriftGetsTask
=============================================================================
