----------------------- MODULE MCDecisionLifecycle -----------------------
(* Model-checking instance of DecisionLifecycle. *)
EXTENDS DecisionLifecycle, TLC

CONSTANTS d1, d2, ca, cb, m1, ra, rb, t1, t2

\* Approving cb measures more than approving ca.
Units == (ca :> 2) @@ (cb :> 3)
Start == (ca :> 1) @@ (cb :> 2)
\* Any content and any status, or one pending recommendation for each decision.
AnyProposal == Decisions \X Contents \X Status
OnePending == {<<d1, ca, "pending">>, <<d2, cb, "pending">>}
OneMetric == [d \in Decisions |-> m1]

=============================================================================
