-------------------------- MODULE MCCascadeWorker --------------------------
(***************************************************************************)
(* Model-checking instances of CascadeWorker: the module itself, with the   *)
(* constants of the configuration, and beside it a race inside one process. *)
(* A behaviour is of one of the two.                                        *)
(***************************************************************************)
EXTENDS CascadeWorker, TLC

CONSTANTS e1, e2, c1, d1, d2, w1, w2, t1, t2

VARIABLE instance       \* the instance this behaviour is of

\* One thread in each of two processes.
TwoProcesses == (t1 :> w1) @@ (t2 :> w2)
\* The loop and the /worker/process-one route of one process.
SharedProcess == (t1 :> w1) @@ (t2 :> w1)
\* e1 leads to a decision; e2 to none.
OneEach == (e1 :> {d1}) @@ (e2 :> {NoDecision})
\* The cascade of e1 may come out in two ways.
TwoWays == (e1 :> {d1, d2}) @@ (e2 :> {NoDecision})

\* Two threads of one process on one pending list, a failing call, trimming.
Race == INSTANCE CascadeWorker WITH
            Outcomes <- TwoWays, Consumers <- {w1}, ConsumerOf <- SharedProcess,
            MaxRetries <- 3, MaxLen <- 1, MaxFaults <- 1, MaxCrashes <- 0

ASSUME InstancesAreSound == WorkerAssumption /\ Race!WorkerAssumption

\* In both, every run of an event agrees with the others on whether it needs a
\* decision, so that nothing less than Settled is checked.
ASSUME InstancesAreDecisive == \A e \in Events : Decisive(e) /\ Race!Decisive(e)

MCInit ==
    \/ instance = "race" /\ Race!Init
    \/ instance = "live" /\ Init

\* What is published in the race are copies of e1.
RaceStep ==
    /\ instance = "race" /\ Race!Next /\ UNCHANGED instance
    /\ \A m \in DOMAIN bus' : bus'[m].event = e1
LiveStep == instance = "live" /\ Next /\ UNCHANGED instance

MCNext == RaceStep \/ LiveStep

MCSpec == MCInit /\ [][MCNext]_<<vars, instance>>

\* The behaviours of the module itself.
LiveSpec == instance = "live" /\ Init /\ [][LiveStep]_<<vars, instance>>

\* WorkerFairness, in the instance whose liveness is checked.
MCFairSpec ==
    /\ MCSpec
    /\ \A t \in Threads :
           WF_vars(instance = "live" /\ ProcessOne(t) /\ UNCHANGED instance)
    /\ \A m \in 1..MaxPublish :
           WF_vars(instance = "live" /\ Sweep(m) /\ UNCHANGED instance)

\* (CascadeWorker) Every message is settled or dead-lettered in the end.
EveryLiveMessageEnds == instance = "live" => EveryMessageEnds
=============================================================================
