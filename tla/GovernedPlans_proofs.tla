------------------------ MODULE GovernedPlans_proofs ------------------------
(***************************************************************************)
(* Proofs about the governed plans: what the plan runner answers rests on   *)
(* its journal and its write-backs, for any plans, any number of runners,   *)
(* faults and crashes; and the scheduled revalidation, which runs its two   *)
(* plans per store the same way, files no task without a low score. The two *)
(* share no state, so each is proved from its own specification.            *)
(***************************************************************************)
EXTENDS GovernedPlans, TLAPS

INSTANCE PlanRunner WITH None <- Nothing, MaxFaults <- MaxPlanFaults

-----------------------------------------------------------------------------
(* The plan runner. *)

\* Step k of plan p has happened and an answer o may report it.
StepBacked(p, k, o) ==
    /\ journal[p][k] # Nothing /\ o[k] # Nothing
    /\ k \in Writes => <<p, k>> \in filed

\* What a runner may rely on between two calls, whatever another runner of the
\* same plan did meanwhile: the steps behind it are backed.
Progress(r) ==
    /\ At(r, "idle") => at[r] = 1
    /\ At(r, "start") => at[r] = 1
    /\ ~ At(r, "idle") => /\ plan[r] \in Plans
                          /\ at[r] \in 1..Len(StepsOf[plan[r]])
                          /\ \A i \in 1..(at[r] - 1) :
                                StepBacked(plan[r], StepsOf[plan[r]][i], outputs[r])
    /\ At(r, "finish_done") => /\ at[r] = Len(StepsOf[plan[r]])
                               /\ StepBacked(plan[r], Key(r), outputs[r])
    /\ pc[r] \in {"journaled_get", "journaled_put"} =>
          /\ out[r] \in Output
          /\ Key(r) \in Writes => <<plan[r], Key(r)>> \in filed

\* A journaled write was filed: the capability runs before its step is journaled.
JournalIsFiled ==
    \A p \in Plans, k \in Writes : journal[p][k] # Nothing => <<p, k>> \in filed

\* The inductive invariant.
PlanInv ==
    /\ TypeOK
    /\ \A r \in Runners : Progress(r)
    /\ JournalIsFiled
    /\ DoneIsBacked

\* The stores of a plan only grow: no output is taken back, no task withdrawn.
StoresGrow ==
    /\ filed \subseteq filed'
    /\ \A p \in Plans, k \in Keys : journal[p][k] # Nothing => journal'[p][k] # Nothing

\* A runner whose locals a step leaves alone keeps its progress when the stores grow.
LEMMA BystanderStep ==
    ASSUME PlanAssumption, TypeOK, StoresGrow, NEW q \in Runners, Progress(q),
           pc'[q] = pc[q], plan'[q] = plan[q], at'[q] = at[q], out'[q] = out[q],
           outputs'[q] = outputs[q]
    PROVE  Progress(q)'
  <1>1. CASE At(q, "idle")
    BY <1>1 DEF Progress, At
  <1>2. CASE ~ At(q, "idle")
    <2>1. /\ plan[q] \in Plans /\ at[q] \in 1..Len(StepsOf[plan[q]])
          /\ \A i \in 1..(at[q] - 1) :
                StepBacked(plan[q], StepsOf[plan[q]][i], outputs[q])
      BY <1>2 DEF Progress
    <2>2. \A i \in 1..Len(StepsOf[plan[q]]) : StepsOf[plan[q]][i] \in Keys
      BY <2>1 DEF PlanAssumption
    <2>3. \A i \in 1..(at[q] - 1) : i \in 1..Len(StepsOf[plan[q]])
      BY <2>1 DEF PlanAssumption
    <2>4. \A i \in 1..(at[q] - 1) :
             /\ journal'[plan[q]][StepsOf[plan[q]][i]] # Nothing
             /\ outputs[q][StepsOf[plan[q]][i]] # Nothing
             /\ StepsOf[plan[q]][i] \in Writes
                  => <<plan[q], StepsOf[plan[q]][i]>> \in filed'
      BY <2>1, <2>2, <2>3 DEF StepBacked, StoresGrow
    <2>5. Key(q) \in Keys
      BY <2>1, <2>2 DEF Key
    <2>6. At(q, "finish_done") =>
             /\ journal'[plan[q]][Key(q)] # Nothing /\ outputs[q][Key(q)] # Nothing
             /\ Key(q) \in Writes => <<plan[q], Key(q)>> \in filed'
      BY <2>1, <2>5 DEF Progress, StepBacked, StoresGrow
    <2>7. Key(q)' = Key(q)
      BY DEF Key
    <2> QED
      BY <1>2, <2>1, <2>4, <2>6, <2>7 DEF Progress, StepBacked, StoresGrow, At
  <1> QED
    BY <1>1, <1>2

\* Answers given stay backed when the stores grow.
LEMMA AnswersStay ==
    ASSUME PlanAssumption, TypeOK, StoresGrow, DoneIsBacked, results' = results
    PROVE  DoneIsBacked'
  <1>1. \A p \in Plans : StepSet(p) \subseteq Keys
    BY DEF StepSet, PlanAssumption
  <1>2. \A a \in results : a.plan \in Plans
    BY DEF TypeOK
  <1> QED
    BY <1>1, <1>2 DEF DoneIsBacked, StoresGrow

\* A runner that is executing is on a step of its plan.
LEMMA KeyOfStep ==
    ASSUME PlanAssumption, TypeOK, NEW r \in Runners, Progress(r), ~ At(r, "idle")
    PROVE  /\ plan[r] \in Plans /\ at[r] \in 1..Len(StepsOf[plan[r]]) /\ Key(r) \in Keys
           /\ StepsOf[plan[r]] \in Seq(Keys) /\ Len(StepsOf[plan[r]]) \in Nat
  BY DEF Progress, Key, PlanAssumption

\* A step that ends with an output that is journaled and filed moves its runner on.
LEMMA StepDoneStep ==
    ASSUME PlanAssumption, TypeOK, StoresGrow, NEW r \in Runners, Progress(r),
           pc[r] \in {"get", "journaled_get", "journaled_put"}, plan' = plan,
           NEW o \in Output, StepDone(r, o), journal'[plan[r]][Key(r)] # Nothing,
           Key(r) \in Writes => <<plan[r], Key(r)>> \in filed'
    PROVE  Progress(r)'
  <1> DEFINE S == StepsOf[plan[r]]
  <1>1. /\ plan[r] \in Plans /\ at[r] \in 1..Len(S) /\ Key(r) \in Keys
        /\ S \in Seq(Keys) /\ Len(S) \in Nat
    BY KeyOfStep DEF At
  <1>2. \A i \in 1..(at[r] - 1) :
           /\ journal[plan[r]][S[i]] # Nothing /\ outputs[r][S[i]] # Nothing
           /\ S[i] \in Writes => <<plan[r], S[i]>> \in filed
    BY DEF Progress, StepBacked, At
  <1>3. o # Nothing
    BY DEF PlanAssumption, Output
  <1>4. outputs'[r] = [outputs[r] EXCEPT ![Key(r)] = o] /\ outputs[r] \in [Keys -> Output \cup {Nothing}]
    BY DEF StepDone, TypeOK
  <1>5. outputs'[r][Key(r)] = o /\ \A k \in Keys : outputs[r][k] # Nothing => outputs'[r][k] # Nothing
    BY <1>1, <1>3, <1>4
  <1>6. \A i \in 1..(at[r] - 1) : i \in 1..Len(S) /\ S[i] \in Keys
    BY <1>1
  <1>7. \A i \in 1..(at[r] - 1) :
           /\ journal'[plan[r]][S[i]] # Nothing /\ outputs'[r][S[i]] # Nothing
           /\ S[i] \in Writes => <<plan[r], S[i]>> \in filed'
    BY <1>1, <1>2, <1>5, <1>6 DEF StoresGrow
  <1>8. /\ journal'[plan[r]][S[at[r]]] # Nothing /\ outputs'[r][S[at[r]]] # Nothing
        /\ S[at[r]] \in Writes => <<plan[r], S[at[r]]>> \in filed'
    BY <1>3, <1>5 DEF Key
  <1>9. plan'[r] = plan[r]
    OBVIOUS
  <1>10. CASE at[r] < Len(S)
    <2>1. at'[r] = at[r] + 1 /\ pc'[r] = "get"
      BY <1>10 DEF StepDone, Goto, TypeOK
    <2>2. \A i \in 1..(at'[r] - 1) : i \in 1..(at[r] - 1) \/ i = at[r]
      BY <2>1, <1>1
    <2>3. at'[r] \in 1..Len(S)
      BY <2>1, <1>1, <1>10
    <2>4. \A i \in 1..(at'[r] - 1) :
           /\ journal'[plan[r]][S[i]] # Nothing /\ outputs'[r][S[i]] # Nothing
           /\ S[i] \in Writes => <<plan[r], S[i]>> \in filed'
      BY <1>7, <1>8, <2>2
    <2> QED
      BY <1>1, <1>9, <2>1, <2>3, <2>4 DEF Progress, StepBacked, At
  <1>11. CASE ~ (at[r] < Len(S))
    <2>1. at'[r] = at[r] /\ pc'[r] = "finish_done" /\ at[r] = Len(S)
      BY <1>1, <1>11 DEF StepDone, Goto, TypeOK
    <2> QED
      BY <1>1, <1>7, <1>8, <1>9, <2>1 DEF Progress, StepBacked, At, Key
  <1> QED
    BY <1>10, <1>11

\* The runner's next step keeps every variable within its type.
LEMMA TypeStep ==
    ASSUME PlanAssumption, PlanInv, Next PROVE TypeOK'
  <1> USE DEF PlanAssumption
  <1>0. TypeOK
    BY DEF PlanInv
  <1>1. PICK r \in Runners :
          (\E p \in Plans : Run(r, p)) \/ Execute(r) \/ StepRaises(r) \/ Crash(r)
    BY DEF Next
  <1>2. Progress(r)
    BY DEF PlanInv
  <1>3. Blank \in [Keys -> Output \cup {Nothing}]
    BY DEF Blank
  <1>4. ASSUME NEW o \in Output, StepDone(r, o), pc[r] \in {"get", "journaled_get", "journaled_put"}
        PROVE  /\ outputs' \in [Runners -> [Keys -> Output \cup {Nothing}]]
               /\ out' \in [Runners -> Output \cup {Nothing}]
               /\ at' \in [Runners -> Nat] /\ pc' \in [Runners -> Steps]
    <2>1. Key(r) \in Keys
      BY <1>0, <1>2, <1>4, KeyOfStep DEF At
    <2>2. outputs' \in [Runners -> [Keys -> Output \cup {Nothing}]]
      BY <1>0, <1>4, <2>1 DEF StepDone, TypeOK
    <2>3. pc' \in [Runners -> Steps]
      BY <1>0, <1>4 DEF StepDone, TypeOK, Goto, Steps
    <2>4. at' \in [Runners -> Nat]
      BY <1>0, <1>4 DEF StepDone, TypeOK
    <2>5. out' \in [Runners -> Output \cup {Nothing}]
      BY <1>0, <1>4 DEF StepDone, TypeOK
    <2> QED
      BY <2>2, <2>3, <2>4, <2>5
  <1>5. ASSUME NEW p \in Plans, Run(r, p) PROVE TypeOK'
    <2>1. CASE p \in Invalid
      BY <1>0, <1>5, <2>1 DEF Run, TypeOK, stores
    <2>2. CASE p \notin Invalid
      <3>1. pc' \in [Runners -> Steps] /\ plan' \in [Runners -> Plans \cup {Nothing}]
        <4>1. pc' = [pc EXCEPT ![r] = "start"] /\ plan' = [plan EXCEPT ![r] = p]
          BY <1>5, <2>2 DEF Run, Goto
        <4> QED
          BY <1>0, <4>1 DEF TypeOK, Steps
      <3> QED
        BY <1>0, <1>5, <2>2, <3>1 DEF Run, TypeOK, stores
    <2> QED
      BY <2>1, <2>2
  <1>6. CASE StartRun(r)
    BY <1>0, <1>6 DEF StartRun, TypeOK, bounds, Goto, Steps
  <1>7. CASE StepGet(r)
    <2>1. plan[r] \in Plans /\ Key(r) \in Keys
      BY <1>0, <1>2, <1>7, KeyOfStep DEF At, StepGet
    <2>2. CASE journal[plan[r]][Key(r)] # Nothing
      <3>1. journal[plan[r]][Key(r)] \in Output
        BY <1>0, <2>1, <2>2 DEF TypeOK
      <3> QED
        BY <1>0, <1>4, <1>7, <2>2, <3>1 DEF StepGet, TypeOK, stores, bounds, At
    <2>3. CASE journal[plan[r]][Key(r)] = Nothing
      BY <1>0, <1>7, <2>3 DEF StepGet, TypeOK, stores, bounds, Goto, Steps
    <2> QED
      BY <2>2, <2>3
  <1>8. CASE Handler(r)
    <2>1. plan[r] \in Plans /\ Key(r) \in Keys
      BY <1>0, <1>2, <1>8, KeyOfStep DEF At, Handler
    <2>2. CASE Key(r) \in Writes
      <3>1. pc' \in [Runners -> Steps] /\ filed' \subseteq Plans \X Writes
        BY <1>0, <1>8, <2>1, <2>2 DEF Handler, TypeOK, Goto, Steps
      <3>2. out' \in [Runners -> Output \cup {Nothing}]
        BY <1>0, <1>8, <2>2 DEF Handler, TypeOK, Output
      <3> QED
        BY <1>0, <1>8, <2>2, <3>1, <3>2 DEF Handler, TypeOK, bounds
    <2>3. CASE Key(r) \notin Writes
      <3>1. reads' \in 1..MaxReads
        BY <1>0, <1>8, <2>3 DEF Handler, TypeOK
      <3> QED
        <4>1. pc' \in [Runners -> Steps]
          BY <1>0, <1>8 DEF Handler, TypeOK, Goto, Steps
        <4>2. out' \in [Runners -> Output \cup {Nothing}]
          BY <1>0, <1>8, <2>3, <3>1 DEF Handler, TypeOK, Output
        <4>3. reads' \in 0..MaxReads
          BY <3>1
        <4> QED
          BY <1>0, <1>8, <2>3, <4>1, <4>2, <4>3 DEF Handler, TypeOK, bounds
    <2> QED
      BY <2>2, <2>3
  <1>9. CASE JournaledGet(r)
    <2>1. out[r] \in Output
      BY <1>2, <1>9 DEF Progress, JournaledGet, At
    <2>2. CASE journal[plan[r]][Key(r)] # Nothing
      BY <1>0, <1>4, <1>9, <2>1, <2>2 DEF JournaledGet, TypeOK, stores, bounds, At
    <2>3. CASE journal[plan[r]][Key(r)] = Nothing
      BY <1>0, <1>9, <2>3 DEF JournaledGet, TypeOK, stores, bounds, Goto, Steps
    <2> QED
      BY <2>2, <2>3
  <1>10. CASE JournaledPut(r)
    <2>1. out[r] \in Output
      BY <1>2, <1>10 DEF Progress, JournaledPut, At
    <2>2. plan[r] \in Plans /\ Key(r) \in Keys
      BY <1>0, <1>2, <1>10, KeyOfStep DEF At, JournaledPut
    <2>3. journal' \in [Plans -> [Keys -> Output \cup {Nothing}]]
      BY <1>0, <1>10, <2>1, <2>2 DEF JournaledPut, TypeOK
    <2>4. pc[r] \in {"get", "journaled_get", "journaled_put"}
      BY <1>10 DEF JournaledPut, At
    <2>5. StepDone(r, out[r])
      BY <1>10 DEF JournaledPut
    <2> QED
      BY <1>0, <1>4, <1>10, <2>1, <2>3, <2>4, <2>5 DEF JournaledPut, TypeOK, bounds
  <1>11. CASE FinishRun(r)
    <2>1. plan[r] \in Plans
      BY <1>0, <1>2, <1>11, KeyOfStep DEF At, FinishRun
    <2>2. /\ outputs' \in [Runners -> [Keys -> Output \cup {Nothing}]]
          /\ out' \in [Runners -> Output \cup {Nothing}] /\ plan' \in [Runners -> Plans \cup {Nothing}]
          /\ at' \in [Runners -> Nat] /\ pc' \in [Runners -> Steps]
      BY <1>0, <1>3, <1>11 DEF FinishRun, Forget, TypeOK, Goto, Steps
    <2> QED
      BY <1>0, <1>11, <2>1, <2>2 DEF FinishRun, TypeOK, bounds
  <1>12. CASE StepRaises(r)
    BY <1>0, <1>12 DEF StepRaises, TypeOK, stores, Goto, Steps
  <1>13. CASE Crash(r)
    <2>1. /\ outputs' \in [Runners -> [Keys -> Output \cup {Nothing}]]
          /\ out' \in [Runners -> Output \cup {Nothing}] /\ plan' \in [Runners -> Plans \cup {Nothing}]
          /\ at' \in [Runners -> Nat] /\ pc' \in [Runners -> Steps]
      BY <1>0, <1>3, <1>13 DEF Crash, Forget, TypeOK, Goto, Steps
    <2> QED
      BY <1>0, <1>13, <2>1 DEF Crash, TypeOK, stores
  <1> QED
    BY <1>1, <1>5, <1>6, <1>7, <1>8, <1>9, <1>10, <1>11, <1>12, <1>13 DEF Execute

\* One step of one runner keeps the stores growing, a journaled write filed, and
\* the progress of the runner that takes it.
LEMMA ProgressStep ==
    ASSUME PlanAssumption, PlanInv, Next
    PROVE  StoresGrow /\ JournalIsFiled' /\ \A q \in Runners : Progress(q)'
  <1>0. TypeOK /\ JournalIsFiled
    BY DEF PlanInv
  <1>1. PICK r \in Runners :
          (\E p \in Plans : Run(r, p)) \/ Execute(r) \/ StepRaises(r) \/ Crash(r)
    BY DEF Next
  <1>2. Progress(r)
    BY DEF PlanInv
  <1>3. ASSUME StoresGrow, Progress(r)',
               \A q \in Runners \ {r} :
                  /\ pc'[q] = pc[q] /\ plan'[q] = plan[q] /\ at'[q] = at[q]
                  /\ out'[q] = out[q] /\ outputs'[q] = outputs[q]
        PROVE  \A q \in Runners : Progress(q)'
    <2>1. ASSUME NEW q \in Runners, q # r PROVE Progress(q)'
      <3>1. Progress(q)
        BY DEF PlanInv
      <3> QED
        BY <1>0, <1>3, <2>1, <3>1, BystanderStep
    <2> QED
      BY <1>3, <2>1
  <1>4. ASSUME NEW p \in Plans, Run(r, p)
        PROVE  StoresGrow /\ JournalIsFiled' /\ \A q \in Runners : Progress(q)'
    <2>1. StoresGrow /\ JournalIsFiled'
      BY <1>0, <1>4 DEF Run, stores, StoresGrow, JournalIsFiled
    <2>2. CASE p \in Invalid
      BY <1>0, <1>2, <1>3, <1>4, <2>1, <2>2, BystanderStep DEF Run, stores
    <2>3. CASE p \notin Invalid
      <3>1. pc'[r] = "start" /\ plan'[r] = p /\ at'[r] = 1
        BY <1>0, <1>2, <1>4, <2>3 DEF Run, Goto, TypeOK, Progress
      <3>2. 1 \in 1..Len(StepsOf[p])
        BY DEF PlanAssumption
      <3>3. Progress(r)'
        BY <3>1, <3>2 DEF Progress, At
      <3> QED
        BY <1>0, <1>3, <1>4, <2>1, <2>3, <3>3 DEF Run, Goto, TypeOK
    <2> QED
      BY <2>2, <2>3
  <1>5. CASE StartRun(r)
    <2>1. StoresGrow /\ JournalIsFiled'
      BY <1>0, <1>5 DEF StartRun, StoresGrow, JournalIsFiled
    <2>2. pc'[r] = "get" /\ plan'[r] = plan[r] /\ at'[r] = 1 /\ plan[r] \in Plans
      BY <1>0, <1>2, <1>5 DEF StartRun, Goto, TypeOK, Progress, At
    <2>3. 1 \in 1..Len(StepsOf[plan[r]])
      BY <2>2 DEF PlanAssumption
    <2>4. Progress(r)'
      BY <2>2, <2>3 DEF Progress, At
    <2> QED
      BY <1>0, <1>3, <1>5, <2>1, <2>4 DEF StartRun, Goto, TypeOK
  <1>6. CASE StepGet(r)
    <2>1. StoresGrow /\ JournalIsFiled'
      BY <1>0, <1>6 DEF StepGet, stores, StoresGrow, JournalIsFiled
    <2>2. plan[r] \in Plans /\ Key(r) \in Keys
      BY <1>0, <1>2, <1>6, KeyOfStep DEF At, StepGet
    <2>3. CASE journal[plan[r]][Key(r)] # Nothing
      <3>1. PICK o \in Output : o = journal[plan[r]][Key(r)]
        BY <1>0, <2>2, <2>3 DEF TypeOK
      <3>2. StepDone(r, o) /\ journal' = journal /\ filed' = filed /\ plan' = plan /\ pc[r] = "get"
        BY <1>6, <2>3, <3>1 DEF StepGet, stores, At
      <3>3. Key(r) \in Writes => <<plan[r], Key(r)>> \in filed'
        BY <1>0, <2>2, <2>3, <3>2 DEF JournalIsFiled
      <3>4. Progress(r)'
        BY <1>0, <1>2, <2>1, <2>3, <3>2, <3>3, StepDoneStep
      <3> QED
        BY <1>0, <1>3, <2>1, <3>2, <3>4 DEF StepDone, Goto, TypeOK
    <2>4. CASE journal[plan[r]][Key(r)] = Nothing
      <3>1. pc' = [pc EXCEPT ![r] = "handler"] /\ UNCHANGED <<plan, at, out, outputs, journal, filed>>
        BY <1>6, <2>4 DEF StepGet, stores, Goto
      <3>2. Progress(r)'
        BY <1>0, <1>2, <1>6, <3>1 DEF StepGet, Progress, StepBacked, At, TypeOK
      <3> QED
        BY <1>0, <1>3, <2>1, <3>1, <3>2 DEF TypeOK
    <2> QED
      BY <2>3, <2>4
  <1>7. CASE Handler(r)
    <2>1. plan[r] \in Plans /\ Key(r) \in Keys
      BY <1>0, <1>2, <1>7, KeyOfStep DEF At, Handler
    <2>2. StoresGrow /\ JournalIsFiled'
      BY <1>0, <1>7 DEF Handler, StoresGrow, JournalIsFiled
    <2>3. /\ pc' = [pc EXCEPT ![r] = "journaled_get"] /\ UNCHANGED <<plan, at, outputs, journal>>
          /\ pc[r] = "handler" /\ out' = [out EXCEPT ![r] = out'[r]]
      BY <1>0, <1>7 DEF Handler, Goto, At, TypeOK
    <2>4. out'[r] \in Output
      <3>1. CASE Key(r) \in Writes
        BY <1>0, <1>7, <3>1 DEF Handler, TypeOK, Output
      <3>2. CASE Key(r) \notin Writes
        <4>1. reads' \in 1..MaxReads /\ out'[r] = reads'
          BY <1>0, <1>7, <3>2 DEF Handler, TypeOK, PlanAssumption
        <4> QED
          BY <4>1 DEF Output
      <3> QED
        BY <3>1, <3>2
    <2>5. Key(r) \in Writes => <<plan[r], Key(r)>> \in filed'
      BY <1>7 DEF Handler
    <2>6. \A i \in 1..(at[r] - 1) :
             StepBacked(plan[r], StepsOf[plan[r]][i], outputs[r])
      BY <1>2, <2>3 DEF Progress, At
    <2>7. filed \subseteq filed'
      BY <2>2 DEF StoresGrow
    <2>8. Progress(r)'
      BY <1>0, <1>2, <2>3, <2>4, <2>5, <2>6, <2>7 DEF Progress, StepBacked, At, TypeOK, Key
    <2> QED
      BY <1>0, <1>3, <2>2, <2>3, <2>8 DEF TypeOK
  <1>8. CASE JournaledGet(r)
    <2>1. StoresGrow /\ JournalIsFiled'
      BY <1>0, <1>8 DEF JournaledGet, stores, StoresGrow, JournalIsFiled
    <2>2. /\ pc[r] = "journaled_get" /\ out[r] \in Output
          /\ Key(r) \in Writes => <<plan[r], Key(r)>> \in filed
      BY <1>2, <1>8 DEF JournaledGet, Progress, At
    <2>3. CASE journal[plan[r]][Key(r)] # Nothing
      <3>1. PICK o \in Output : o = out[r]
        BY <2>2
      <3>2. StepDone(r, o) /\ journal' = journal /\ filed' = filed /\ plan' = plan
        BY <1>8, <2>3, <3>1 DEF JournaledGet, stores
      <3>3. Progress(r)'
        BY <1>0, <1>2, <2>1, <2>2, <2>3, <3>2, StepDoneStep
      <3> QED
        BY <1>0, <1>3, <2>1, <3>2, <3>3 DEF StepDone, Goto, TypeOK
    <2>4. CASE journal[plan[r]][Key(r)] = Nothing
      <3>1. pc' = [pc EXCEPT ![r] = "journaled_put"] /\ UNCHANGED <<plan, at, out, outputs, journal, filed>>
        BY <1>8, <2>4 DEF JournaledGet, stores, Goto
      <3>2. Progress(r)'
        BY <1>0, <1>2, <2>2, <3>1 DEF Progress, StepBacked, At, TypeOK, Key
      <3> QED
        BY <1>0, <1>3, <2>1, <3>1, <3>2 DEF TypeOK
    <2> QED
      BY <2>3, <2>4
  <1>9. CASE JournaledPut(r)
    <2>1. /\ pc[r] = "journaled_put" /\ out[r] \in Output
          /\ Key(r) \in Writes => <<plan[r], Key(r)>> \in filed
      BY <1>2, <1>9 DEF JournaledPut, Progress, At
    <2>2. plan[r] \in Plans /\ Key(r) \in Keys
      BY <1>0, <1>2, <1>9, KeyOfStep DEF At, JournaledPut
    <2>3. out[r] # Nothing
      BY <2>1 DEF Output, PlanAssumption
    <2>4. \A p \in Plans, k \in Keys :
             /\ journal[p][k] # Nothing => journal'[p][k] # Nothing
             /\ journal'[p][k] # Nothing => journal[p][k] # Nothing \/ (p = plan[r] /\ k = Key(r))
      BY <1>0, <1>9, <2>2, <2>3 DEF JournaledPut, TypeOK
    <2>5. journal'[plan[r]][Key(r)] # Nothing
      BY <1>0, <1>9, <2>2, <2>3 DEF JournaledPut, TypeOK
    <2>6. StoresGrow
      BY <1>9, <2>4 DEF JournaledPut, StoresGrow
    <2>7. JournalIsFiled'
      BY <1>0, <1>9, <2>1, <2>4 DEF JournaledPut, JournalIsFiled, PlanAssumption
    <2>8. PICK o \in Output : o = out[r]
      BY <2>1
    <2>9. StepDone(r, o) /\ filed' = filed /\ plan' = plan
      BY <1>9, <2>8 DEF JournaledPut
    <2>10. Progress(r)'
      BY <1>0, <1>2, <2>1, <2>5, <2>6, <2>9, StepDoneStep
    <2> QED
      BY <1>0, <1>3, <2>6, <2>7, <2>9, <2>10 DEF StepDone, Goto, TypeOK
  <1>10. ASSUME Forget(r), UNCHANGED <<journal, filed>>
         PROVE  StoresGrow /\ JournalIsFiled' /\ \A q \in Runners : Progress(q)'
    <2>1. StoresGrow /\ JournalIsFiled'
      BY <1>0, <1>10 DEF StoresGrow, JournalIsFiled
    <2>2. Progress(r)'
      BY <1>0, <1>10 DEF Forget, Goto, Progress, At, TypeOK
    <2> QED
      BY <1>0, <1>3, <1>10, <2>1, <2>2 DEF Forget, Goto, TypeOK
  <1>11. CASE FinishRun(r)
    BY <1>10, <1>11 DEF FinishRun
  <1>12. CASE StepRaises(r)
    <2>1. StoresGrow /\ JournalIsFiled'
      BY <1>0, <1>12 DEF StepRaises, stores, StoresGrow, JournalIsFiled
    <2>2. /\ pc' = [pc EXCEPT ![r] = "finish_failed"] /\ out' = [out EXCEPT ![r] = Nothing]
          /\ UNCHANGED <<plan, at, outputs, journal, filed>> /\ ~ At(r, "idle")
      BY <1>12 DEF StepRaises, stores, Goto, At
    <2>3. Progress(r)'
      BY <1>0, <1>2, <2>2 DEF Progress, StepBacked, At, TypeOK
    <2> QED
      BY <1>0, <1>3, <2>1, <2>2, <2>3 DEF TypeOK
  <1>13. CASE Crash(r)
    BY <1>10, <1>13 DEF Crash, stores
  <1> QED
    BY <1>1, <1>4, <1>5, <1>6, <1>7, <1>8, <1>9, <1>11, <1>12, <1>13 DEF Execute

\* PlanInv is inductive: the initial state has it and every step keeps it. A "done"
\* answer is given at the end, when each step was backed on the way.
LEMMA PlanInvInductive ==
    ASSUME PlanAssumption
    PROVE  (Init => PlanInv) /\ (PlanInv /\ [Next]_vars => PlanInv')
  <1>1. Init => PlanInv
    <2> SUFFICES ASSUME Init PROVE PlanInv
      OBVIOUS
    <2>1. TypeOK
      BY DEF Init, TypeOK, PlanAssumption, Blank, Steps
    <2>2. \A r \in Runners : Progress(r)
      BY DEF Init, Progress, At
    <2>3. JournalIsFiled
      BY DEF Init, JournalIsFiled, Blank, PlanAssumption
    <2>4. DoneIsBacked
      BY DEF Init, DoneIsBacked
    <2> QED
      BY <2>1, <2>2, <2>3, <2>4 DEF PlanInv
  <1>2. ASSUME PlanInv, Next PROVE PlanInv'
    <2>0. TypeOK /\ DoneIsBacked
      BY <1>2 DEF PlanInv
    <2>1. TypeOK'
      BY <1>2, TypeStep
    <2>2. StoresGrow /\ JournalIsFiled' /\ \A q \in Runners : Progress(q)'
      BY <1>2, ProgressStep
    <2>3. PICK r \in Runners :
            (\E p \in Plans : Run(r, p)) \/ Execute(r) \/ StepRaises(r) \/ Crash(r)
      BY <1>2 DEF Next
    <2>4. DoneIsBacked'
      <3>1. ASSUME NEW p \in Plans, Run(r, p) PROVE DoneIsBacked'
        <4>1. journal' = journal /\ filed' = filed
          BY <3>1 DEF Run, stores
        <4>2. CASE p \in Invalid
          <5>1. results' = results \cup {[plan |-> p, status |-> "failed", outputs |-> Blank]}
            BY <3>1, <4>2 DEF Run
          <5> QED
            BY <2>0, <4>1, <5>1 DEF DoneIsBacked
        <4>3. CASE p \notin Invalid
          BY <2>0, <2>2, <3>1, <4>3, AnswersStay DEF Run
        <4> QED
          BY <4>2, <4>3
      <3>2. CASE FinishRun(r)
        <4> DEFINE s == IF At(r, "finish_done") THEN "done" ELSE "failed"
                   a == [plan |-> plan[r], status |-> s, outputs |-> outputs[r]]
        <4>1. results' = results \cup {a} /\ journal' = journal /\ filed' = filed
          BY <3>2 DEF FinishRun
        <4>2. Progress(r)
          BY <1>2 DEF PlanInv
        <4>3. a.plan = plan[r] /\ a.outputs = outputs[r]
              /\ (a.status = "done" => At(r, "finish_done"))
          OBVIOUS
        <4>4. ASSUME a.status = "done", NEW k \in StepSet(plan[r])
              PROVE  /\ journal[plan[r]][k] # Nothing /\ outputs[r][k] # Nothing
                     /\ k \in Writes => <<plan[r], k>> \in filed
          <5>1. /\ at[r] = Len(StepsOf[plan[r]]) /\ StepBacked(plan[r], Key(r), outputs[r])
                /\ at[r] \in 1..Len(StepsOf[plan[r]])
                /\ \A i \in 1..(at[r] - 1) :
                      StepBacked(plan[r], StepsOf[plan[r]][i], outputs[r])
            BY <4>2, <4>3, <4>4 DEF Progress, At
          <5>2. PICK i \in 1..Len(StepsOf[plan[r]]) : k = StepsOf[plan[r]][i]
            BY <2>0, <4>2, <4>4, <4>3, KeyOfStep DEF StepSet, At
          <5>3. i \in 1..(at[r] - 1) \/ i = at[r]
            BY <5>1, <5>2
          <5> QED
            BY <5>1, <5>2, <5>3 DEF StepBacked, Key
        <4> HIDE DEF a
        <4> QED
          BY <2>0, <4>1, <4>3, <4>4 DEF DoneIsBacked
      <3>3. CASE StartRun(r) \/ StepGet(r) \/ Handler(r) \/ JournaledGet(r) \/ JournaledPut(r)
                   \/ StepRaises(r) \/ Crash(r)
        <4>1. results' = results
          BY <3>3 DEF StartRun, StepGet, Handler, JournaledGet, JournaledPut, StepRaises, Crash
        <4> QED
          BY <2>0, <2>2, <4>1, AnswersStay
      <3> QED
        BY <2>3, <3>1, <3>2, <3>3 DEF Execute
    <2> QED
      BY <2>1, <2>2, <2>4 DEF PlanInv
  <1>3. ASSUME PlanInv, UNCHANGED vars PROVE PlanInv'
    BY <1>3 DEF PlanInv, TypeOK, Progress, JournalIsFiled, DoneIsBacked, StepBacked, At, Key, vars
  <1> QED
    BY <1>1, <1>2, <1>3

\* Whatever runners run the same plans, fail or die, the locals of a runner and the
\* stores are as PlanInv says.
THEOREM PlanInvariant ==
    ASSUME PlanAssumption PROVE Spec => []PlanInv
  <1>1. Init => PlanInv
    BY PlanInvInductive
  <1>2. PlanInv /\ [Next]_vars => PlanInv'
    BY PlanInvInductive
  <1> QED
    BY <1>1, <1>2, PTL DEF Spec

-----------------------------------------------------------------------------
(* The revalidation of twin fidelity. *)

\* What run_once relies on: a score in hand at the comparison is the journaled one,
\* it is low when the task is filed, and the task exists when it is journaled.
Pass ==
    /\ phase \in {"recompute", "journal", "compare", "file", "journal_task"} => store \in Stores
    /\ phase = "journal" => recomputed[store] = Nothing /\ score \in {"ok", "low"}
    /\ phase = "compare" => recomputed[store] = score
    /\ phase \in {"file", "journal_task"} => recomputed[store] = "low"
    /\ phase = "journal_task" => task[store] # Nothing

\* The inductive invariant.
FidelityInv == Fidelity!TypeOK /\ Pass /\ Fidelity!DriftIsJustified

\* FidelityInv is inductive: a journaled score is replayed and never rewritten.
LEMMA FidelityInvInductive ==
    ASSUME Fidelity!FidelityAssumption
    PROVE  /\ Fidelity!Init => FidelityInv
           /\ FidelityInv /\ [Fidelity!Next]_(Fidelity!vars) => FidelityInv'
  <1> USE DEF Fidelity!FidelityAssumption, Fidelity!At, Fidelity!Score
  <1>1. Fidelity!Init => FidelityInv
    BY DEF Fidelity!Init, FidelityInv, Fidelity!TypeOK, Pass, Fidelity!DriftIsJustified
  <1>2. ASSUME FidelityInv, Fidelity!Next PROVE FidelityInv'
    <2> USE <1>2 DEF FidelityInv, Fidelity!TypeOK, Pass, Fidelity!DriftIsJustified,
                     Fidelity!journals, Fidelity!service
    <2>1. ASSUME NEW s \in Stores, Fidelity!Change(s) PROVE FidelityInv'
      BY <2>1 DEF Fidelity!Change
    <2>2. ASSUME NEW s \in Stores, Fidelity!CompleteTask(s) PROVE FidelityInv'
      BY <2>2 DEF Fidelity!CompleteTask
    <2>3. CASE Fidelity!BeginPass
      BY <2>3 DEF Fidelity!BeginPass
    <2>4. ASSUME NEW s \in Stores, Fidelity!TakeStore(s) PROVE FidelityInv'
      BY <2>4 DEF Fidelity!TakeStore
    <2>5. CASE Fidelity!EndPass
      BY <2>5 DEF Fidelity!EndPass
    <2>6. CASE Fidelity!Recompute
      BY <2>6 DEF Fidelity!Recompute
    <2>7. CASE Fidelity!JournalScore
      BY <2>7 DEF Fidelity!JournalScore
    <2>8. CASE Fidelity!Compare
      BY <2>8 DEF Fidelity!Compare
    <2>9. CASE Fidelity!FileDriftTask
      BY <2>9 DEF Fidelity!FileDriftTask
    <2>10. CASE Fidelity!JournalTask
      BY <2>10 DEF Fidelity!JournalTask
    <2>11. CASE Fidelity!PlanFails
      BY <2>11 DEF Fidelity!PlanFails
    <2>12. CASE Fidelity!PassLost
      BY <2>12 DEF Fidelity!PassLost
    <2> QED
      BY <2>1, <2>2, <2>3, <2>4, <2>5, <2>6, <2>7, <2>8, <2>9, <2>10, <2>11, <2>12
         DEF Fidelity!Next, Fidelity!RunOnce
  <1>3. ASSUME FidelityInv, UNCHANGED Fidelity!vars PROVE FidelityInv'
    BY <1>3 DEF Fidelity!vars, FidelityInv, Fidelity!TypeOK, Pass, Fidelity!DriftIsJustified
  <1> QED
    BY <1>1, <1>2, <1>3

\* A drift task stands for a low score that was journaled, and a journaled drift
\* plan for a task, wherever a pass failed or the process was killed.
THEOREM DriftJustified ==
    ASSUME Fidelity!FidelityAssumption PROVE Fidelity!Spec => []FidelityInv
  <1>1. Fidelity!Init => FidelityInv
    BY FidelityInvInductive
  <1>2. FidelityInv /\ [Fidelity!Next]_(Fidelity!vars) => FidelityInv'
    BY FidelityInvInductive
  <1> QED
    BY <1>1, <1>2, PTL DEF Fidelity!Spec

\* Plans answered as done are backed and drift tasks justified, in every deployment.
THEOREM PlansBacked ==
    ASSUME PlanAssumption, Fidelity!FidelityAssumption
    PROVE  Spec /\ Fidelity!Spec => []PlansAreBacked
  <1>1. PlanInv /\ FidelityInv => PlansAreBacked
    BY DEF PlanInv, FidelityInv, PlansAreBacked, DoneIsBacked, StepSet, Runner!DoneIsBacked,
           Runner!StepSet
  <1>2. Spec => []PlanInv
    BY PlanInvariant
  <1>3. Fidelity!Spec => []FidelityInv
    BY DriftJustified
  <1> QED
    BY <1>1, <1>2, <1>3, PTL

=============================================================================
