--------------------------- MODULE SkillRegistry ---------------------------
(***************************************************************************)
(* The skills the agents may use and the evidence that promotes them        *)
(* (shelfwise_mlops/skill_registry.py, registry.py, routes_mlops.py).       *)
(*                                                                          *)
(* A skill's manifest is a row of its own per owner, the platform's         *)
(* (written again, promoted, by every process start) or the tenant's; a     *)
(* promotion checks recorded evidence and then compares and sets the        *)
(* status, a retirement reads the row and writes it back. Evaluations are   *)
(* looked up and inserted.                                                  *)
(*                                                                          *)
(* One skill id is modelled; a version of it refers to the evaluations that *)
(* EvaluationsOf names and asks for Bar of them. The registry is the one in *)
(* Postgres: the one in memory lists a tenant's row and the platform's side *)
(* by side. No route of the repository upserts a tenant's manifest; the     *)
(* registry offers it, and Register is its caller, of any kind.             *)
(***************************************************************************)
EXTENDS Naturals

CONSTANTS
    Threads,        \* requests in progress
    Versions,       \* versions of the manifest, numbers
    Evaluations,    \* evaluation ids
    EvaluationsOf,  \* [Versions -> SUBSET Evaluations]
    Bar,            \* [Versions -> Nat]: minimum_pass_rate
    Rates,          \* pass rates, numbers
    MaxOps,         \* bound on the requests
    None

Owners == {"platform", "tenant"}

Manifest == [version : Versions, status : {"draft", "promoted", "retired"}]
Evaluation == [rate : Rates, passed : BOOLEAN]

\* The first release has version 1, and the absent value is no row.
GovernanceAssumption ==
    /\ Versions \subseteq Nat /\ Rates \subseteq Nat
    /\ EvaluationsOf \in [Versions -> SUBSET Evaluations]
    /\ Bar \in [Versions -> Nat]
    /\ 1 \in Versions
    /\ None \notin Manifest /\ None \notin Evaluation

VARIABLES
    skill,       \* [Owners -> None or [version, status]]
    evidence,    \* [Evaluations -> None or [rate, passed]]
    job,         \* [Threads -> record]
    ops,         \* number of requests so far
    down,        \* the owners whose row a retirement was the last to decide
    unearned     \* a manifest was registered while a promotion was being judged

vars == <<skill, evidence, job, ops, down, unearned>>
skillVars == <<skill, evidence, down, unearned>>

Free == [op |-> "none", at |-> "none", seen |-> None, of |-> None]

Init ==
    /\ skill = [platform |-> [version |-> 1, status |-> "promoted"], tenant |-> None]
    /\ evidence = [e \in Evaluations |-> None]
    /\ job = [t \in Threads |-> Free] /\ ops = 0
    /\ down = {} /\ unearned = FALSE

At(t, at) == job[t].at = at
Begin(t, record) ==
    /\ job[t] = Free /\ ops < MaxOps
    /\ ops' = ops + 1
    /\ job' = [job EXCEPT ![t] = record]
Goto(t, record) == job' = [job EXCEPT ![t] = record] /\ UNCHANGED ops
Finish(t) == Goto(t, Free)

----------------------------------------------------------------------------
Row(owner) == skill[owner]

\* PostgresSkillRegistry.get: the tenant's row, or else the platform's.
Effective == IF Row("tenant") # None THEN "tenant" ELSE "platform"

\* Mistake: the platform's rows are merged over the tenant's.
DiscoverPlatformFirst == IF Row("platform").status = "promoted" THEN {"platform"} ELSE {}

\* The manifests a question can be given (PostgresSkillRegistry.list, then discover's
\* filter).
discover == IF Row(Effective).status = "promoted" THEN {Effective} ELSE {}

\* upsert: a tenant's manifest is validated and registered, over the one before it.
Register(v) ==
    /\ ops < MaxOps /\ ops' = ops + 1
    /\ skill' = [skill EXCEPT !.tenant = [version |-> v, status |-> "draft"]]
    /\ down' = down \ {"tenant"}
    /\ unearned' = (unearned \/ \E t \in Threads : job[t].op = "promote")
    /\ UNCHANGED <<evidence, job>>

\* A process starts: the built-in catalogue of its release is upserted.
_seed_platform_skills(v) ==
    /\ ops < MaxOps /\ ops' = ops + 1
    /\ skill' = [skill EXCEPT !.platform = [version |-> v, status |-> "promoted"]]
    /\ down' = down \ {"platform"}
    /\ UNCHANGED <<evidence, unearned, job>>

\* promote reads the manifest: a retired one, or another one's evaluation, is refused.
PromoteRead(t, e) ==
    /\ Row(Effective).status # "retired" /\ e \in EvaluationsOf[Row(Effective).version]
    /\ Begin(t, [Free EXCEPT !.op = "promote", !.at = "judge", !.seen = Row(Effective), !.of = e])
    /\ UNCHANGED skillVars

\* Mistake: an evaluation that was recorded is good enough.
EarnedByRecord(version, e) == evidence[e] # None

\* The recorded evaluation passed its gate and reaches the manifest's bar.
Earned(version, e) ==
    evidence[e] # None /\ evidence[e].passed /\ evidence[e].rate >= Bar[version]

PromoteJudge(t) ==
    /\ job[t].op = "promote" /\ At(t, "judge")
    /\ IF Earned(job[t].seen.version, job[t].of) /\ job[t].seen.status # "promoted"
       THEN Goto(t, [job[t] EXCEPT !.at = "reread"])
       ELSE Finish(t)
    /\ UNCHANGED skillVars

\* transition_status reads the manifest again ...
PromoteReread(t) ==
    /\ job[t].op = "promote" /\ At(t, "reread")
    /\ Goto(t, [job[t] EXCEPT !.at = "write", !.seen = Row(Effective), !.of = Effective])
    /\ UNCHANGED skillVars

\* Mistake: the status in the row is not compared.
SwappableAlways(row) == TRUE

Swappable(row) == row.status = "draft"

\* ... and writes it back promoted, if the row is still a draft.
PromoteWrite(t) ==
    LET owner == job[t].of
    IN  /\ job[t].op = "promote" /\ At(t, "write")
        /\ skill' = IF Swappable(Row(owner))
                    THEN [skill EXCEPT ![owner] = [job[t].seen EXCEPT !.status = "promoted"]]
                    ELSE skill
        /\ Finish(t)
        /\ UNCHANGED <<evidence, down, unearned>>

\* set_status reads the manifest, and writes all of it back retired.
RetireRead(t) ==
    /\ Begin(t, [Free EXCEPT !.op = "retire", !.at = "write", !.seen = Row(Effective), !.of = Effective])
    /\ UNCHANGED skillVars

RetireWrite(t) ==
    LET owner == job[t].of
    IN  /\ job[t].op = "retire"
        /\ skill' = [skill EXCEPT ![owner] = [job[t].seen EXCEPT !.status = "retired"]]
        /\ down' = down \cup {owner}
        /\ Finish(t)
        /\ UNCHANGED <<evidence, unearned>>

----------------------------------------------------------------------------
\* EvaluationRegistry.record looks the id up: another content is refused.
EvaluationRead(t, e, rate, passed) ==
    /\ evidence[e] = None
    /\ Begin(t, [Free EXCEPT !.op = "evaluate", !.of = e, !.seen = [rate |-> rate, passed |-> passed]])
    /\ UNCHANGED skillVars

\* Mistake: the insert overwrites the row it finds.
InsertOver(row, content) == content

\* The insert raises when another one was first: the primary key keeps the row.
Insert(row, content) == IF row = None THEN content ELSE row

EvaluationWrite(t) ==
    /\ job[t].op = "evaluate"
    /\ evidence' = [evidence EXCEPT ![job[t].of] = Insert(@, job[t].seen)]
    /\ Finish(t)
    /\ UNCHANGED <<skill, down, unearned>>

\* A request dies, or a statement raises.
Die(t) == job[t] # Free /\ Finish(t) /\ UNCHANGED skillVars

Next ==
    \/ \E v \in Versions : Register(v) \/ _seed_platform_skills(v)
    \/ \E t \in Threads :
          \/ \E e \in Evaluations : PromoteRead(t, e)
          \/ PromoteJudge(t) \/ PromoteReread(t) \/ PromoteWrite(t)
          \/ RetireRead(t) \/ RetireWrite(t)
          \/ \E e \in Evaluations, rate \in Rates, passed \in BOOLEAN : EvaluationRead(t, e, rate, passed)
          \/ EvaluationWrite(t)
          \/ Die(t)

Spec == Init /\ [][Next]_vars

----------------------------------------------------------------------------
TypeOK ==
    /\ skill \in [Owners -> Manifest \cup {None}] /\ skill.platform # None
    /\ evidence \in [Evaluations -> Evaluation \cup {None}]
    /\ down \subseteq Owners

\* A retirement stays in force until a manifest is registered anew: no
\* promotion that was judged earlier revives the skill (transition_status), and
\* the tenant's conversations are not given the platform's manifest instead
\* (list, discover).
RetirementHolds ==
    /\ \A owner \in down : Row(owner).status = "retired"
    /\ "tenant" \in down => discover = {}

\* A tenant's skill is promoted only on a recorded evaluation that its own
\* manifest names and that reaches its own bar (promote), unless another
\* version was registered while a promotion was under way: transition_status
\* then promotes the version nobody judged.
PromotionIsEarned ==
    Row("tenant") # None /\ Row("tenant").status = "promoted" /\ ~unearned =>
       \E e \in EvaluationsOf[Row("tenant").version] :
          evidence[e] # None /\ evidence[e].passed /\ evidence[e].rate >= Bar[Row("tenant").version]

\* Evidence is written once: what a promotion was judged by stays on record.
KeepsEvidence == \A e \in Evaluations : evidence[e] # None => evidence'[e] = evidence[e]
EvidenceIsKept == [][KeepsEvidence]_vars
=============================================================================
