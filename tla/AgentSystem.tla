---------------------------- MODULE AgentSystem ----------------------------
(***************************************************************************)
(* The parts of the platform that decide, talk and learn: the drills with   *)
(* their agents, the rules of the deterministic cascades, the chat about    *)
(* the decisions, the governed skills its agents use, and the facts and     *)
(* playbooks that are learned from the outcomes. Each works on tables of    *)
(* its own, so the system is the conjunction of their specifications.       *)
(***************************************************************************)
EXTENDS Naturals, Integers, Sequences, FiniteSets

CONSTANTS
    Clicks, Drills, MaxCalls, MaxRetries, MaxSlot,                        \* AgentCascade
    Numbers, Prices, Percents,                                            \* CascadeRules
    Messages, TermsOf, Corrections, Requests, HISTORY_LIMIT,
    RECENT_WINDOW, MAX_SUMMARY_LINES, MAX_FIELD_LINES, MaxSent,           \* ChatMemory
    Threads, Versions, Evaluations, EvaluationsOf, Bar, Rates, MaxOps,    \* SkillRegistry
    Groups, MIN_SUPPORT, MaxOutcomes, MaxConsolidations,                  \* OutcomeMemory
    None

VARIABLES
    drill, card, queued, run,
    event, result,
    conversation, summaries, items, holder, request, sent, heard, trimmed, cut,
    skill, evidence, job, ops, down, unearned,
    outcomes, facts, journal, consolidation, consolidations, plans, overlapped

Agency == INSTANCE AgentCascade
Rules  == INSTANCE CascadeRules
Chat   == INSTANCE ChatMemory
Skills == INSTANCE SkillRegistry
Memory == INSTANCE OutcomeMemory
              WITH job <- consolidation, ops <- consolidations, MaxOps <- MaxConsolidations

AgentSystemAssumption ==
    /\ Agency!AgentAssumption /\ Chat!ChatAssumption /\ Skills!GovernanceAssumption
    /\ Memory!MemoryAssumption

System == Agency!Spec /\ Rules!Spec /\ Chat!Spec /\ Skills!Spec /\ Memory!Spec

----------------------------------------------------------------------------
\* (AgentCascade) The queue shows at most one open card of a drill and skips none, and a
\* card escalates exactly when one run earned it.
CardsAreEarned == Agency!OneOpenCard /\ Agency!VerdictBinds
\* (CascadeRules) Status, action, verdict and review flag tell one story, and a decision
\* about the live twin takes nothing that is missing from the demonstration story.
VerdictIsConsistent == Rules!TypeOK /\ Rules!VerdictIsConsistent /\ Rules!LiveFieldsArePresent
\* (ChatMemory) A message has one answer, which every retry is given.
OneAnswerPerMessage == Chat!TypeOK /\ Chat!OneAnswerPerMessage
\* (ChatMemory) What an answer's prompt quotes is current, and what assembling it cut is said.
MemoryIsCurrent == Chat!MemoryIsCurrent
\* (SkillRegistry) A retired skill is not discovered, and a promotion is earned.
SkillsAreGoverned == Skills!TypeOK /\ Skills!RetirementHolds /\ Skills!PromotionIsEarned
\* (SkillRegistry) Recorded evidence is never replaced.
EvidenceIsKept == Skills!EvidenceIsKept
\* (OutcomeMemory) Facts and playbooks rest on outcomes that were successes.
FactsAreEarned == Memory!TypeOK /\ Memory!FactsAreEarned
=============================================================================
