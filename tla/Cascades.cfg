SPECIFICATION Spec
CONSTANTS
    None = None
    c1 = c1
    c2 = c2
    Clicks = {c1, c2}
    Drills <- EveryDrill
    MaxCalls = 3
    MaxRetries = 1
    MaxSlot = 1
    Numbers <- AroundZero
    Prices <- AroundTolerance
    Percents <- AroundSixty
    Messages = {}
    TermsOf <- NoTerms
    Corrections = {}
    Requests = {}
    HISTORY_LIMIT = 1
    RECENT_WINDOW = 1
    MAX_SUMMARY_LINES = 1
    MAX_FIELD_LINES = 1
    MaxSent = 1
    Threads = {}
    Versions = {1}
    Evaluations = {}
    EvaluationsOf <- NoEvidence
    Bar <- LowBar
    Rates = {}
    MaxOps = 1
    Groups = {}
    MIN_SUPPORT = 1
    MaxOutcomes = 1
    MaxConsolidations = 1
SYMMETRY ClickSymmetry
CHECK_DEADLOCK FALSE
INVARIANTS
    CardsAreEarned
    VerdictIsConsistent
    AnswersAreValidated
