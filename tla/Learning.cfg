SPECIFICATION Spec
CONSTANTS
    None = None
    Unset = Unset
    Absent = Absent
    c1 = c1
    c2 = c2
    m1 = m1
    m2 = m2
    m3 = m3
    e1 = e1
    e2 = e2
    Clicks = {}
    Drills = {"deterministic"}
    MaxCalls = 1
    MaxRetries = 0
    MaxSlot = 0
    Numbers = {}
    Prices = {}
    Percents = {}
    Messages = {m1, m2, m3}
    TermsOf <- Asking
    Corrections = {m1}
    Requests = {c1, c2}
    HISTORY_LIMIT = 3
    RECENT_WINDOW = 1
    MAX_SUMMARY_LINES = 3
    MAX_FIELD_LINES = 2
    MaxSent = 3
    Threads = {c1, c2}
    Versions = {1, 2}
    Evaluations = {e1, e2}
    EvaluationsOf <- OwnEvidence
    Bar <- RisingBar
    Rates = {1, 2}
    MaxOps = 5
    Groups = {c1, c2}
    MIN_SUPPORT = 2
    MaxOutcomes = 4
    MaxConsolidations = 2
    Source <- ClaimedSource
    First <- ClaimedFirst
    WorkflowAgents <- ClaimedWorkflowAgents
    RouteFeature <- ClaimedRouteFeature
    ToolFeature <- ClaimedToolFeature
    SurfaceRoutes <- ClaimedSurfaceRoutes
    Stages <- ClaimedStages
    Profile <- ClaimedProfile
    DefaultTests <- ClaimedDefaultTests
    RequiredIds <- ClaimedRequiredIds
    Annotations <- ClaimedAnnotations
    Waivable <- ClaimedWaivable
    MaxWaiverDays = 0
    MaxDay = 1
    MaxEdits = 3
    Runs <- Shakedowns
    Profiles <- BaseModels
    Settings <- TrainingSettings
    Commands <- CommandLines
    OldAdapters <- AdaptersThere
    TrainExamples = 3
    EvalExamples = 2
    Lengths <- TokenLengths
    MAX_SEQ_LENGTH = 4
    MinRisk = 75
    MinActionability = 25
    MinGrounding = 25
    MaxEcho = 0
    Answers <- GeneratedAnswers
    ProbeReplies <- EndpointReplies
    Files <- EvidenceFiles
    MaxSecond = 1
SYMMETRY Symmetry
CHECK_DEADLOCK FALSE
INVARIANTS
    OneAnswerPerMessage
    MemoryIsCurrent
    SkillsAreGoverned
    FactsAreEarned
    ContractHolds
    ReportsAreHonest
    TrainingIsHonest
PROPERTIES
    EvidenceIsKept
