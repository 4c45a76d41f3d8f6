SPECIFICATION FairSpec
CONSTANTS
    d1 = d1
    d2 = d2
    ca = ca
    cb = cb
    m1 = m1
    ra = ra
    rb = rb
    t1 = t1
    t2 = t2
    None = None
    Decisions = {d1, d2}
    Contents = {ca, cb}
    Proposals <- AnyProposal
    Measured <- Units
    Baseline <- Start
    Metrics = {m1}
    MetricOf <- OneMetric
    Relocations = {d1}
    Receipts = {ra, rb}
    Valued = {ra}
    Threads = {t1, t2}
    MaxCalls = 4
    MaxCrashes = 1
CHECK_DEADLOCK FALSE
INVARIANTS
    ConsequencesMatch
    AnswersAndNotesTrue
    ThresholdIsLargest
PROPERTIES
    ApprovalContract
    EveryRequestEnds
