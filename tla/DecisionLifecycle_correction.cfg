SPECIFICATION Spec
CONSTANTS
    d1 = d1
    d2 = d2
    ca = ca
    cb = cb
    m1 = m1
    ra = ra
    rb = rb
    t1 = t1
    t2 = t2
    None = None
    Decisions = {d1}
    Contents = {ca, cb}
    Proposals <- AnyProposal
    Measured <- Units
    Baseline <- Start
    Metrics = {m1}
    MetricOf <- OneMetric
    Relocations = {}
    Receipts = {ra}
    Valued = {ra}
    Threads = {t1, t2}
    MaxCalls = 3
    MaxCrashes = 0
CHECK_DEADLOCK FALSE
INVARIANTS
    CorrectionPersists
