SPECIFICATION MCFairSpec
CONSTANTS
    e1 = e1
    e2 = e2
    c1 = c1
    d1 = d1
    d2 = d2
    w1 = w1
    w2 = w2
    t1 = t1
    t2 = t2
    None = None
    NoDecision = NoDecision
    Contents = {c1}
    Threads = {t1, t2}
    Events = {e1, e2}
    Decisions = {d1, d2}
    Outcomes <- OneEach
    Consumers = {w1, w2}
    ConsumerOf <- TwoProcesses
    MaxRetries = 2
    MaxLen = 2
    MaxPublish = 2
    MaxFaults = 1
    MaxCrashes = 1
CHECK_DEADLOCK FALSE
INVARIANTS
    NothingDisappears
    RunsAreBacked
PROPERTY
    EveryLiveMessageEnds
