SPECIFICATION MCSpec
CONSTANTS
    None = None
    Nothing = Nothing
    Filed = Filed
    p = p
    q = q
    b1 = b1
    t1 = t1
    p1 = p1
    p2 = p2
    look = look
    file = file
    r1 = r1
    r2 = r2
    s1 = s1
    s2 = s2
    Events = {1, 2}
    Batches = {b1}
    ObsOf <- Readings
    Props = {p, q}
    TwinOf <- Belonging
    Root = "store"
    Seeds <- OneAsset
    Pool = {t1}
    MaxDeliveries = 1
    MaxFaults = 1
    MaxCalls = 3
    Plans = {p1, p2}
    Keys = {look, file}
    StepsOf <- TwoPlans
    Writes = {file}
    Invalid = {p2}
    Runners = {r1, r2}
    Stores = {s1, s2}
    MaxRuns = 4
    MaxReads = 3
    MaxPlanFaults = 1
    MaxCrashes = 1
    MaxChanges = 2
    MaxFailures = 2
CHECK_DEADLOCK FALSE
INVARIANTS
    TwinShowsLedger
    BootstrapComplete
    PlansAreBacked
PROPERTIES
    EveryEventSettles
    SeenDriftGetsTask
