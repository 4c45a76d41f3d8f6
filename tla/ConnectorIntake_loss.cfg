SPECIFICATION SourcesSpec
CONSTANTS
    e1 = e1
    e2 = e2
    c1 = c1
    c2 = c2
    bad = bad
    r1 = r1
    r2 = r2
    None = None
    Unread = Unread
    NaN = NaN
    NotDict = NotDict
    skuA = skuA
    skuB = skuB
    ordA = ordA
    lineA = lineA
    lineB = lineB
    siteA = siteA
    dayA = dayA
    Events = {e1, e2}
    Contents = {c1, c2, bad}
    Requests = {r1}
    Pollers = {r1}
    Queued = {r1}
    Actionable = {}
    Eventless = {bad}
    Pages <- TwoPages
    Payloads = {}
    Initial <- AllFirst
    MaxChanges = 0
    MaxAborts = 1
    Order <- OdooAndSap
    Env = {"odoo"}
    Rows = {skuA, skuB}
    PageLimit = 1
    Endpoints = {lineA}
    Tenants = {skuA, skuB}
    MaxTime = 2
    MaxEdits = 0
    MaxOutages = 1
    Assets <- OneFridge
    Minutes = 2
    TREND_LEN = 3
    MAX_EVENTS = 8
    GEN_START_DELAY = 1
    MaxDrills = 2
    SafeMax = 1
    UnsafeAbove = 2
    Ambient = 3
    Submissions = {}
    Files = {}
    Normal <- NormalHeaders
    Aliases <- AcceptedAliases
    DefaultLocation = None
    MAX_CSV_ROWS = 3
    MAX_CSV_COMMIT_ROWS = 2
    MaxRequests = 0
INVARIANT
    NoDataLoss
