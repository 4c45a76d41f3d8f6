SPECIFICATION MCSpec
CONSTANTS
    None = None
    Nothing = Nothing
    o1 = o1
    o2 = o2
    w1 = w1
    r1 = r1
    r2 = r2
    Owners = {o1, o2}
    Legacy = o2
    Staff = {w1}
    StaffRoles = {"manager", "inventory"}
    Requests = {r1, r2}
    Recovery = TRUE
    MaxVersion = 3
    MaxLinks = 2
    MaxRequests = 4
    Shipments = {"dock", "moved"}
    ShipmentOf <- DockAndMove
    Reads = {r1, r2}
    Gaps <- OneOrTwo
    MaxTime = 2
    MaxTurns = 1
    Absent = Absent
    Locations = {"floor", "back"}
    Bins <- TwoBins
    Unassigned = 0
    Movements = {"first", "recount", "shelf", "sold"}
    MovementOf <- CountsAndSale
    Relocation <- FloorToBack
    MaxWrites = 2
    MaxQuantity = 1
SYMMETRY RequestSymmetry
CHECK_DEADLOCK FALSE
INVARIANTS
    StockIsAccounted
    QueueIsBacked
    AccountsAreGoverned
