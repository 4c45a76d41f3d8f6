SPECIFICATION FairSpec
CONSTANTS
    None = None
    Events = {e1}
    Contents = {c1, c2}
    Requests = {r1, r2, r3}
    Actionable = {e1}
    Queued = {r1}
    MaxAborts = 1
INVARIANTS
    TypeOK
    OneContentPerEvent
    PublishedIsComplete
    AnswersSound
    InventoryMovedOnce
    CascadesAreOwed
PROPERTIES
    RecordedGetsPublished
