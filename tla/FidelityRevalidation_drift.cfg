SPECIFICATION FairSpec
CONSTANTS
    None = None
    Stores = {s1}
    MaxChanges = 2
    MaxFaults = 0
PROPERTY
    DriftGetsTask
