SPECIFICATION FairSpec
CONSTANTS
    Keys = {k1}
    NoKey = NoKey
    Cap = 2
    MaxRows = 2
    MaxRecords = 3
    MaxCopies = 2
PROPERTIES
    Drains
CHECK_DEADLOCK FALSE
