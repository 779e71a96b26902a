SPECIFICATION MCSpec
CONSTANTS
    Keys = {k1}
    NoKey = NoKey
    Cap = 3
    MaxRows = 2
    MaxRecords = 4
    MaxCopies = 2
    MaxKeyless = 4
INVARIANTS
    Bounded
    Accounted
    InOrder
    DuplicatesExplained
    ServedInOrder
    DropsOnlyUnderLoad
PROPERTIES
    ImplementsLedger
    DrainsWithoutKeys
CHECK_DEADLOCK FALSE
