SPECIFICATION FairSpec
CONSTANTS
    e1 = e1
    Endpoints = {e1}
    None = None
    StartRows <- MCStartRows
    Assignments <- MCAssignments
    MaxChanges = 2
    MaxFlips = 1
    MaxFaults = 1
INVARIANTS
    PoolCurrent
PROPERTIES
    Recovers
    ImplementsView
CHECK_DEADLOCK FALSE
