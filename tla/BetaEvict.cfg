SPECIFICATION FairSpec
CONSTANTS
    Replicas = {a, b}
    Handlers = {h}
    Pairs = {p}
    Learners = {b}
    MaxVersion = 2
    MaxShifts = 0
    MaxMishaps = 0
PROPERTIES
    Evicted
CHECK_DEADLOCK FALSE
