SPECIFICATION MCSpec
CONSTANTS
    a = a
    b = b
    p = p
    h1 = h1
    h2 = h2
    Replicas = {a}
    Handlers = {h1}
    Pairs = {p, q}
    Learners = {a}
    MaxVersion = 2
    MaxShifts = 0
    MaxMishaps = 0
INVARIANTS
    LearnsTruth
    OverrideInForceEverywhere
PROPERTIES
    OverrideStands
    EnforcedEverywhere
    HealsItself
CHECK_DEADLOCK FALSE
