SPECIFICATION Spec
CONSTANTS
    q1 = q1
    k1 = k1
    k2 = k2
    a1 = a1
    a2 = a2
    l1 = l1
    l2 = l2
    d1 = d1
    d2 = d2
    Requests = {q1}
    MaxUses = 3
    HardCap = 2
    MaxAsked = 3
    LoopCap = 2
    Toolsets <- MCToolsets
    Replies <- MCReplies
    MaxFallbacks = 2
    Askers = {a1, a2}
    Buckets = {k1, k2}
    Limit <- MCLimit
    Minute = 2
    MaxWait = 1
    MaxClock = 4
    Loops = {l1, l2}
    Admins = {a1, a2}
    Destinations = {d1}
    Sns = {d1}
    Nowhere = Nowhere
    EnvUrls = {d1, Nowhere}
    MaxEvents = 3
    Refused = {1}
    Wide = {3}
    Batch = 2
    MaxSaves = 2
    MaxHiccups = 1
    opus = opus
    Families = {opus}
    Majors <- MCMajors
    Minors <- MCMinors
    Dates <- MCDates
    Absent = Absent
    BuiltIn <- MCBuiltIn
    BuiltInReverse <- MCBuiltInReverse
    MaxProfiles = 2
    Issuers = {i1}
    Urls = {a, b}
    Kids = {x}
    Validations = {v1, v2}
    None = None
    MaxRotations = 2
    MaxEdits = 1
    MaxLosses = 1
INVARIANTS
    Billed
    SearchesSound
    RateHeld
    RefusedWhenFull
    MarkedMeansSent
    ActiveWasTested
    SameModel
PROPERTIES
    EventuallyDelivered
    WithdrawnIsForgotten
CHECK_DEADLOCK FALSE
