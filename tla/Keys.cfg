SPECIFICATION FairSpec
CONSTANTS
    Replicas = {a, b}
    Handlers = {h1, h2}
    u1 = u1
    Keys = {k1}
    Teams = {t1}
    Absent = Absent
    Users = {u1}
    Owner <- MCOwner
    NoUser = NoUser
    ScimUsers = {u1}
    MaxVersion = 2
    MaxMishaps = 1
INVARIANTS
    SyncedWhenSeen
    RestartForgets
PROPERTIES
    Converges
CHECK_DEADLOCK FALSE
