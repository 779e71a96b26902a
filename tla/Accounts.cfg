SPECIFICATION Spec
CONSTANTS
    u1 = u1
    u2 = u2
    m1 = m1
    m2 = m2
    i1 = i1
    Users = {u1, u2}
    Emails = {m1, m2}
    Idps = {i1}
    Groups = {g1}
    Names = {n1, n2}
    Clients = {c1, c2}
    Logins = {l1}
    None = None
    Nothing = Nothing
    MaxChanges = 3
    MaxFailures = 1
    Replicas = {r1, r2}
    Sessions = {s1}
    Ttl = 1
    Life = 2
    Window = 1
    MaxAttempts = 1
    MaxClock = 2
    MaxStarts = 3
    MaxSetups = 1
    MaxLosses = 1
INVARIANTS
    RoleAgrees
    LeaversStayOut
    TokensHold
SYMMETRY Symmetry
CHECK_DEADLOCK FALSE
