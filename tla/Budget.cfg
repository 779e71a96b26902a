SPECIFICATION BudgetFairSpec
CONSTANTS
    None = None
    MonthFirst <- MCMonthFirst
    q1 = q1
    q2 = q2
    r1 = r1
    u1 = u1
    Requests = {q1, q2}
    Replicas = {r1}
    ReplicaOf <- MCReplicaOf
    Users = {u1}
    Members = {u1}
    TeamKey = key
    Team = team
    Rows <- MCRows
    Default <- MCDefault
    Costs = {5}
    FirstDay = 6
    LastDay = 7
    MaxSpend = 5
    MaxFaults = 1
INVARIANTS
    FiresOncePerRequest
    NoSilentBlock
PROPERTIES
    SpendStops
CHECK_DEADLOCK FALSE
