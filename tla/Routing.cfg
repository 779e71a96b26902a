SPECIFICATION RouteSpec
CONSTANTS
    e1 = e1
    e2 = e2
    Endpoints = {e1, e2}
    Sound = {}
    None = None
    Teams <- MCTeams
    Slots = {s1}
    Users = {u1, u2}
    Strategies = {"sticky_user", "round_robin"}
    MaxAffinity = 1
    Turns = 2
INVARIANTS
    TriesAll
