------------------------------ MODULE MCBudget ------------------------------
(* Model values for TLC. *)
EXTENDS Budget, TLC

CONSTANTS q1, q2, r1, u1

MCReplicaOf == q1 :> r1 @@ q2 :> r1
MCUser(limit) == (u1 :> [limit |-> limit, period |-> "daily"])
MCTeam(limit, period, policy, perUser) ==
    [limit |-> limit, period |-> period, policy |-> policy,
     perUser |-> perUser]

\* A team that shapes and blocks, members with a budget each, and a user with
\* a limit of his own in a team that is far from its own.
MCRows == {[user |-> MCUser(None), team |-> MCTeam(5, "weekly", PresetShaped, None)],
           [user |-> MCUser(None), team |-> MCTeam(None, "daily", None, 5)],
           [user |-> MCUser(5), team |-> MCTeam(1000, "daily", None, None)]}
MCDefault == [limit |-> 5, period |-> "weekly", policy |-> None]
MCMonthFirst == {0, 31}
=============================================================================
