------------------------------- MODULE Budget -------------------------------
(***************************************************************************)
(* How requests are held to budgets: check_budget() and                    *)
(* check_team_budget_only() in api/handlers.rs, the spend cache of a       *)
(* replica (BudgetSpendCache, budget/mod.rs) and the table of budget       *)
(* events (db/budget.rs).                                                  *)
(*                                                                         *)
(* A request looks at its user's budget and then at its team's.  For each  *)
(* it takes the spend from the cache, or asks Postgres and puts the answer *)
(* into the cache, evaluates the policy, and, if a threshold is reached,   *)
(* records an event unless one is there already.  Every call to Postgres   *)
(* is a step of its own.  What requests cost enters spend_log at any time:  *)
(* through the buffer of SpendTracker, and from every replica.             *)
(***************************************************************************)
EXTENDS BudgetPolicy, FiniteSets, Functions

CONSTANTS
    Requests,    \* requests that may be in progress at once
    Replicas,    \* gateway processes
    ReplicaOf,   \* the replica that serves a request
    Users,       \* rows of users
    Members,     \* those of them that are in the team
    TeamKey,     \* a virtual key with a team and no user
    Team,        \* the team, as the scope of a budget
    Rows,        \* what the tables may hold: [user: a row for each, team: a row]
    Default,     \* the gateway's default budget, or None
    Costs,       \* what a request may cost
    FirstDay, LastDay,  \* bounds of the model: the days of a behaviour
    MaxSpend,    \* bound of the model: the spend of one user on one day
    MaxFaults    \* bound of the model: calls to Postgres that fail

ASSUME BudgetAssumption ==
    /\ IsFiniteSet(Requests)
    /\ ReplicaOf \in [Requests -> Replicas]
    /\ Members \subseteq Users
    /\ TeamKey \notin Users /\ Team \notin Users
    /\ FirstDay \in Nat /\ LastDay \in Nat /\ FirstDay <= LastDay
    /\ MaxSpend \in Nat /\ MaxFaults \in Nat

VARIABLES
    userRow,  \* users: limit and period
    teamRow,  \* teams: budget
    today,    \* the date
    logged,   \* the cost of what spend_log holds, by user and day
    cached,   \* budget_cache of every replica: the amount of a scope, or None
    events,   \* budget_events: how many rows each threshold has that fired
    req,      \* the requests' local variables
    faults

budgetVars == <<userRow, teamRow, today, logged, cached, events, req, faults>>

Days == FirstDay..LastDay
Principals == Users \cup {TeamKey}
Scopes == Users \cup {Team}

\* The scope of a budget; in an event a user's budget also names the team.
ScopeOf(q) == IF req[q].level = "team" THEN Team ELSE req[q].who

Idle == [phase |-> "idle"]

BudgetInit ==
    /\ \E rows \in Rows : userRow = rows.user /\ teamRow = rows.team
    /\ today = FirstDay
    /\ logged = [u \in Users |-> [d \in Days |-> 0]]
    /\ cached = [r \in Replicas |-> [s \in Scopes |-> None]]
    /\ events = [e \in {} |-> 0]
    /\ req = [q \in Requests |-> Idle]
    /\ faults = 0

-----------------------------------------------------------------------------
(* What Postgres answers *)

Since(u, start) == SumFunctionOnSet(logged[u], start..today \cap Days)

\* get_user_spend() and get_team_spend(): a team's spend is that of the users
\* who are its members now.  What a team's key spends belongs to no user.
SpendSince(scope, start) ==
    IF scope = Team
    THEN SumFunctionOnSet([u \in Users |-> Since(u, start)], Members)
    ELSE Since(scope, start)

Spent(scope, period) == SpendSince(scope, PeriodStart(period, today))

\* What insert_event() compares, and writes; the type of an event and its
\* amounts are not compared.
EventOf(q) == [scope |-> ScopeOf(q), at |-> req[q].decision.at,
               start |-> req[q].start]

-----------------------------------------------------------------------------
(* A request *)

BudgetAt(r, level) == IF level = "user" THEN r.user ELSE r.team

Applies(budget) == budget # None /\ budget.limit # None

\* The request `r' turns to its next budget, or is done with budgets.
Turn(r, level) ==
    LET s == [r EXCEPT !.phase = "spend", !.level = level, !.spend = 0,
                       !.start = 0, !.decision = Allow]
    IN  IF level = "user" /\ Applies(r.user) THEN s
        ELSE IF level \in {"user", "team"} /\ Applies(r.team)
        THEN [s EXCEPT !.level = "team"]
        ELSE [phase |-> "decided", who |-> r.who, final |-> r.final,
              missed |-> r.missed]

After(r) == Turn(r, IF r.level = "user" THEN "team" ELSE "none")

TeamRowOf(w) == IF w \in Members \cup {TeamKey} THEN teamRow ELSE None

Fresh(w, user, team) ==
    Turn([phase |-> "spend", who |-> w, level |-> "user", user |-> user,
          team |-> team, spend |-> 0, start |-> 0, decision |-> Allow,
          final |-> Allow, missed |-> FALSE],
         "user")

\* The rows of the user, his team and the default are read.
Arrive(q, w) ==
    /\ req[q].phase = "idle"
    /\ req' = [req EXCEPT ![q] =
                 Fresh(w,
                       IF w \in Users
                       THEN UserBudget(userRow[w], TeamRowOf(w), Default)
                       ELSE None,
                       TeamBudget(TeamRowOf(w)))]
    /\ UNCHANGED <<userRow, teamRow, today, logged, cached, events, faults>>

\* One of the queries fails: without the user's row, or a key's team, there is
\* nothing to check, and without a user's team he is one who has none.
ArriveBlind(q, w) ==
    /\ req[q].phase = "idle"
    /\ faults < MaxFaults
    /\ faults' = faults + 1
    /\ \/ req' = [req EXCEPT ![q] = Fresh(w, None, None)]
       \/ /\ w \in Members
          /\ req' = [req EXCEPT ![q] =
                       Fresh(w, UserBudget(userRow[w], None, Default), None)]
    /\ UNCHANGED <<userRow, teamRow, today, logged, cached, events>>

\* Faulty: only what lets the request through is recorded.
JudgedFaulty(r, amount) ==
    LET b == BudgetAt(r, r.level)
        d == Evaluate(b.policy, amount, b.limit)
        s == [r EXCEPT !.spend = amount, !.decision = d,
                       !.start = PeriodStart(b.period, today),
                       !.final = MostRestrictive(@, d)]
    IN  IF d.kind \in {"allow", "block"} THEN After(s)
        ELSE [s EXCEPT !.phase = "count"]

\* The policy is evaluated.  The event that may follow belongs to the period
\* of today, whenever the amount was read.
Judged(r, amount) ==
    LET b == BudgetAt(r, r.level)
        d == Evaluate(b.policy, amount, b.limit)
        s == [r EXCEPT !.spend = amount, !.decision = d,
                       !.start = PeriodStart(b.period, today),
                       !.final = MostRestrictive(@, d)]
    IN  IF d.kind = "allow" THEN After(s) ELSE [s EXCEPT !.phase = "count"]

Amount(q) == cached[ReplicaOf[q]][ScopeOf(q)]

Hit(q) ==
    /\ req[q].phase = "spend"
    /\ Amount(q) # None
    /\ req' = [req EXCEPT ![q] = Judged(@, Amount(q))]
    /\ UNCHANGED <<userRow, teamRow, today, logged, cached, events, faults>>

\* unwrap_or(0.0): a query that fails counts as no spend, and is cached.
Query(q) ==
    /\ req[q].phase = "spend"
    /\ Amount(q) = None
    /\ \/ /\ req' = [req EXCEPT ![q].phase = "store", ![q].spend =
                       Spent(ScopeOf(q), BudgetAt(req[q], req[q].level).period)]
          /\ UNCHANGED faults
       \/ /\ faults < MaxFaults
          /\ faults' = faults + 1
          /\ req' = [req EXCEPT ![q].phase = "store", ![q].spend = 0]
    /\ UNCHANGED <<userRow, teamRow, today, logged, cached, events>>

Store(q) ==
    /\ req[q].phase = "store"
    /\ cached' = [cached EXCEPT ![ReplicaOf[q]][ScopeOf(q)] = req[q].spend]
    /\ req' = [req EXCEPT ![q] = Judged(@, @.spend)]
    /\ UNCHANGED <<userRow, teamRow, today, logged, events, faults>>

\* Faulty: what is in the table is not looked at.
KnownFaulty(e) == FALSE

Known(e) == e \in DOMAIN events

\* The table with another row for the threshold.
WithRow(e) == [x \in DOMAIN events \cup {e} |->
                 (IF x \in DOMAIN events THEN events[x] ELSE 0)
                 + (IF x = e THEN 1 ELSE 0)]

\* The first statement of insert_event(); an error ends it.
Count(q) ==
    /\ req[q].phase = "count"
    /\ \/ /\ req' = [req EXCEPT ![q] = IF Known(EventOf(q)) THEN After(@)
                                       ELSE [@ EXCEPT !.phase = "insert"]]
          /\ UNCHANGED faults
       \/ /\ faults < MaxFaults
          /\ faults' = faults + 1
          /\ req' = [req EXCEPT ![q] = After([@ EXCEPT !.missed = TRUE])]
    /\ UNCHANGED <<userRow, teamRow, today, logged, cached, events>>

\* The second one.
Insert(q) ==
    /\ req[q].phase = "insert"
    /\ \/ /\ events' = WithRow(EventOf(q))
          /\ req' = [req EXCEPT ![q] = After(@)]
          /\ UNCHANGED faults
       \/ /\ faults < MaxFaults
          /\ faults' = faults + 1
          /\ req' = [req EXCEPT ![q] = After([@ EXCEPT !.missed = TRUE])]
          /\ UNCHANGED events
    /\ UNCHANGED <<userRow, teamRow, today, logged, cached>>

\* The answer is 429.
Refuse(q) ==
    /\ req[q].phase = "decided"
    /\ req[q].final.kind = "block"
    /\ req' = [req EXCEPT ![q] = Idle]
    /\ UNCHANGED <<userRow, teamRow, today, logged, cached, events, faults>>

\* The request goes on, to rate limits, an endpoint and Bedrock: see Messages.
Admit(q) ==
    /\ req[q].phase = "decided"
    /\ req[q].final.kind # "block"
    /\ req' = [req EXCEPT ![q] = Idle]
    /\ UNCHANGED <<userRow, teamRow, today, logged, cached, events, faults>>

\* An entry reaches spend_log, dated by the INSERT.  Those of a team's key
\* count for no user.
Charge(u, cost) ==
    /\ logged[u][today] + cost <= MaxSpend
    /\ logged' = [logged EXCEPT ![u][today] = @ + cost]
    /\ UNCHANGED <<userRow, teamRow, today, cached, events, req, faults>>

-----------------------------------------------------------------------------
(* Time *)

\* An entry of the cache turns 30 seconds old.
Expire(r, s) ==
    /\ cached[r][s] # None
    /\ cached' = [cached EXCEPT ![r][s] = None]
    /\ UNCHANGED <<userRow, teamRow, today, logged, events, req, faults>>

NextDay ==
    /\ today < LastDay
    /\ today' = today + 1
    /\ UNCHANGED <<userRow, teamRow, logged, cached, events, req, faults>>

Serve(q) ==
    \/ Hit(q) \/ Query(q) \/ Store(q) \/ Count(q) \/ Insert(q)
    \/ Refuse(q) \/ Admit(q)

BudgetNext ==
    \/ \E q \in Requests : Serve(q)
    \/ \E q \in Requests, w \in Principals : Arrive(q, w) \/ ArriveBlind(q, w)
    \/ \E r \in Replicas, s \in Scopes : Expire(r, s)
    \/ \E u \in Users, c \in Costs : Charge(u, c)
    \/ NextDay

BudgetSpec == BudgetInit /\ [][BudgetNext]_budgetVars

\* A request that has begun goes on, and 30 seconds pass.
BudgetFairSpec ==
    /\ BudgetSpec
    /\ \A q \in Requests : WF_budgetVars(Serve(q))
    /\ \A r \in Replicas, s \in Scopes : WF_budgetVars(Expire(r, s))

-----------------------------------------------------------------------------
(* Properties *)

\* insert_event() counts in one statement and inserts in another, without a
\* unique index.  However requests interleave, a threshold of a period fires
\* once for each request that was in progress when it was passed, not once
\* for each request that finds it passed.
FiresOncePerRequest ==
    \A e \in DOMAIN events : events[e] <= Cardinality(Requests)

\* Nobody is turned away without a trace: a request that will be blocked has
\* left, or found, an event of the very threshold that blocks it, in the
\* scope of its user or of its team, unless the table could not be reached.
NoSilentBlock ==
    \A q \in Requests :
      req[q].phase = "decided" /\ req[q].final.kind = "block" /\ ~req[q].missed
        => \E e \in DOMAIN events :
             e.at = req[q].final.at /\ e.scope \in {req[q].who, Team}

\* What the tables say of a user: the spend of his period has reached the
\* threshold at which his policy blocks.
OverLimit(u) ==
    LET b == UserBudget(userRow[u], TeamRowOf(u), Default)
    IN  /\ b.limit # None
        /\ Evaluate(b.policy, Spent(u, b.period), b.limit).kind = "block"

\* The cache is filled by requests that queried before the spend was written,
\* a failing query counts as no spend, and the amount of one period may serve
\* another: in the end nothing of this lets a user over his limit through.
SpendStops ==
    \A u \in Users :
      <>[]OverLimit(u) =>
        <>[][\A q \in Requests :
                Admit(q) => req[q].who # u]_budgetVars
=============================================================================
