----------------------------- MODULE Analytics -----------------------------
(***************************************************************************)
(* What the dashboards say about spend_log (db/org_analytics.rs,           *)
(* db/budget.rs, api/admin.rs:1061).                                       *)
(*                                                                         *)
(* An answer is made of several statements, one after the other, each with *)
(* its own joins and groups: rows arrive, people change teams and prices   *)
(* change between two of them.  A row that no price covers costs NULL,     *)
(* which sums leave out.                                                   *)
(***************************************************************************)
EXTENDS Integers, FiniteSets, Sequences

CONSTANTS
    LogRows,      \* rows that requests may leave: [id, who, model, endpoint,
                  \* tools, day, hour, tokens, cached]; a tool is a pair of the
                  \* server of its name, mcp__server__..., or "", and the name
    Identities,   \* values of user_identity
    Units,        \* teams
    NoUnit,       \* of a user without a team: "__none__" in a filter
    Unknown,      \* no row of users has this identity
    Budgeted,     \* teams with a budget
    PeriodOf,     \* the periods of people's and teams' budgets, in days
    Queries,      \* what dashboards may ask for
    Rates,        \* prices of a token
    Unrated,      \* estimate_cost_usd() is NULL
    ToolLimit,    \* LIMIT of org_top_tools()
    LastDay,      \* bound of the model
    MaxUpheavals  \* bound of the model: changes of teams and prices, statements
                  \* that fail

LogRow == [id : Nat, who : Identities, model : STRING, endpoint : STRING,
           tools : SUBSET (STRING \X STRING), day : Nat \ {0}, hour : Nat,
           tokens : Nat, cached : Nat]

Query == [days : Nat, from : Nat, to : Nat, granularity : {"auto", "hour", "day", "week"},
          teams : SUBSET (Units \cup {NoUnit}), users : SUBSET Identities,
          models : SUBSET STRING, endpoints : SUBSET STRING]

ASSUME AnalyticsAssumption ==
    /\ {LastDay, MaxUpheavals, ToolLimit} \subseteq Nat
    /\ PeriodOf \in [Identities \cup Units -> Nat \ {0}]
    /\ Budgeted \subseteq Units
    /\ LogRows \subseteq LogRow /\ \A r \in LogRows : IsFiniteSet(r.tools)
    /\ Queries \subseteq Query
    /\ IsFiniteSet(Identities)
    /\ Rates \subseteq Nat

VARIABLES
    log,        \* rows of spend_log
    unitOf,     \* users.team_id by e-mail
    rates,      \* per model its price, or Unrated
    today,
    board,      \* the answers being put together: the statements left, and
                \* what those said that ran since anything changed
    upheavals

analyticsVars == <<log, unitOf, rates, today, board, upheavals>>

Kinds == {r.model : r \in LogRows}
NoAnswer == [left |-> << >>, got |-> << >>]

-----------------------------------------------------------------------------
(* Rows and what they cost *)

\* LEFT JOIN users, LEFT JOIN teams
TeamName(r) == IF unitOf[r.who] = Unknown THEN NoUnit ELSE unitOf[r.who]

Rated(r) == rates[r.model] # Unrated

\* SUM of f over the members of S
SumsWithin(f, S) ==
    LET sum[T \in SUBSET S] ==
          IF T = {} THEN 0 ELSE LET x == CHOOSE x \in T : TRUE IN f[x] + sum[T \ {x}]
    IN  sum
SumOver(f, S) == SumsWithin(f, S)[S]

\* SUM(estimate_cost_usd(...)): NULL is left out.
Costs == [r \in LogRows |-> IF Rated(r) THEN r.tokens * rates[r.model] ELSE 0]
SpentIn(rows) == SumOver(Costs, rows)
TokensIn(rows) == SumOver([r \in LogRows |-> r.tokens], rows)
CachedIn(rows) == SumOver([r \in LogRows |-> r.cached], rows)

\* build_org_filter(): of a range of dates only its beginning counts.
DaysBack(q) == IF q.from = 0 THEN q.days
               ELSE IF today - q.from > 1 THEN today - q.from ELSE 1

\* build_optional_filters(): nothing chosen is everything.
Chosen(choice, value) == choice # {} => value \in choice

Matches(q, r) ==
    /\ Chosen(q.teams, TeamName(r))
    /\ Chosen(q.users, r.who)
    /\ Chosen(q.models, r.model)
    /\ Chosen(q.endpoints, r.endpoint)

Selected(q) == {r \in log : r.day >= today - DaysBack(q) /\ Matches(q, r)}

\* The period before, which no filter applies to.
Prior(q) == {r \in log : /\ r.day >= today - 2 * DaysBack(q)
                         /\ r.day < today - DaysBack(q)}

\* resolve_granularity() and date_trunc()
Granularity(q, days, hours) ==
    IF q.granularity # "auto" THEN q.granularity
    ELSE IF days <= hours THEN "hour"
    ELSE IF days <= 90 THEN "day" ELSE "week"

Bucket(granularity, r) ==
    CASE granularity = "hour" -> <<r.day, r.hour>>
      [] granularity = "day"  -> <<r.day, 0>>
      [] granularity = "week" -> <<r.day \div 7, 0>>

-----------------------------------------------------------------------------
(* The statements: what each tells of every group it makes. *)

\* GROUP BY: the groups, and what one of them adds up to.
GroupsBy(rows, key) == {{r \in rows : key[r] = key[s]} : s \in rows}

Figures(group) == [spent |-> SpentIn(group), requests |-> Cardinality(group),
                   tokens |-> TokensIn(group),
                   cached |-> CachedIn(group)]

\* What a breakdown shows in all.
Totals(groups) ==
    [spent    |-> SumOver([g \in groups |-> Figures(g).spent], groups),
     requests |-> SumOver([g \in groups |-> Figures(g).requests], groups),
     tokens   |-> SumOver([g \in groups |-> Figures(g).tokens], groups),
     cached   |-> SumOver([g \in groups |-> Figures(g).cached], groups)]

\* org_overview()
Overview(q) == Totals({Selected(q)})
PriorOverview(q) == Totals({Prior(q)})

\* org_spend_timeseries()
Timeseries(q) == Totals(GroupsBy(Selected(q),
                   [r \in LogRows |-> <<TeamName(r), Bucket(Granularity(q, DaysBack(q), 7), r)>>]))

\* Faulty: teams are joined and not left-joined.
ByTeamFaulty(q) == Totals(GroupsBy({r \in Selected(q) : TeamName(r) # NoUnit},
                                   [r \in LogRows |-> TeamName(r)]))

\* org_spend_by_team(): users without a team are a group of their own.
ByTeam(q) == Totals(GroupsBy(Selected(q), [r \in LogRows |-> TeamName(r)]))

\* org_spend_by_user()
ByUser(q) == Totals(GroupsBy(Selected(q), [r \in LogRows |-> <<r.who, TeamName(r)>>]))

\* org_spend_by_model(), org_model_mix(), org_token_breakdown()
ByModel(q) == Totals(GroupsBy(Selected(q), [r \in LogRows |-> r.model]))

\* org_spend_forecast(), the days that are over: the line drawn through them is
\* left out.
ByDay(q) == Totals(GroupsBy(Selected(q), [r \in LogRows |-> r.day]))

\* org_active_users_timeseries(): of the users seen in a bucket, who is new.
FirstSeen(u) == CHOOSE d \in {r.day : r \in {s \in log : s.who = u}} :
                    \A r \in log : r.who = u => d <= r.day
NewUsers(q, day) == {u \in Identities : /\ \E r \in Selected(q) : r.who = u /\ r.day = day
                                        /\ FirstSeen(u) = day}
ReturningUsers(q, day) ==
    {u \in Identities : /\ \E r \in Selected(q) : r.who = u /\ r.day = day
                        /\ FirstSeen(u) < day}

\* org_hourly_heatmap()
ByHour(q) == Totals(GroupsBy(Selected(q), [r \in LogRows |-> <<r.day % 7, r.hour>>]))

\* org_endpoint_utilization(): an endpoint that is gone has no name.
ByEndpoint(q) == Totals(GroupsBy(Selected(q), [r \in LogRows |-> r.endpoint]))

\* org_cache_rate_timeseries(): the tokens of a bucket, and those from the cache.
CacheRate(q) == Totals(GroupsBy(Selected(q),
                  [r \in LogRows |-> Bucket(Granularity(q, DaysBack(q), 7), r)]))

\* UNNEST(tool_names): a row for every tool of a row.
Uses(q) == UNION {{<<r, tool>> : tool \in r.tools} : r \in Selected(q)}

Tools(q) == {use[2] : use \in Uses(q)}
UsesOf(q, tool) == Cardinality({use \in Uses(q) : use[2] = tool})

\* org_mcp_servers(): by server; org_tool_totals()
McpServers(q) ==
    LET servers == {use[2][1] : use \in Uses(q)} \ {""}
    IN  [mcpUses |-> SumOver([server \in servers |->
                        Cardinality({use \in Uses(q) : use[2][1] = server})], servers)]
ToolTotals(q) == [mcpUses |-> Cardinality({use \in Uses(q) : use[2][1] # ""})]

\* org_top_tools(): by name, the ToolLimit that are used most, ties in any order
TopLists(q) ==
    {listed \in SUBSET Tools(q) :
        /\ listed = Tools(q) \/ Cardinality(listed) = ToolLimit
        /\ Cardinality(listed) <= ToolLimit
        /\ \A tool \in listed, other \in Tools(q) \ listed :
              UsesOf(q, other) <= UsesOf(q, tool)}

\* A list that was cut tells of some of the uses only.
TopTools(q, listed) ==
    LET tools == {tool \in listed : tool[1] # ""}
        uses == SumOver([tool \in tools |-> UsesOf(q, tool)], tools)
    IN  IF listed = Tools(q) THEN [mcpUses |-> uses] ELSE [mcpSome |-> uses]

\* org_export(), get_spend_export(): every row.
Export(q) == Totals({{r} : r \in Selected(q)})

\* get_analytics(): one's own rows, and here a range of dates has its end, but
\* the granularity goes by the days asked for.
Mine(q, u) == {r \in log : /\ r.who = u
                           /\ IF q.from = 0 THEN r.day >= today - q.days
                              ELSE r.day >= q.from /\ r.day <= q.to}
MyTotals(q, u) == Totals({Mine(q, u)})
MyModels(q, u) == Totals(GroupsBy(Mine(q, u), [r \in LogRows |-> r.model]))
MyTrend(q, u) == Totals(GroupsBy(Mine(q, u), [r \in LogRows |-> Bucket(Granularity(q, q.days, 3), r)]))

\* The alert of get_analytics(): rows of the last week, whoever's, without a price.
UnratedRows == {r \in log : r.day >= today - 7 /\ ~Rated(r)}

-----------------------------------------------------------------------------
(* Budgets: the amount enforced and the amounts shown *)

\* date_trunc(): the first day of the period of so many days that today is in
PeriodStart(days) == today - (today % days)

\* get_user_spend() and get_team_spend(), which the budget checks call
UserSpend(u, days) == SpentIn({r \in log : r.who = u /\ r.day >= PeriodStart(days)})
TeamSpend(t, days) == SpentIn({r \in log : r.day >= PeriodStart(days) /\ unitOf[r.who] = t})

\* org_budget_status() and get_analytics_overview(): from teams to users to rows
BudgetStatus(t) ==
    SumOver([u \in Identities |-> UserSpend(u, PeriodOf[t])],
            {u \in Identities : unitOf[u] = t})

\* get_team_analytics(): per member of the team, in the member's own period
MemberSpend(t) == [u \in {v \in Identities : unitOf[v] = t} |-> UserSpend(u, PeriodOf[u])]

\* org_filter_options()
TeamOptions == Units \cup {TeamName(r) : r \in log}
UserOptions == {r.who : r \in log}

-----------------------------------------------------------------------------
(* The state machine *)

AnalyticsInit ==
    /\ log = {}
    /\ unitOf \in [Identities -> Units \cup {NoUnit, Unknown}]
    /\ rates \in [Kinds -> Rates \cup {Unrated}]
    /\ today = 1
    /\ board = NoAnswer
    /\ upheavals = 0

Unsettled == [board EXCEPT !.got = << >>]

\* The spend tracker flushes a row.
Flushed(r) ==
    /\ r \notin log /\ r.day <= today
    /\ log' = log \cup {r}
    /\ board' = Unsettled
    /\ UNCHANGED <<unitOf, rates, today, upheavals>>

Tomorrow ==
    /\ today < LastDay
    /\ today' = today + 1
    /\ board' = Unsettled
    /\ UNCHANGED <<log, unitOf, rates, upheavals>>

\* Someone joins, leaves or changes teams, is created or deleted.
Reassign(u, t) ==
    /\ upheavals < MaxUpheavals /\ upheavals' = upheavals + 1
    /\ unitOf' = [unitOf EXCEPT ![u] = t]
    /\ board' = Unsettled
    /\ UNCHANGED <<log, rates, today>>

Reprice(model, rate) ==
    /\ upheavals < MaxUpheavals /\ upheavals' = upheavals + 1
    /\ rates' = [rates EXCEPT ![model] = rate]
    /\ board' = Unsettled
    /\ UNCHANGED <<log, unitOf, today>>

\* The parts of the answers of get_org_overview(), get_org_spend(),
\* get_org_activity(), get_org_models(), get_org_tools(), export_org_csv() and get_analytics().
Pages == << <<"overview">>,
            <<"timeseries", "by_team", "by_user", "by_model", "forecast">>,
            <<"heatmap">>,
            <<"model_mix", "cache_rate", "endpoints">>,
            <<"mcp_servers", "top_tools", "tool_totals">>,
            <<"export">> >>
MyPage == <<"my totals", "my models", "my trend">>

Answer(part, q, u, listed) ==
    CASE part = "overview"   -> Overview(q)
      [] part = "timeseries" -> Timeseries(q)
      [] part = "by_team"    -> ByTeam(q)
      [] part = "by_user"    -> ByUser(q)
      [] part \in {"by_model", "model_mix"} -> ByModel(q)
      [] part = "forecast"   -> ByDay(q)
      [] part = "heatmap"    -> ByHour(q)
      [] part = "endpoints"  -> ByEndpoint(q)
      [] part = "cache_rate" -> CacheRate(q)
      [] part = "mcp_servers" -> McpServers(q)
      [] part = "top_tools"  -> TopTools(q, listed)
      [] part = "tool_totals" -> ToolTotals(q)
      [] part = "export"     -> Export(q)
      [] part = "my totals"  -> MyTotals(q, u)
      [] part = "my models"  -> MyModels(q, u)
      [] part = "my trend"   -> MyTrend(q, u)

\* A user's dashboard asks for its page, an administrator's for an overview and a
\* page (nothing keeps more from being asked for: two of them can disagree), ...
Ask(q, parts, u) ==
    /\ board = NoAnswer
    /\ board' = [query |-> q, who |-> u, left |-> parts, got |-> << >>]
    /\ UNCHANGED <<log, unitOf, rates, today, upheavals>>

\* ... a statement at a time.
RunStatement ==
    LET part == Head(board.left)
    IN  /\ board.left # << >>
        /\ \E listed \in TopLists(board.query) :
             board' = [board EXCEPT
               !.left = Tail(@),
               !.got = [p \in DOMAIN @ \cup {part} |->
                          IF p = part THEN Answer(part, board.query, board.who, listed)
                          ELSE @[p]]]
        /\ UNCHANGED <<log, unitOf, rates, today, upheavals>>

\* A statement fails: an administrator's page is not shown, a user's own shows
\* zeros in its place.
FailStatement ==
    /\ board.left # << >>
    /\ upheavals < MaxUpheavals /\ upheavals' = upheavals + 1
    /\ board' = IF board.who = Unknown THEN NoAnswer ELSE [board EXCEPT !.left = Tail(@)]
    /\ UNCHANGED <<log, unitOf, rates, today>>

CloseBoard ==
    /\ board # NoAnswer /\ board.left = << >>
    /\ board' = NoAnswer
    /\ UNCHANGED <<log, unitOf, rates, today, upheavals>>

AnalyticsNext ==
    \/ \E r \in LogRows : Flushed(r)
    \/ Tomorrow
    \/ \E u \in Identities, t \in Units \cup {NoUnit, Unknown} : Reassign(u, t)
    \/ \E model \in Kinds, rate \in Rates \cup {Unrated} : Reprice(model, rate)
    \/ \E q \in Queries, u \in Identities :
          Ask(q, MyPage, u)
    \/ \E q \in Queries, page \in DOMAIN Pages : Ask(q, Pages[1] \o Pages[page], Unknown)
    \/ RunStatement
    \/ FailStatement
    \/ CloseBoard

AnalyticsSpec == AnalyticsInit /\ [][AnalyticsNext]_analyticsVars

-----------------------------------------------------------------------------

Unfiltered(q) == q.teams = {} /\ q.users = {} /\ q.models = {} /\ q.endpoints = {}

\* All that the pages of a dashboard say about the same rows adds up to the
\* same, whatever they are broken down by and wherever the joins find nobody,
\* unless the rows changed between two statements or one failed, and a list of
\* tools that is cut, which only one of more than ToolLimit tools is, to no more;
\* everybody active is new once and then returns; the prior period is the rest of
\* one twice as long; what costs leave out is in the alert, for a week; and the
\* amount a team is shown to have spent is the one its budget is checked against,
\* and what its members are shown to have spent if their periods are the team's.
FiguresAgree ==
    /\ \A p, q \in DOMAIN board.got :
          /\ \A figure \in DOMAIN board.got[p] \cap DOMAIN board.got[q] :
                board.got[p][figure] = board.got[q][figure]
          /\ "mcpSome" \in DOMAIN board.got[p] =>
                /\ Cardinality(Tools(board.query)) > ToolLimit
                /\ "mcpUses" \in DOMAIN board.got[q] =>
                      board.got[p].mcpSome <= board.got[q].mcpUses
    /\ \A q \in Queries :
          /\ {r.who : r \in Selected(q)} =
                UNION {NewUsers(q, d) \cup ReturningUsers(q, d) : d \in 1 .. today}
          /\ Unfiltered(q) /\ q.from = 0 =>
                Overview(q).spent + PriorOverview(q).spent =
                  Overview([q EXCEPT !.days = 2 * @]).spent
          /\ \A u \in Identities : q.from = 0 /\ q.days <= 7 =>
                {r \in Mine(q, u) : ~Rated(r)} \subseteq UnratedRows
    /\ \A t \in Budgeted :
          /\ BudgetStatus(t) = TeamSpend(t, PeriodOf[t])
          /\ (\A u \in DOMAIN MemberSpend(t) : PeriodOf[u] = PeriodOf[t]) =>
                BudgetStatus(t) = SumOver(MemberSpend(t), DOMAIN MemberSpend(t))
=============================================================================
