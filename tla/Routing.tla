------------------------------ MODULE Routing ------------------------------
(***************************************************************************)
(* How a request finds an endpoint (messages() in api/handlers.rs and      *)
(* select_endpoint, get_fallback_endpoints, filter_by_model,               *)
(* update_affinity in endpoint/mod.rs), while loads and the health loop    *)
(* change the pool between its awaits in any way that PoolView allows.     *)
(***************************************************************************)
EXTENDS PoolView, Naturals, Sequences, FiniteSets

CONSTANTS
    Teams,        \* the assignments that a request may read, by priority
    Slots,        \* bound of the model: requests under way at a time
    Users,        \* identities; None is a request without one
    Strategies,   \* subset of "sticky_user", "primary_fallback", "round_robin"
    MaxAffinity,  \* EndpointPool.max_affinity_entries
    Turns         \* the round robin counter modulo a multiple of all lengths

ASSUME RoutingAssumption ==
    /\ Teams \subseteq Seq(Endpoints)
    /\ MaxAffinity \in Nat \ {0}
    /\ Turns \in Nat \ {0}
    /\ Strategies \subseteq {"sticky_user", "primary_fallback", "round_robin"}

VARIABLES
    affinity,  \* user_affinity, the entry refreshed last at the end
    turn,      \* round_robin_counter
    req,       \* the requests
    steady     \* history: of its team's endpoints, those that the pool has
               \* had as healthy, with their models, ever since it arrived

routeVars == <<affinity, turn, req, steady>>
vars == <<viewVars, routeVars>>

Elems(s) == {s[i] : i \in DOMAIN s}

Req == [pc : {"idle", "filter", "select", "send", "fallback", "next"},
        user : Users, strategy : Strategies, search : BOOLEAN, team : Teams,
        result : {"none", "answered", "failed", "unavailable"},
        at : Endpoints \cup {None},
        cand : SUBSET Endpoints,   \* of the team, the endpoints with the model
        rest : SUBSET Endpoints,   \* the fallbacks not tried yet
        tried : SUBSET Endpoints]

NewReq(u, t, search, team) ==
    [pc |-> IF team = <<>> THEN "select" ELSE "filter", user |-> u, strategy |-> t,
     search |-> search, team |-> team, result |-> "none", at |-> None,
     cand |-> {}, rest |-> {}, tried |-> {}]

RouteInit ==
    /\ ViewInit
    /\ affinity = <<>>
    /\ turn = 0
    /\ \E u \in Users, t \in Strategies, team \in Teams :
          req = [s \in Slots |-> [NewReq(u, t, FALSE, team) EXCEPT !.pc = "idle"]]
    /\ steady = [s \in Slots |-> {}]

-----------------------------------------------------------------------------
(* User affinity *)

AffinityOf(u) == {p[2] : p \in {q \in Elems(affinity) : q[1] = u}}
Others(u) == SelectSeq(affinity, LAMBDA p : p[1] # u)

\* Operators named ...Faulty are variants of the definition that follows, with
\* a mistake that code could well contain; no specification uses them.

\* update_affinity(): at capacity the entry refreshed longest ago makes room.
Remember(u, e) ==
    IF u = None THEN affinity
    ELSE IF Len(affinity) >= MaxAffinity /\ AffinityOf(u) = {}
    THEN Append(Tail(affinity), <<u, e>>)
    ELSE Append(Others(u), <<u, e>>)

\* Thirty minutes without an answered request.
ExpireAffinity(u) ==
    /\ AffinityOf(u) # {}
    /\ affinity' = Others(u)
    /\ UNCHANGED <<viewVars, turn, req, steady>>

-----------------------------------------------------------------------------
(* Priority: an assignment is a sequence, the endpoints to choose from a set *)

Before(s, e, f) ==
    \E i, j \in DOMAIN req[s].team :
        i < j /\ req[s].team[i] = e /\ req[s].team[j] = f

Ahead(s, S, e) == {f \in S : Before(s, f, e)}

Foremost(s, S) == {e \in S : Ahead(s, S, e) = {}}

\* The round robin counter is shared by all teams and strategies.
OnTurn(s, S) == {e \in S : Cardinality(Ahead(s, S, e)) = turn % Cardinality(S)}

-----------------------------------------------------------------------------
(* One request *)

\* get_team_endpoints() gives the enabled endpoints of the assignment at that
\* moment; none without a team, in the middle of set_team_endpoints(), and, by
\* "unwrap_or_default()", if the query fails.
Arrive(s, u, t, search, team) ==
    /\ req[s].pc = "idle"
    /\ req' = [req EXCEPT ![s] = NewReq(u, t, search, team)]
    /\ steady' = [steady EXCEPT ![s] = {e \in Elems(team) : Usable(e) /\ e \in listed}]
    /\ UNCHANGED <<viewVars, affinity, turn>>

End(s, result) == [req[s] EXCEPT !.pc = "idle", !.result = result]

\* filter_by_model(), for a model that every endpoint lists.
Supporting(s) == Elems(req[s].team) \cap Loaded \cap listed

Filter(s) ==
    /\ req[s].pc = "filter"
    /\ req' = [req EXCEPT ![s] =
          IF Supporting(s) = {} THEN End(s, "unavailable")
          ELSE [@ EXCEPT !.pc = "select", !.cand = Supporting(s)]]
    /\ UNCHANGED <<viewVars, affinity, turn, steady>>

Healthy(s) == {e \in req[s].cand : Usable(e)}

Pinned(s) ==
    IF req[s].strategy = "sticky_user" THEN AffinityOf(req[s].user) \cap Healthy(s)
    ELSE {}

\* select_endpoint(); a set of one.
Choice(s) ==
    IF req[s].team = <<>> THEN {IF dflt # None /\ Usable(dflt) THEN dflt ELSE None}
    ELSE IF Healthy(s) = {} THEN {None}
    ELSE IF Pinned(s) # {} THEN Pinned(s)
    ELSE IF req[s].strategy = "round_robin" THEN OnTurn(s, Healthy(s))
    ELSE Foremost(s, Healthy(s))

Select(s) ==
    /\ req[s].pc = "select"
    /\ \E e \in Choice(s) : req' = [req EXCEPT ![s] = [@ EXCEPT !.pc = "send", !.at = e]]
    /\ turn' = IF req[s].strategy = "round_robin" /\ Healthy(s) # {}
               THEN (turn + 1) % Turns ELSE turn
    /\ UNCHANGED <<viewVars, affinity, steady>>

\* An answer that is no reason to fail over: the user's affinity is refreshed,
\* unless the gateway's own client has answered.
Answered(s, e) ==
    /\ req' = [req EXCEPT ![s] = End(s, "answered")]
    /\ affinity' = IF e = None THEN affinity ELSE Remember(req[s].user, e)
    /\ UNCHANGED <<viewVars, turn, steady>>

\* 429 or 5xx, whatever the health loop thinks of the endpoint: the gateway's
\* own client has no fallbacks.
SendFailed(s) ==
    /\ req' = [req EXCEPT ![s] =
          IF req[s].at = None THEN End(s, "failed")
          ELSE [@ EXCEPT !.pc = "fallback", !.tried = {req[s].at}]]
    /\ UNCHANGED <<viewVars, affinity, turn, steady>>

Send(s) == req[s].pc = "send" /\ (Answered(s, req[s].at) \/ SendFailed(s))

\* Faulty: the endpoint of the highest priority is taken for the one that failed.
FallbacksFaulty(s) == Healthy(s) \ Foremost(s, req[s].cand)

\* get_fallback_endpoints()
Fallbacks(s) == Healthy(s) \ {req[s].at}

\* A request with a web search keeps its first answer.
Fallback(s) ==
    /\ req[s].pc = "fallback"
    /\ req' = [req EXCEPT ![s] =
          IF Fallbacks(s) = {} \/ req[s].search THEN End(s, "failed")
          ELSE [@ EXCEPT !.pc = "next", !.rest = Fallbacks(s)]]
    /\ UNCHANGED <<viewVars, affinity, turn, steady>>

\* The last failure is the answer.
Failed(s, e) ==
    [req[s] EXCEPT !.rest = @ \ {e}, !.tried = @ \cup {e},
                   !.pc = IF req[s].rest = {e} THEN "idle" ELSE "next",
                   !.result = IF req[s].rest = {e} THEN "failed" ELSE "none"]

NextFailed(s, e) ==
    /\ req' = [req EXCEPT ![s] = Failed(s, e)]
    /\ UNCHANGED <<viewVars, affinity, turn, steady>>

NextEndpoint(s) ==
    /\ req[s].pc = "next"
    /\ \E e \in Foremost(s, req[s].rest) : Answered(s, e) \/ NextFailed(s, e)

-----------------------------------------------------------------------------

ReqStep(s) == Filter(s) \/ Select(s) \/ Send(s) \/ Fallback(s) \/ NextEndpoint(s)

PoolStep ==
    /\ ViewNext
    /\ steady' = [s \in Slots |-> {e \in steady[s] : Usable(e)'}]
    /\ UNCHANGED <<affinity, turn, req>>

Next ==
    \/ PoolStep
    \/ \E s \in Slots :
          \/ \E u \in Users, t \in Strategies, search \in BOOLEAN, team \in Teams :
                Arrive(s, u, t, search, team)
          \/ ReqStep(s)
    \/ \E u \in Users : ExpireAffinity(u)

RouteSpec == RouteInit /\ [][Next]_vars

-----------------------------------------------------------------------------
(* Properties *)

\* docs/endpoints.md, "Failover": a request of a team ends in an error, or with
\* the gateway's own client, only after every endpoint that was healthy all the
\* while has been tried, whatever reloads and health checks came in between.
TriesAll ==
    \A s \in Slots :
        LET r == req[s]
        IN  r.pc = "idle" =>
                /\ r.result = "unavailable" => steady[s] = {}
                /\ r.result = "failed" /\ ~r.search => steady[s] \subseteq r.tried
                /\ r.result = "answered" /\ r.at = None => steady[s] = {}

\* docs/endpoints.md, "sticky_user": "Each user's requests go to the same
\* endpoint for up to 30 minutes of inactivity": while the endpoint is assigned
\* to the team and has the model, is enabled, and passes every health check.
Sticky ==
    [][\A s \in Slots :
         LET r == req[s]
         IN  \A e \in AffinityOf(r.user) :
                /\ r.pc = "select" /\ req'[s].pc = "send"
                /\ r.strategy = "sticky_user"
                /\ e \in r.cand \cap on \cap Sound
                => req'[s].at = e]_vars
=============================================================================
