--------------------------- MODULE RoutingProofs ---------------------------
(***************************************************************************)
(* Proof that a request tries every endpoint that stays healthy            *)
(* (TriesAll), for every set of endpoints, teams, users and requests.      *)
(***************************************************************************)
EXTENDS Routing, TLAPS

\* The types that the argument needs.
Types ==
    /\ on \subseteq Endpoints /\ off \subseteq Endpoints
    /\ dflt \in Endpoints \cup {None}
    /\ req \in [Slots -> Req]
    /\ steady \in [Slots -> SUBSET Endpoints]

\* Where the steady endpoints of a request are, at every step of its way.
Kept(s) ==
    LET r == req[s]
    IN  /\ r.pc = "filter" => steady[s] \subseteq Elems(r.team)
        /\ r.pc \in {"select", "send", "fallback"} => steady[s] \subseteq r.cand
        /\ r.pc = "select" /\ r.team = <<>> => steady[s] = {}
        /\ r.pc = "send" /\ r.at = None => steady[s] = {}
        /\ r.pc = "fallback" => r.tried = {r.at}
        /\ r.pc \in {"fallback", "next"} => r.at # None
        /\ r.pc = "next" => steady[s] \subseteq r.tried \cup r.rest
        /\ r.pc = "idle" =>
              /\ r.result = "unavailable" => steady[s] = {}
              /\ r.result = "failed" /\ ~r.search => steady[s] \subseteq r.tried
              /\ r.result = "answered" /\ r.at = None => steady[s] = {}

RouteInv ==
    /\ Types
    /\ \A s \in Slots : Kept(s) /\ \A e \in steady[s] : Usable(e) /\ e \in listed

LEMMA RouteInvInit ==
    ASSUME PoolViewAssumption, RoutingAssumption PROVE RouteInit => RouteInv
  <1> SUFFICES ASSUME RouteInit PROVE RouteInv
    OBVIOUS
  <1>1. PICK u \in Users, t \in Strategies, team \in Teams :
           req = [s \in Slots |-> [NewReq(u, t, FALSE, team) EXCEPT !.pc = "idle"]]
    BY DEF RouteInit
  <1>2. NewReq(u, t, FALSE, team) \in Req /\ NewReq(u, t, FALSE, team).result = "none"
    BY DEF NewReq, Req, RoutingAssumption
  <1>3. /\ req \in [Slots -> Req]
        /\ \A s \in Slots : req[s].pc = "idle" /\ req[s].result = "none"
    <2> DEFINE n == NewReq(u, t, FALSE, team)
    <2>1. req = [s \in Slots |-> [n EXCEPT !.pc = "idle"]]
      BY <1>1
    <2>2. n \in Req /\ n.result = "none"
      BY <1>2
    <2> HIDE DEF n
    <2> QED BY <2>1, <2>2 DEF Req
  <1> QED BY <1>3 DEF RouteInit, ViewInit, RouteInv, Types, Kept

\* A step of one request leaves the others and the pool alone.
LEMMA OneRequest ==
    ASSUME RouteInv, NEW s \in Slots, UNCHANGED viewVars,
           req' \in [Slots -> Req], steady' \in [Slots -> SUBSET Endpoints],
           \A t \in Slots \ {s} : req'[t] = req[t] /\ steady'[t] = steady[t],
           Kept(s)', \A e \in steady'[s] : Usable(e) /\ e \in listed
    PROVE  RouteInv'
  <1>1. \A e : Usable(e)' = Usable(e)
    BY DEF Usable, viewVars
  <1>2. \A t \in Slots \ {s} : Kept(t)'
    BY DEF RouteInv, Kept
  <1> QED BY <1>1, <1>2 DEF RouteInv, Types, viewVars

LEMMA ArriveStep ==
    ASSUME PoolViewAssumption, RoutingAssumption, RouteInv, NEW s \in Slots,
           NEW u \in Users, NEW t \in Strategies, NEW search \in BOOLEAN,
           NEW team \in Teams, Arrive(s, u, t, search, team)
    PROVE  RouteInv'
  <1> DEFINE r == NewReq(u, t, search, team)
             S == {e \in Elems(team) : Usable(e) /\ e \in listed}
  <1>1. r \in Req /\ r.team = team /\ r.pc = (IF team = <<>> THEN "select" ELSE "filter")
    BY DEF NewReq, Req
  <1>2. Elems(team) \subseteq Endpoints
    BY DEF Elems, RoutingAssumption
  <1>3. team = <<>> => Elems(team) = {}
    BY DEF Elems
  <1>4. req' = [req EXCEPT ![s] = r] /\ steady' = [steady EXCEPT ![s] = S]
    BY DEF Arrive
  <1>5. S \in SUBSET Endpoints /\ S \subseteq Elems(team)
    BY <1>2
  <1> HIDE DEF r, S
  <1>6. req' \in [Slots -> Req] /\ steady' \in [Slots -> SUBSET Endpoints]
    BY <1>1, <1>4, <1>5 DEF RouteInv, Types
  <1>7. req'[s] = r /\ steady'[s] = S
    BY <1>4 DEF RouteInv, Types
  <1>8. Kept(s)'
    BY <1>1, <1>3, <1>5, <1>7 DEF Kept
  <1>9. \A e \in S : Usable(e) /\ e \in listed
    BY DEF S
  <1>10. \A q \in Slots \ {s} : req'[q] = req[q] /\ steady'[q] = steady[q]
    BY <1>4 DEF RouteInv, Types
  <1> QED BY <1>6, <1>7, <1>8, <1>9, <1>10, OneRequest DEF Arrive

\* The other steps of a request replace its record only.
LEMMA NewRecord ==
    ASSUME RouteInv, NEW s \in Slots, NEW r \in Req, UNCHANGED <<viewVars, steady>>,
           req' = [req EXCEPT ![s] = r], Kept(s)'
    PROVE  RouteInv'
  <1>1. req' \in [Slots -> Req] /\ steady' \in [Slots -> SUBSET Endpoints]
    BY DEF RouteInv, Types
  <1>2. \A q \in Slots \ {s} : req'[q] = req[q] /\ steady'[q] = steady[q]
    BY DEF RouteInv, Types
  <1>3. \A e \in steady'[s] : Usable(e) /\ e \in listed
    BY DEF RouteInv
  <1> QED BY <1>1, <1>2, <1>3, OneRequest

LEMMA Ended ==
    ASSUME RouteInv, NEW s \in Slots, NEW x \in {"answered", "failed", "unavailable"}
    PROVE  /\ End(s, x) \in Req
           /\ End(s, x).pc = "idle" /\ End(s, x).result = x
           /\ End(s, x).at = req[s].at /\ End(s, x).tried = req[s].tried
           /\ End(s, x).search = req[s].search
  <1>1. req[s] \in Req
    BY DEF RouteInv, Types
  <1> QED BY <1>1 DEF End, Req

LEMMA FilterStep ==
    ASSUME PoolViewAssumption, RouteInv, NEW s \in Slots, Filter(s) PROVE RouteInv'
  <1> DEFINE C == Supporting(s)
             r == IF C = {} THEN End(s, "unavailable")
                  ELSE [req[s] EXCEPT !.pc = "select", !.cand = C]
  <1>0. req[s] \in Req /\ req[s].pc = "filter"
    BY DEF Filter, RouteInv, Types
  <1>1. steady[s] \subseteq C /\ C \subseteq Endpoints
    BY <1>0 DEF RouteInv, Types, Kept, Supporting, Usable, Loaded
  <1>2. req' = [req EXCEPT ![s] = r]
    BY DEF Filter
  <1> HIDE DEF C
  <1>3. CASE C = {}
    <2>1. r = End(s, "unavailable")
      BY <1>3
    <2> HIDE DEF r
    <2>2. r \in Req /\ r.pc = "idle" /\ r.result = "unavailable"
      BY <2>1, Ended
    <2>3. req'[s] = r /\ steady'[s] = {}
      BY <1>1, <1>2, <1>3 DEF Filter, RouteInv, Types
    <2> QED BY <1>2, <2>2, <2>3, NewRecord DEF Filter, Kept
  <1>4. CASE C # {}
    <2>1. r = [req[s] EXCEPT !.pc = "select", !.cand = C]
      BY <1>4
    <2> HIDE DEF r
    <2>2. /\ r \in Req /\ r.pc = "select" /\ r.cand = C /\ r.team = req[s].team
      BY <1>0, <1>1, <2>1 DEF Req
    <2>3. req'[s] = r /\ steady'[s] = steady[s]
      BY <1>2 DEF Filter, RouteInv, Types
    <2>4. req[s].team = <<>> => steady[s] = {}
      BY <1>0 DEF RouteInv, Kept, Elems
    <2> QED BY <1>1, <1>2, <2>2, <2>3, <2>4, NewRecord DEF Filter, Kept
  <1> QED BY <1>3, <1>4

\* No endpoint is chosen only if none of the team is healthy.
LEMMA Chosen ==
    ASSUME PoolViewAssumption, RouteInv, NEW s \in Slots, req[s].pc = "select",
           NEW e \in Choice(s)
    PROVE  e \in Endpoints \cup {None} /\ (e = None => steady[s] = {})
  <1>1. steady[s] \subseteq Healthy(s) /\ Healthy(s) \subseteq Endpoints
    BY DEF RouteInv, Types, Kept, Healthy, Usable
  <1>2. CASE req[s].team = <<>>
    BY <1>2 DEF Choice, RouteInv, Types, Kept
  <1>3. CASE req[s].team # <<>> /\ Healthy(s) = {}
    BY <1>1, <1>3 DEF Choice
  <1>4. CASE req[s].team # <<>> /\ Healthy(s) # {}
    <2>1. e \in Healthy(s)
      <3>1. Pinned(s) \subseteq Healthy(s)
        BY DEF Pinned
      <3>2. OnTurn(s, Healthy(s)) \subseteq Healthy(s)
        BY DEF OnTurn
      <3>3. Foremost(s, Healthy(s)) \subseteq Healthy(s)
        BY DEF Foremost
      <3> QED BY <1>4, <3>1, <3>2, <3>3 DEF Choice
    <2> QED BY <1>1, <2>1 DEF PoolViewAssumption
  <1> QED BY <1>2, <1>3, <1>4

LEMMA SelectStep ==
    ASSUME PoolViewAssumption, RouteInv, NEW s \in Slots, Select(s) PROVE RouteInv'
  <1>0. req[s] \in Req /\ req[s].pc = "select"
    BY DEF Select, RouteInv, Types
  <1>1. PICK e \in Choice(s) :
           req' = [req EXCEPT ![s] = [@ EXCEPT !.pc = "send", !.at = e]]
    BY DEF Select
  <1>2. e \in Endpoints \cup {None} /\ (e = None => steady[s] = {})
    BY <1>0, Chosen
  <1> DEFINE r == [req[s] EXCEPT !.pc = "send", !.at = e]
  <1>3. req' = [req EXCEPT ![s] = r]
    BY <1>1
  <1>4. r \in Req /\ r.pc = "send" /\ r.at = e /\ r.cand = req[s].cand
    BY <1>0, <1>2 DEF Req
  <1> HIDE DEF r
  <1>5. req'[s] = r /\ steady'[s] = steady[s]
    BY <1>3 DEF Select, RouteInv, Types
  <1>6. steady[s] \subseteq req[s].cand
    BY <1>0 DEF RouteInv, Kept
  <1> QED BY <1>2, <1>3, <1>4, <1>5, <1>6, NewRecord DEF Select, Kept

LEMMA AnsweredStep ==
    ASSUME RouteInv, NEW s \in Slots, NEW e \in Endpoints \cup {None}, Answered(s, e),
           req[s].at = None => steady[s] = {}
    PROVE  RouteInv'
  <1> DEFINE r == End(s, "answered")
  <1>1. r \in Req /\ r.pc = "idle" /\ r.result = "answered" /\ r.at = req[s].at
    BY Ended
  <1>2. req' = [req EXCEPT ![s] = r]
    BY DEF Answered
  <1> HIDE DEF r
  <1>3. req'[s] = r /\ steady'[s] = steady[s]
    BY <1>2 DEF Answered, RouteInv, Types
  <1> QED BY <1>1, <1>2, <1>3, NewRecord DEF Answered, Kept

LEMMA SendStep ==
    ASSUME RouteInv, NEW s \in Slots, Send(s) PROVE RouteInv'
  <1>0. /\ req[s] \in Req /\ req[s].pc = "send" /\ req[s].at \in Endpoints \cup {None}
        /\ steady[s] \subseteq req[s].cand /\ (req[s].at = None => steady[s] = {})
    BY DEF Send, RouteInv, Types, Kept, Req
  <1>1. CASE Answered(s, req[s].at)
    BY <1>0, <1>1, AnsweredStep
  <1>2. CASE SendFailed(s) /\ req[s].at = None
    <2> DEFINE r == End(s, "failed")
    <2>1. r \in Req /\ r.pc = "idle" /\ r.result = "failed"
      BY Ended
    <2>2. req' = [req EXCEPT ![s] = r]
      BY <1>2 DEF SendFailed
    <2> HIDE DEF r
    <2>3. req'[s] = r /\ steady'[s] = {}
      BY <1>0, <1>2, <2>2 DEF SendFailed, RouteInv, Types
    <2> QED BY <1>2, <2>1, <2>2, <2>3, NewRecord DEF SendFailed, Kept
  <1>3. CASE SendFailed(s) /\ req[s].at # None
    <2> DEFINE r == [req[s] EXCEPT !.pc = "fallback", !.tried = {req[s].at}]
    <2>1. /\ r \in Req /\ r.pc = "fallback" /\ r.cand = req[s].cand
          /\ r.at # None /\ r.tried = {r.at}
      BY <1>0, <1>3 DEF Req
    <2>2. req' = [req EXCEPT ![s] = r]
      BY <1>3 DEF SendFailed
    <2> HIDE DEF r
    <2>3. req'[s] = r /\ steady'[s] = steady[s]
      BY <1>3, <2>2 DEF SendFailed, RouteInv, Types
    <2> QED BY <1>0, <1>3, <2>1, <2>2, <2>3, NewRecord DEF SendFailed, Kept
  <1> QED BY <1>1, <1>2, <1>3 DEF Send

LEMMA FallbackStep ==
    ASSUME RouteInv, NEW s \in Slots, Fallback(s) PROVE RouteInv'
  <1> DEFINE F == Fallbacks(s)
  <1>0. /\ req[s] \in Req /\ req[s].pc = "fallback" /\ req[s].at # None
        /\ req[s].tried = {req[s].at} /\ steady[s] \subseteq req[s].cand
    BY DEF Fallback, RouteInv, Types, Kept
  <1>1. F \subseteq Endpoints /\ steady[s] \subseteq {req[s].at} \cup F
    BY <1>0 DEF Fallbacks, Healthy, Usable, RouteInv, Types
  <1> HIDE DEF F
  <1>2. CASE F = {} \/ req[s].search
    <2> DEFINE r == End(s, "failed")
    <2>1. /\ r \in Req /\ r.pc = "idle" /\ r.result = "failed"
          /\ r.tried = req[s].tried /\ r.search = req[s].search
      BY Ended
    <2>2. req' = [req EXCEPT ![s] = r]
      BY <1>2 DEF Fallback, F
    <2> HIDE DEF r
    <2>3. req'[s] = r /\ steady'[s] = steady[s]
      BY <2>2 DEF Fallback, RouteInv, Types
    <2> QED BY <1>0, <1>1, <1>2, <2>1, <2>2, <2>3, NewRecord DEF Fallback, Kept
  <1>3. CASE ~(F = {} \/ req[s].search)
    <2> DEFINE r == [req[s] EXCEPT !.pc = "next", !.rest = F]
    <2>1. /\ r \in Req /\ r.pc = "next" /\ r.rest = F /\ r.at # None
          /\ r.tried = {req[s].at}
      BY <1>0, <1>1 DEF Req
    <2>2. req' = [req EXCEPT ![s] = r]
      BY <1>3 DEF Fallback, F
    <2> HIDE DEF r
    <2>3. req'[s] = r /\ steady'[s] = steady[s]
      BY <2>2 DEF Fallback, RouteInv, Types
    <2> QED BY <1>1, <2>1, <2>2, <2>3, NewRecord DEF Fallback, Kept
  <1> QED BY <1>2, <1>3

LEMMA NextEndpointStep ==
    ASSUME RouteInv, NEW s \in Slots, NextEndpoint(s) PROVE RouteInv'
  <1>0. /\ req[s] \in Req /\ req[s].pc = "next" /\ req[s].at # None
        /\ steady[s] \subseteq req[s].tried \cup req[s].rest
        /\ req[s].rest \subseteq Endpoints /\ req[s].tried \subseteq Endpoints
    BY DEF NextEndpoint, RouteInv, Types, Kept, Req
  <1>1. PICK e \in Foremost(s, req[s].rest) : Answered(s, e) \/ NextFailed(s, e)
    BY DEF NextEndpoint
  <1>2. e \in req[s].rest /\ e \in Endpoints
    BY <1>0 DEF Foremost
  <1>3. CASE Answered(s, e)
    BY <1>0, <1>2, <1>3, AnsweredStep
  <1>4. CASE NextFailed(s, e)
    <2> DEFINE r == Failed(s, e)
    <2>1. /\ r \in Req /\ r.rest = req[s].rest \ {e} /\ r.tried = req[s].tried \cup {e}
          /\ r.pc = (IF req[s].rest = {e} THEN "idle" ELSE "next") /\ r.at = req[s].at
          /\ r.result = (IF req[s].rest = {e} THEN "failed" ELSE "none")
      BY <1>0, <1>2 DEF Req, Failed
    <2>2. req' = [req EXCEPT ![s] = r]
      BY <1>4 DEF NextFailed
    <2> HIDE DEF r
    <2>3. req'[s] = r /\ steady'[s] = steady[s]
      BY <1>4, <2>2 DEF NextFailed, RouteInv, Types
    <2>4. /\ steady[s] \subseteq r.tried \cup r.rest
          /\ req[s].rest = {e} => steady[s] \subseteq r.tried
      BY <1>0, <2>1
    <2>5. Kept(s)'
      BY <1>0, <2>1, <2>3, <2>4 DEF Kept
    <2> QED BY <1>4, <2>1, <2>2, <2>5, NewRecord DEF NextFailed
  <1> QED BY <1>1, <1>3, <1>4

\* The pool can only take endpoints out of "steady".
LEMMA PoolStepInv ==
    ASSUME PoolViewAssumption, RouteInv, PoolStep PROVE RouteInv'
  <1>1. \A s \in Slots : steady'[s] = {e \in steady[s] : Usable(e)'}
    BY DEF PoolStep
  <1>2. steady' \in [Slots -> SUBSET Endpoints]
    BY DEF PoolStep, RouteInv, Types
  <1>3. /\ on' \subseteq Endpoints /\ off' \subseteq Endpoints
        /\ dflt' \in Endpoints \cup {None}
    BY DEF PoolStep, ViewNext, Swap, SetDefault, List, Mark, RouteInv, Types
  <1>4. listed \subseteq listed' \/ healthy' = {}
    BY DEF PoolStep, ViewNext, Swap, SetDefault, List, Mark
  <1>5. \A s \in Slots : Kept(s)'
    <2> SUFFICES ASSUME NEW s \in Slots PROVE Kept(s)'
      OBVIOUS
    <2>1. Kept(s) /\ steady'[s] \subseteq steady[s] /\ req'[s] = req[s]
      BY <1>1 DEF RouteInv, PoolStep
    <2> QED BY <2>1 DEF Kept
  <1>6. \A s \in Slots : \A e \in steady'[s] : Usable(e)' /\ e \in listed'
    BY <1>1, <1>4 DEF RouteInv, Usable
  <1> QED BY <1>2, <1>3, <1>5, <1>6 DEF RouteInv, Types, PoolStep

LEMMA RouteInvStep ==
    ASSUME PoolViewAssumption, RoutingAssumption
    PROVE  RouteInv /\ [Next]_vars => RouteInv'
  <1> SUFFICES ASSUME RouteInv, [Next]_vars PROVE RouteInv'
    OBVIOUS
  <1>1. ASSUME NEW s \in Slots, ReqStep(s) PROVE RouteInv'
    BY <1>1, FilterStep, SelectStep, SendStep, FallbackStep, NextEndpointStep DEF ReqStep
  <1>2. CASE UNCHANGED <<viewVars, req, steady>>
    BY <1>2 DEF viewVars, RouteInv, Types, Kept, Usable
  <1>3. ASSUME NEW u \in Users, ExpireAffinity(u) PROVE RouteInv'
    BY <1>2, <1>3 DEF ExpireAffinity
  <1>4. CASE UNCHANGED vars
    BY <1>2, <1>4 DEF vars, routeVars
  <1> QED BY <1>1, <1>3, <1>4, ArriveStep, PoolStepInv DEF Next

\* A request of a team that fails, or that the gateway's own client answers,
\* has tried every endpoint that was healthy and listed from its arrival on.
THEOREM TriesAllHealthy == RouteSpec => []TriesAll
  <1>1. RouteInit => RouteInv
    BY RouteInvInit, PoolViewAssumption, RoutingAssumption
  <1>2. RouteInv /\ [Next]_vars => RouteInv'
    BY RouteInvStep, PoolViewAssumption, RoutingAssumption
  <1>3. RouteInv => TriesAll
    BY DEF RouteInv, Kept, TriesAll
  <1> QED BY <1>1, <1>2, <1>3, PTL DEF RouteSpec
=============================================================================
