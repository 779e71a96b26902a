---------------------------- MODULE EndpointPool ----------------------------
(***************************************************************************)
(* The Bedrock endpoints of one replica (src/src/endpoint/mod.rs): their   *)
(* rows in Postgres (db/endpoints.rs), the pool of clients made from them, *)
(* and the health loop that decides which clients take requests.           *)
(*                                                                         *)
(* A load lists the rows, notes the caches of the clients it will replace, *)
(* swaps the clients and then, under another lock, the default.  Loads run *)
(* in the poller and in the endpoint handlers.  Every client a load makes  *)
(* starts unhealthy; only the caches survive.  The health loop works       *)
(* through the clients it found when it began, replaced or not.  Of a      *)
(* team's assignment only the set is kept, not the priorities.             *)
(***************************************************************************)
EXTENDS Naturals

CONSTANTS
    Endpoints,
    None,
    StartRows,     \* the tables that the replica may find when it starts
    Assignments,   \* what administrators assign to the team
    MaxChanges,    \* bound of the model: changes of rows, here or elsewhere,
                   \* and checks that administrators ask for
    MaxFlips,      \* bound of the model: changes of what Bedrock answers
    MaxFaults      \* bound of the model: failing calls

ASSUME PoolAssumption ==
    /\ None \notin Endpoints
    /\ StartRows \subseteq [Endpoints -> {"absent", "off", "on"}]
    /\ Assignments \subseteq SUBSET Endpoints
    /\ {MaxChanges, MaxFlips, MaxFaults} \subseteq Nat

VARIABLES
    rows,       \* endpoints: the state of every row
    isDefault,  \* endpoints.is_default
    assigned,   \* team_endpoints of the team
    version,    \* cache_version.version
    bedrock,    \* what a health check would find: "down", or that all is well with
                \* no model listed ("empty") or some ("ok")
    admin,      \* a handler that changes endpoints, in this or another replica
    clients,    \* EndpointPool.clients
    dflt,       \* EndpointPool.default_endpoint_id
    listed,     \* endpoints whose available_models have been filled
    seen,       \* GatewayState.cache_version
    load,       \* the poller's load and the handler's
    check,      \* what the health loop has yet to do in this tick
    tested,     \* the checks asked for by administrators and under way, of the
                \* clients that the pool still has
    changes, flips, faults  \* what the bounds count

dbVars == <<rows, isDefault, assigned, version>>
checks == <<check, tested>>
bounds == <<changes, flips, faults>>
poolVars == <<dbVars, bedrock, admin, clients, dflt, listed, seen, load, checks,
              bounds>>

RowState == {"absent", "off", "on"}
Answers == {"down", "empty", "ok"}
Client == [state : RowState, healthy : BOOLEAN]
Admin == [pc : {"idle", "insert", "bump", "load"}, here : BOOLEAN, all : BOOLEAN,
          rest : SUBSET Endpoints]
Load == [pc : {"idle", "list", "keep", "swap", "default"}, all : BOOLEAN,
         view : [Endpoints -> RowState], dflt : Endpoints \cup {None},
         keep : SUBSET Endpoints]
Check == [pc : {"no", "todo", "ok", "bad"}, live : BOOLEAN, shared : BOOLEAN]

NoClient == [state |-> "absent", healthy |-> FALSE]
NoAdmin == [pc |-> "idle", here |-> FALSE, all |-> FALSE, rest |-> {}]
NoLoad == [pc |-> "idle", all |-> FALSE, view |-> [e \in Endpoints |-> "absent"],
           dflt |-> None, keep |-> {}]
NoCheck == [pc |-> "no", live |-> FALSE, shared |-> FALSE]

Present(e) == rows[e] # "absent"

\* A replica that has just loaded the enabled rows.
Init ==
    /\ rows \in StartRows
    /\ isDefault \in {None} \cup {e \in Endpoints : Present(e)}
    /\ assigned \in {S \in Assignments : \A e \in S : Present(e)}
    /\ version = 0
    /\ bedrock \in [Endpoints -> Answers]
    /\ admin = NoAdmin
    /\ clients = [e \in Endpoints |->
                     IF rows[e] = "on" THEN [state |-> "on", healthy |-> FALSE]
                     ELSE NoClient]
    /\ listed = {}
    /\ dflt = IF isDefault # None /\ rows[isDefault] = "on" THEN isDefault ELSE None
    /\ seen = 0
    /\ load = [w \in {"poll", "admin"} |-> NoLoad]
    /\ check = [e \in Endpoints |-> NoCheck]
    /\ tested = [e \in Endpoints |-> 0]
    /\ changes = 0 /\ flips = 0 /\ faults = 0

-----------------------------------------------------------------------------
(* Endpoint handlers: rows, version, and the load of their own replica *)

\* A handler begins; "here" if this replica was sent the request.
Begin(next) ==
    /\ admin.pc = "idle"
    /\ changes < MaxChanges
    /\ changes' = changes + 1
    /\ admin' = next
    /\ UNCHANGED <<version, bedrock, clients, dflt, listed, seen, load, checks,
                   flips, faults>>

ToBump(here, all) == [NoAdmin EXCEPT !.pc = "bump", !.here = here, !.all = all]

CreateEndpoint(here, e) ==
    /\ ~Present(e)
    /\ Begin(ToBump(here, FALSE))
    /\ rows' = [rows EXCEPT ![e] = "on"]
    /\ UNCHANGED <<isDefault, assigned>>

UpdateEndpoint(here, e, s) ==
    /\ Present(e)
    /\ Begin(ToBump(here, FALSE))
    /\ rows' = [rows EXCEPT ![e] = s]
    /\ UNCHANGED <<isDefault, assigned>>

\* The team's assignment of the endpoint goes with the row.
DeleteEndpoint(here, e) ==
    /\ Present(e)
    /\ Begin(ToBump(here, FALSE))
    /\ rows' = [rows EXCEPT ![e] = "absent"]
    /\ isDefault' = IF isDefault = e THEN None ELSE isDefault
    /\ assigned' = assigned \ {e}

SetDefaultEndpoint(here, e) ==
    /\ Present(e)
    /\ Begin(ToBump(here, TRUE))
    /\ isDefault' = e
    /\ UNCHANGED <<rows, assigned>>

\* An id without a row: the answer is "not found", nothing is bumped, and the
\* default is cleared all the same.
SetDefaultMissing ==
    /\ admin.pc = "idle"
    /\ faults < MaxFaults
    /\ faults' = faults + 1
    /\ isDefault' = None
    /\ UNCHANGED <<rows, assigned, version, bedrock, admin, clients, dflt,
                   listed, seen, load, checks, changes, flips>>

\* set_team_endpoints() deletes the assignment, ...
SetTeamEndpoints(here, S) ==
    /\ Begin([pc |-> "insert", here |-> here, all |-> TRUE, rest |-> S])
    /\ assigned' = {}
    /\ UNCHANGED <<rows, isDefault>>

\* ... and inserts the new one row by row; an endpoint without a row ends it.
InsertAssignment ==
    /\ admin.pc = "insert"
    /\ \/ /\ admin.rest = {}
          /\ admin' = ToBump(admin.here, admin.all)
          /\ UNCHANGED assigned
       \/ \E e \in admin.rest :
             /\ admin' = IF Present(e) THEN [admin EXCEPT !.rest = @ \ {e}] ELSE NoAdmin
             /\ assigned' = IF Present(e) THEN assigned \cup {e} ELSE assigned
    /\ UNCHANGED <<rows, isDefault, version, bedrock, clients, dflt, listed,
                   seen, load, checks, bounds>>

BumpVersion ==
    /\ admin.pc = "bump"
    /\ version' = version + 1
    /\ IF admin.here
       THEN /\ admin' = [admin EXCEPT !.pc = "load"]
            /\ load' = [load EXCEPT !["admin"] =
                           [NoLoad EXCEPT !.pc = "list", !.all = admin.all]]
       ELSE /\ admin' = NoAdmin
            /\ UNCHANGED load
    /\ UNCHANGED <<rows, isDefault, assigned, bedrock, clients, dflt, listed,
                   seen, checks, bounds>>

AdminFault ==
    /\ admin.pc \in {"insert", "bump"}
    /\ faults < MaxFaults
    /\ faults' = faults + 1
    /\ admin' = NoAdmin
    /\ UNCHANGED <<dbVars, bedrock, clients, dflt, listed, seen, load, checks,
                   changes, flips>>

\* Any other change that bumps the version: a key, a setting, a model mapping.
OtherBump ==
    /\ changes < MaxChanges
    /\ changes' = changes + 1
    /\ version' = version + 1
    /\ UNCHANGED <<rows, isDefault, assigned, bedrock, admin, clients, dflt,
                   listed, seen, load, checks, flips, faults>>

-----------------------------------------------------------------------------
(* Loads *)

\* Operators named ...Faulty are variants of the definition that follows, with
\* a mistake that code could well contain; no specification uses them.

PollVersion ==
    /\ load["poll"].pc = "idle"
    /\ version > seen
    /\ seen' = version
    /\ load' = [load EXCEPT !["poll"] = [NoLoad EXCEPT !.pc = "list"]]
    /\ UNCHANGED <<dbVars, bedrock, admin, clients, dflt, listed, checks, bounds>>

\* get_enabled_endpoints(), or list_endpoints() with the disabled ones.
ListedRow(w, e) == IF load[w].all \/ rows[e] = "on" THEN rows[e] ELSE "absent"

LoadList(w) ==
    /\ load[w].pc = "list"
    /\ load' = [load EXCEPT ![w] =
          [@ EXCEPT !.pc = "keep",
                    !.view = [e \in Endpoints |-> ListedRow(w, e)],
                    !.dflt = IF isDefault # None /\ ListedRow(w, isDefault) # "absent"
                             THEN isDefault ELSE None]]
    /\ UNCHANGED <<dbVars, bedrock, admin, clients, dflt, listed, seen, checks,
                   bounds>>

\* The caches to preserve are those of the clients in the pool now.
LoadKeep(w) ==
    /\ load[w].pc = "keep"
    /\ load' = [load EXCEPT ![w] =
          [@ EXCEPT !.pc = "swap", !.keep = {e \in Endpoints : clients[e].state # "absent"}]]
    /\ UNCHANGED <<dbVars, bedrock, admin, clients, dflt, listed, seen, checks,
                   bounds>>

\* The clients that get empty caches.
Fresh(w) == {e \in Endpoints : load[w].view[e] # "absent"} \ load[w].keep

LoadSwap(w) ==
    /\ load[w].pc = "swap"
    /\ clients' = [e \in Endpoints |->
          IF load[w].view[e] = "absent" THEN NoClient
          ELSE [state |-> load[w].view[e], healthy |-> FALSE]]
    /\ listed' = listed \ Fresh(w)
    /\ check' = [e \in Endpoints |->
          [check[e] EXCEPT !.live = FALSE, !.shared = @ /\ e \notin Fresh(w)]]
    /\ tested' = [e \in Endpoints |-> 0]
    /\ load' = [load EXCEPT ![w].pc = "default"]
    /\ UNCHANGED <<dbVars, bedrock, admin, dflt, seen, bounds>>

AfterLoad(w) == IF w = "admin" THEN NoAdmin ELSE admin

\* Faulty: without a new default the old one stays.
LoadDefaultFaulty(w) ==
    /\ load[w].pc = "default"
    /\ dflt' = IF load[w].dflt # None THEN load[w].dflt ELSE dflt
    /\ load' = [load EXCEPT ![w] = NoLoad]
    /\ admin' = AfterLoad(w)
    /\ UNCHANGED <<dbVars, bedrock, clients, listed, seen, checks, bounds>>

LoadDefault(w) ==
    /\ load[w].pc = "default"
    /\ dflt' = load[w].dflt
    /\ load' = [load EXCEPT ![w] = NoLoad]
    /\ admin' = AfterLoad(w)
    /\ UNCHANGED <<dbVars, bedrock, clients, listed, seen, checks, bounds>>

\* The rows cannot be listed: the poller logs it, a handler answers "updated".
LoadFault(w) ==
    /\ load[w].pc = "list"
    /\ faults < MaxFaults
    /\ faults' = faults + 1
    /\ load' = [load EXCEPT ![w] = NoLoad]
    /\ admin' = AfterLoad(w)
    /\ UNCHANGED <<dbVars, bedrock, clients, dflt, listed, seen, checks, changes,
                   flips>>

-----------------------------------------------------------------------------
(* The health loop, every 60 seconds, one endpoint after the other *)

\* Faulty: clients that are healthy are not checked again.
HealthTickFaulty ==
    /\ \A e \in Endpoints : check[e].pc = "no"
    /\ check' = [e \in Endpoints |->
          IF clients[e].state = "absent" \/ clients[e].healthy THEN NoCheck
          ELSE [pc |-> "todo", live |-> TRUE, shared |-> TRUE]]
    /\ \E e \in Endpoints : clients[e].state # "absent" /\ ~clients[e].healthy
    /\ UNCHANGED <<dbVars, bedrock, admin, clients, dflt, listed, seen, load,
                   tested, bounds>>

HealthTick ==
    /\ \A e \in Endpoints : check[e].pc = "no"
    /\ check' = [e \in Endpoints |->
          IF clients[e].state = "absent" THEN NoCheck
          ELSE [pc |-> "todo", live |-> TRUE, shared |-> TRUE]]
    /\ \E e \in Endpoints : clients[e].state # "absent"
    /\ UNCHANGED <<dbVars, bedrock, admin, clients, dflt, listed, seen, load,
                   tested, bounds>>

\* The models are listed at once, the verdict comes after the probes.  A check
\* that fails or finds no model leaves the list as it was.
HealthCall(e) ==
    /\ check[e].pc = "todo"
    /\ \A f \in Endpoints : check[f].pc \in {"no", "todo"}
    /\ check' = [check EXCEPT ![e].pc = IF bedrock[e] = "down" THEN "bad" ELSE "ok"]
    /\ listed' = IF bedrock[e] = "ok" /\ check[e].shared THEN listed \cup {e} ELSE listed
    /\ UNCHANGED <<dbVars, bedrock, admin, clients, dflt, seen, load, tested,
                   bounds>>

\* Faulty: the verdict is entered for whatever the pool has by now.
HealthMarkFaulty(e) ==
    /\ check[e].pc \in {"ok", "bad"}
    /\ clients' = [clients EXCEPT ![e].healthy = check[e].pc = "ok"]
    /\ check' = [check EXCEPT ![e] = NoCheck]
    /\ UNCHANGED <<dbVars, bedrock, admin, dflt, listed, seen, load, tested,
                   bounds>>

\* A client that was replaced meanwhile takes its verdict with it.
HealthMark(e) ==
    /\ check[e].pc \in {"ok", "bad"}
    /\ clients' = IF check[e].live
                  THEN [clients EXCEPT ![e].healthy = check[e].pc = "ok"]
                  ELSE clients
    /\ check' = [check EXCEPT ![e] = NoCheck]
    /\ UNCHANGED <<dbVars, bedrock, admin, dflt, listed, seen, load, tested,
                   bounds>>

\* get_endpoint_models() takes the client that the pool has now, ...
AdminCheck(e) ==
    /\ clients[e].state # "absent"
    /\ changes < MaxChanges
    /\ changes' = changes + 1
    /\ tested' = [tested EXCEPT ![e] = @ + 1]
    /\ UNCHANGED <<dbVars, bedrock, admin, clients, dflt, listed, seen, load, check,
                   flips, faults>>

\* ... and marks it after a call of its own, which may find other than the
\* health loop: the listing alone, or nothing but the endpoint's own profile.  It
\* keeps no list.  What it does to a client that is gone makes no difference.
AdminMark(e) ==
    /\ tested[e] > 0
    /\ tested' = [tested EXCEPT ![e] = @ - 1]
    /\ \E ok \in BOOLEAN : clients' = [clients EXCEPT ![e].healthy = ok]
    /\ UNCHANGED <<dbVars, bedrock, admin, dflt, listed, seen, load, check, bounds>>

\* Credentials, permissions or the region fail or work again, or profiles come
\* and go.
Flip(e) ==
    /\ flips < MaxFlips
    /\ flips' = flips + 1
    /\ \E a \in Answers \ {bedrock[e]} : bedrock' = [bedrock EXCEPT ![e] = a]
    /\ UNCHANGED <<dbVars, admin, clients, dflt, listed, seen, load, checks,
                   changes, faults>>

-----------------------------------------------------------------------------

AdminRequest ==
    \/ \E here \in BOOLEAN :
          \/ \E e \in Endpoints :
                \/ CreateEndpoint(here, e)
                \/ \E s \in {"on", "off"} : UpdateEndpoint(here, e, s)
                \/ DeleteEndpoint(here, e)
                \/ SetDefaultEndpoint(here, e)
          \/ \E S \in Assignments : SetTeamEndpoints(here, S)
    \/ SetDefaultMissing
    \/ OtherBump

AdminStep == InsertAssignment \/ BumpVersion
LoadStep(w) == LoadList(w) \/ LoadKeep(w) \/ LoadSwap(w) \/ LoadDefault(w)
HealthStep == HealthTick \/ (\E e \in Endpoints : HealthCall(e) \/ HealthMark(e))
AdminMarks == \E e \in Endpoints : AdminMark(e)

PoolNext ==
    \/ AdminRequest
    \/ AdminStep
    \/ AdminFault
    \/ PollVersion
    \/ \E w \in {"poll", "admin"} : LoadStep(w) \/ LoadFault(w)
    \/ HealthStep
    \/ AdminMarks
    \/ \E e \in Endpoints : AdminCheck(e) \/ Flip(e)

Spec == Init /\ [][PoolNext]_poolVars

\* Handlers that have begun run on; the poller and the health loop are tokio
\* intervals.  The model assumes that every call they make returns.
PoolFairness ==
    /\ WF_poolVars(AdminStep)
    /\ WF_poolVars(PollVersion)
    /\ \A w \in {"poll", "admin"} : WF_poolVars(LoadStep(w))
    /\ WF_poolVars(HealthStep)
    /\ WF_poolVars(AdminMarks)

FairSpec == Spec /\ PoolFairness

-----------------------------------------------------------------------------
(* Properties *)

TypeOK ==
    /\ rows \in [Endpoints -> RowState]
    /\ isDefault \in Endpoints \cup {None}
    /\ assigned \subseteq Endpoints
    /\ version \in Nat
    /\ bedrock \in [Endpoints -> Answers]
    /\ admin \in Admin
    /\ clients \in [Endpoints -> Client]
    /\ dflt \in Endpoints \cup {None}
    /\ listed \subseteq Endpoints
    /\ seen \in 0..version
    /\ load \in [{"poll", "admin"} -> Load]
    /\ check \in [Endpoints -> Check]
    /\ tested \in [Endpoints -> Nat]
    /\ {changes, flips, faults} \subseteq Nat

\* The default a request without assignment can get.
DefaultClient == IF dflt # None /\ clients[dflt].state = "on" THEN dflt ELSE None
DefaultRow == IF isDefault # None /\ rows[isDefault] = "on" THEN isDefault ELSE None

AtRest == admin.pc = "idle" /\ \A w \in {"poll", "admin"} : load[w].pc = "idle"

\* As long as one administrator works at a time and nothing fails, a replica at
\* rest that has seen the newest version serves exactly the enabled endpoints
\* and the default of the table, however the two loads and their two locks
\* interleaved.
PoolCurrent ==
    faults = 0 /\ AtRest /\ seen = version =>
        /\ \A e \in Endpoints : clients[e].state = "on" <=> rows[e] = "on"
        /\ DefaultClient = DefaultRow

\* docs/endpoints.md, "Health Checks": once rows, Bedrock's answers and the checks
\* asked for by administrators have come to rest, every enabled endpoint has a
\* client that is healthy exactly if the loop's check of it passes, and has its
\* models listed if there are any, although loads throw verdicts and lists away,
\* the loop marks clients that are gone, and an administrator's check may have
\* found otherwise.
Recovers ==
    <>[](faults = 0 =>
            \A e \in Endpoints :
                rows[e] = "on" =>
                    /\ clients[e].state = "on"
                    /\ clients[e].healthy = (bedrock[e] # "down")
                    /\ bedrock[e] = "ok" => e \in listed)

\* Requests may rely on PoolView: in particular no client is ever marked that
\* is not in the pool, and every load starts all clients as unhealthy.
View == INSTANCE PoolView
    WITH on <- {e \in Endpoints : clients[e].state = "on"},
         off <- {e \in Endpoints : clients[e].state = "off"},
         healthy <- {e \in Endpoints : clients[e].healthy},
         Sound <- {}

ImplementsView == View!ViewSpec
=============================================================================
