------------------------------ MODULE PoolView ------------------------------
(***************************************************************************)
(* What a request can see of the endpoint pool (EndpointPool in            *)
(* src/src/endpoint/mod.rs), and how that may change between two awaits of *)
(* the request: the abstract specification that EndpointPool implements    *)
(* and that Routing is built on.                                           *)
(***************************************************************************)
CONSTANTS
    Endpoints,
    None,
    Sound    \* endpoints whose health checks pass at all times

ASSUME PoolViewAssumption == None \notin Endpoints /\ Sound \subseteq Endpoints

VARIABLES
    on,       \* endpoints with a client whose configuration is enabled
    off,      \* endpoints with a client whose configuration is disabled
    healthy,  \* clients marked healthy
    listed,   \* endpoints whose available_models have been filled
    dflt      \* default_endpoint_id

viewVars == <<on, off, healthy, listed, dflt>>

Loaded == on \cup off
Usable(e) == e \in on /\ e \in healthy

ViewInit ==
    /\ on \in SUBSET Endpoints
    /\ off = {}
    /\ healthy = {}
    /\ listed = {}
    /\ dflt \in on \cup {None}

\* A load swaps all clients at once: the new ones are unhealthy, and caches may
\* be lost but not filled.
Swap ==
    /\ on' \in SUBSET Endpoints
    /\ off' \in SUBSET (Endpoints \ on')
    /\ healthy' = {}
    /\ listed' \in SUBSET listed
    /\ UNCHANGED dflt

\* The default changes apart from the clients.
SetDefault ==
    /\ dflt' \in Endpoints \cup {None}
    /\ UNCHANGED <<on, off, healthy, listed>>

List(e) ==
    /\ listed' = listed \cup {e}
    /\ UNCHANGED <<on, off, healthy, dflt>>

Mark(e) ==
    /\ e \in Loaded
    /\ e \in healthy => e \notin Sound
    /\ healthy' = IF e \in healthy THEN healthy \ {e} ELSE healthy \cup {e}
    /\ UNCHANGED <<on, off, listed, dflt>>

ViewNext == Swap \/ SetDefault \/ \E e \in Endpoints : List(e) \/ Mark(e)

ViewSpec == ViewInit /\ [][ViewNext]_viewVars
=============================================================================
