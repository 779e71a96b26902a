------------------------- MODULE EndpointPoolProofs -------------------------
(***************************************************************************)
(* Proofs about EndpointPool, for every set of endpoints and assignments   *)
(* and all bounds: its types, that it implements PoolView, and that the    *)
(* pool agrees with the table when nothing is left to load.                *)
(***************************************************************************)
EXTENDS EndpointPool, TLAPS

Workers == {"poll", "admin"}

LEMMA InitType == ASSUME PoolAssumption PROVE Init => TypeOK
  <1> SUFFICES ASSUME Init PROVE TypeOK
    OBVIOUS
  <1>1. rows \in [Endpoints -> RowState] /\ assigned \subseteq Endpoints
    BY DEF Init, PoolAssumption, RowState
  <1>2. admin \in Admin /\ load \in [Workers -> Load] /\ check \in [Endpoints -> Check]
    BY DEF Init, Admin, NoAdmin, Workers, Load, NoLoad, RowState, Check, NoCheck
  <1>3. clients \in [Endpoints -> Client]
    BY DEF Init, Client, NoClient, RowState
  <1>4. tested \in [Endpoints -> Nat] /\ bedrock \in [Endpoints -> Answers]
    BY DEF Init
  <1> QED BY <1>1, <1>2, <1>3, <1>4 DEF Init, TypeOK, Workers

LEMMA AdminFields ==
    /\ NoAdmin \in Admin
    /\ \A here \in BOOLEAN, all \in BOOLEAN : ToBump(here, all) \in Admin
    /\ \A here \in BOOLEAN, S \in SUBSET Endpoints :
          [pc |-> "insert", here |-> here, all |-> TRUE, rest |-> S] \in Admin
  BY DEF Admin, NoAdmin, ToBump

LEMMA LoadFields ==
    /\ NoLoad \in Load
    /\ \A all \in BOOLEAN : [NoLoad EXCEPT !.pc = "list", !.all = all] \in Load
    /\ [NoLoad EXCEPT !.pc = "list"] \in Load
  BY DEF Load, NoLoad, RowState

\* A handler that begins leaves the types of all but the rows to itself.
LEMMA BeginType ==
    ASSUME TypeOK, NEW next \in Admin, Begin(next),
           rows' \in [Endpoints -> RowState], isDefault' \in Endpoints \cup {None},
           assigned' \subseteq Endpoints
    PROVE  TypeOK'
  BY DEF Begin, TypeOK, checks

LEMMA AdminType ==
    ASSUME PoolAssumption, TypeOK, AdminRequest PROVE TypeOK'
  <1>0. ASSUME NEW here \in BOOLEAN
        PROVE  ToBump(here, TRUE) \in Admin /\ ToBump(here, FALSE) \in Admin
    BY DEF ToBump, NoAdmin, Admin
  <1>1. ASSUME NEW here \in BOOLEAN, NEW e \in Endpoints, CreateEndpoint(here, e)
        PROVE  TypeOK'
    <2>1. /\ rows' \in [Endpoints -> RowState] /\ isDefault' \in Endpoints \cup {None}
          /\ assigned' \subseteq Endpoints
      BY <1>1 DEF CreateEndpoint, TypeOK, RowState
    <2>2. Begin(ToBump(here, FALSE))
      BY <1>1 DEF CreateEndpoint
    <2> QED BY <1>0, <2>1, <2>2, BeginType
  <1>2. ASSUME NEW here \in BOOLEAN, NEW e \in Endpoints, NEW s \in {"on", "off"},
               UpdateEndpoint(here, e, s)
        PROVE  TypeOK'
    <2>1. /\ rows' \in [Endpoints -> RowState] /\ isDefault' \in Endpoints \cup {None}
          /\ assigned' \subseteq Endpoints
      BY <1>2 DEF UpdateEndpoint, TypeOK, RowState
    <2>2. Begin(ToBump(here, FALSE))
      BY <1>2 DEF UpdateEndpoint
    <2> QED BY <1>0, <2>1, <2>2, BeginType
  <1>3. ASSUME NEW here \in BOOLEAN, NEW e \in Endpoints, DeleteEndpoint(here, e)
        PROVE  TypeOK'
    <2>1. /\ rows' \in [Endpoints -> RowState] /\ isDefault' \in Endpoints \cup {None}
          /\ assigned' \subseteq Endpoints
      BY <1>3 DEF DeleteEndpoint, TypeOK, RowState
    <2>2. Begin(ToBump(here, FALSE))
      BY <1>3 DEF DeleteEndpoint
    <2> QED BY <1>0, <2>1, <2>2, BeginType
  <1>4. ASSUME NEW here \in BOOLEAN, NEW e \in Endpoints, SetDefaultEndpoint(here, e)
        PROVE  TypeOK'
    <2>1. /\ rows' \in [Endpoints -> RowState] /\ isDefault' \in Endpoints \cup {None}
          /\ assigned' \subseteq Endpoints
      BY <1>4 DEF SetDefaultEndpoint, TypeOK, RowState
    <2>2. Begin(ToBump(here, TRUE))
      BY <1>4 DEF SetDefaultEndpoint
    <2> QED BY <1>0, <2>1, <2>2, BeginType
  <1>5. ASSUME NEW here \in BOOLEAN, NEW S \in Assignments, SetTeamEndpoints(here, S)
        PROVE  TypeOK'
    BY <1>5, AdminFields DEF SetTeamEndpoints, Begin, TypeOK, PoolAssumption, checks
  <1>6. CASE SetDefaultMissing
    BY <1>6 DEF SetDefaultMissing, TypeOK, checks
  <1>7. CASE OtherBump
    BY <1>7 DEF OtherBump, TypeOK, checks
  <1> QED BY <1>1, <1>2, <1>3, <1>4, <1>5, <1>6, <1>7 DEF AdminRequest

LEMMA AdminStepType ==
    ASSUME TypeOK, AdminStep \/ AdminFault PROVE TypeOK'
  <1>1. CASE InsertAssignment
    <2>1. CASE admin' = ToBump(admin.here, admin.all) /\ UNCHANGED assigned
      BY <1>1, <2>1, AdminFields DEF InsertAssignment, TypeOK, dbVars, bounds, Admin, checks
    <2>2. CASE \E e \in admin.rest :
                 /\ admin' = IF Present(e) THEN [admin EXCEPT !.rest = @ \ {e}] ELSE NoAdmin
                 /\ assigned' = IF Present(e) THEN assigned \cup {e} ELSE assigned
      <3>1. admin' \in Admin
        BY <2>2, AdminFields DEF Admin, TypeOK
      <3>2. assigned' \subseteq Endpoints
        BY <2>2 DEF Admin, TypeOK
      <3> QED BY <1>1, <3>1, <3>2 DEF InsertAssignment, TypeOK, bounds, checks
    <2> QED BY <1>1, <2>1, <2>2 DEF InsertAssignment
  <1>2. CASE BumpVersion
    <2>1. admin' \in Admin
      BY <1>2, AdminFields DEF BumpVersion, TypeOK, Admin
    <2>2. load' \in [Workers -> Load]
      BY <1>2, LoadFields DEF BumpVersion, TypeOK, Admin, Workers
    <2> QED BY <1>2, <2>1, <2>2 DEF BumpVersion, TypeOK, bounds, Workers, checks
  <1>3. CASE AdminFault
    BY <1>3, AdminFields DEF AdminFault, TypeOK, dbVars, checks
  <1> QED BY <1>1, <1>2, <1>3 DEF AdminStep

LEMMA LoadType ==
    ASSUME TypeOK, NEW w \in Workers, LoadStep(w) \/ LoadFault(w) PROVE TypeOK'
  <1>0. load[w] \in Load /\ AfterLoad(w) \in Admin
    BY AdminFields DEF TypeOK, Workers, AfterLoad
  <1>1. CASE LoadList(w)
    <2>1. \A e \in Endpoints : ListedRow(w, e) \in RowState
      BY DEF ListedRow, TypeOK, RowState
    <2>2. load' \in [Workers -> Load]
      <3> DEFINE new == [load[w] EXCEPT !.pc = "keep",
                    !.view = [e \in Endpoints |-> ListedRow(w, e)],
                    !.dflt = IF isDefault # None /\ ListedRow(w, isDefault) # "absent"
                             THEN isDefault ELSE None]
      <3>1. new \in Load
        BY <1>0, <2>1 DEF Load, TypeOK
      <3>2. load' = [load EXCEPT ![w] = new]
        BY <1>1 DEF LoadList
      <3> HIDE DEF new
      <3> QED BY <3>1, <3>2 DEF TypeOK, Workers
    <2> QED BY <1>1, <2>2 DEF LoadList, TypeOK, dbVars, bounds, Workers, checks
  <1>2. CASE LoadKeep(w)
    <2>1. load' \in [Workers -> Load]
      BY <1>0, <1>2 DEF LoadKeep, Load, TypeOK, Workers
    <2> QED BY <1>2, <2>1 DEF LoadKeep, TypeOK, dbVars, bounds, Workers, checks
  <1>3. CASE LoadSwap(w)
    <2>1. load' \in [Workers -> Load]
      BY <1>0, <1>3 DEF LoadSwap, Load, TypeOK, Workers
    <2>2. clients' \in [Endpoints -> Client]
      BY <1>0, <1>3 DEF LoadSwap, Load, NoClient, Client, RowState
    <2>3. check' \in [Endpoints -> Check]
      BY <1>3 DEF LoadSwap, Check, TypeOK
    <2>4. tested' \in [Endpoints -> Nat]
      BY <1>3 DEF LoadSwap
    <2> QED BY <1>3, <2>1, <2>2, <2>3, <2>4 DEF LoadSwap, TypeOK, dbVars, bounds, Workers
  <1>4. CASE LoadDefault(w)
    <2>1. load' \in [Workers -> Load] /\ dflt' \in Endpoints \cup {None}
      BY <1>0, <1>4, LoadFields DEF LoadDefault, Load, TypeOK, Workers
    <2> QED BY <1>0, <1>4, <2>1 DEF LoadDefault, TypeOK, dbVars, bounds, Workers, checks
  <1>5. CASE LoadFault(w)
    <2>1. load' \in [Workers -> Load]
      BY <1>5, LoadFields DEF LoadFault, TypeOK, Workers
    <2> QED BY <1>0, <1>5, <2>1 DEF LoadFault, TypeOK, dbVars, Workers, checks
  <1> QED BY <1>1, <1>2, <1>3, <1>4, <1>5 DEF LoadStep

LEMMA HealthType ==
    ASSUME TypeOK, HealthStep \/ AdminMarks \/ \E e \in Endpoints : AdminCheck(e) \/ Flip(e)
    PROVE  TypeOK'
  <1>1. CASE HealthTick
    BY <1>1 DEF HealthTick, TypeOK, Check, NoCheck, dbVars, bounds
  <1>2. ASSUME NEW e \in Endpoints, HealthCall(e) PROVE TypeOK'
    <2>1. check' \in [Endpoints -> Check]
      BY <1>2 DEF HealthCall, TypeOK, Check
    <2>2. listed' \subseteq Endpoints
      BY <1>2 DEF HealthCall, TypeOK
    <2> QED BY <1>2, <2>1, <2>2 DEF HealthCall, TypeOK, dbVars, bounds
  <1>3. ASSUME NEW e \in Endpoints, HealthMark(e) PROVE TypeOK'
    <2>1. check' \in [Endpoints -> Check]
      BY <1>3 DEF HealthMark, TypeOK, Check, NoCheck
    <2>2. clients' \in [Endpoints -> Client]
      <3> DEFINE h == check[e].pc = "ok"
      <3>1. h \in BOOLEAN
        OBVIOUS
      <3>2. clients' = IF check[e].live THEN [clients EXCEPT ![e].healthy = h] ELSE clients
        BY <1>3 DEF HealthMark
      <3> HIDE DEF h
      <3> QED BY <3>1, <3>2 DEF TypeOK, Client
    <2> QED BY <1>3, <2>1, <2>2 DEF HealthMark, TypeOK, dbVars, bounds
  <1>4. ASSUME NEW e \in Endpoints, AdminMark(e) PROVE TypeOK'
    <2>1. PICK h \in BOOLEAN : clients' = [clients EXCEPT ![e].healthy = h]
      BY <1>4 DEF AdminMark
    <2>2. clients' \in [Endpoints -> Client]
      BY <2>1 DEF TypeOK, Client
    <2>3. tested' \in [Endpoints -> Nat]
      BY <1>4 DEF AdminMark, TypeOK
    <2> QED BY <1>4, <2>2, <2>3 DEF AdminMark, TypeOK, dbVars, bounds
  <1>5. ASSUME NEW e \in Endpoints, AdminCheck(e) PROVE TypeOK'
    BY <1>5 DEF AdminCheck, TypeOK, dbVars
  <1>6. ASSUME NEW e \in Endpoints, Flip(e) PROVE TypeOK'
    <2>1. bedrock' \in [Endpoints -> Answers]
      BY <1>6 DEF Flip, TypeOK
    <2> QED BY <1>6, <2>1 DEF Flip, TypeOK, dbVars, checks
  <1> QED BY <1>1, <1>2, <1>3, <1>4, <1>5, <1>6 DEF HealthStep, AdminMarks

LEMMA TypeStep ==
    ASSUME PoolAssumption PROVE TypeOK /\ [PoolNext]_poolVars => TypeOK'
  <1> SUFFICES ASSUME TypeOK, [PoolNext]_poolVars PROVE TypeOK'
    OBVIOUS
  <1>1. CASE PollVersion
    <2>1. load' \in [Workers -> Load]
      BY <1>1, LoadFields DEF PollVersion, TypeOK, Workers
    <2> QED BY <1>1, <2>1 DEF PollVersion, TypeOK, dbVars, bounds, Workers, checks
  <1>2. CASE UNCHANGED poolVars
    BY <1>2 DEF poolVars, TypeOK, dbVars, bounds, checks
  <1> QED BY <1>1, <1>2, AdminType, AdminStepType, LoadType, HealthType
          DEF PoolNext, AdminStep, Workers

\* Every variable keeps its type, and no replica has seen a version that the
\* database has not reached.
THEOREM TypeCorrect == Spec => []TypeOK
  <1>1. Init => TypeOK
    BY InitType, PoolAssumption
  <1>2. TypeOK /\ [PoolNext]_poolVars => TypeOK'
    BY TypeStep, PoolAssumption
  <1> QED BY <1>1, <1>2, PTL DEF Spec

-----------------------------------------------------------------------------

\* A verdict on a client that was not replaced finds it: the health loop's, and
\* those that administrators asked for.
LiveInv ==
    \A e \in Endpoints : check[e].live \/ tested[e] > 0 => clients[e].state # "absent"

LEMMA LiveInit == Init => LiveInv
  BY DEF Init, LiveInv, NoCheck

LEMMA LiveStep == TypeOK /\ LiveInv /\ [PoolNext]_poolVars => LiveInv'
  <1> SUFFICES ASSUME TypeOK, LiveInv, [PoolNext]_poolVars PROVE LiveInv'
    OBVIOUS
  <1>1. CASE UNCHANGED <<check, tested, clients>>
    BY <1>1 DEF LiveInv
  <1>2. ASSUME NEW w \in Workers, LoadSwap(w) PROVE LiveInv'
    <2>1. \A e \in Endpoints : ~check'[e].live /\ tested'[e] = 0
      BY <1>2 DEF LoadSwap, TypeOK, Check
    <2> QED BY <2>1 DEF LiveInv
  <1>3. CASE HealthTick
    BY <1>3 DEF HealthTick, LiveInv, NoCheck
  <1>4. ASSUME NEW e \in Endpoints, HealthCall(e) PROVE LiveInv'
    BY <1>4 DEF HealthCall, LiveInv, TypeOK, Check
  <1>5. ASSUME NEW e \in Endpoints, HealthMark(e) PROVE LiveInv'
    BY <1>5 DEF HealthMark, LiveInv, TypeOK, Check, NoCheck, Client
  <1>6. ASSUME NEW e \in Endpoints, AdminCheck(e) \/ AdminMark(e) PROVE LiveInv'
    <2>1. \A f \in Endpoints : clients'[f].state = clients[f].state
      BY <1>6 DEF AdminCheck, AdminMark, TypeOK, Client
    <2>2. \A f \in Endpoints : tested'[f] > 0 => tested[f] > 0 \/ clients[f].state # "absent"
      BY <1>6 DEF AdminCheck, AdminMark, TypeOK
    <2> QED BY <1>6, <2>1, <2>2 DEF AdminCheck, AdminMark, LiveInv
  <1>7. CASE AdminRequest \/ AdminStep \/ AdminFault
    BY <1>1, <1>7 DEF AdminRequest, CreateEndpoint, UpdateEndpoint, DeleteEndpoint,
       SetDefaultEndpoint, SetTeamEndpoints, SetDefaultMissing, OtherBump, Begin,
       AdminStep, InsertAssignment, BumpVersion, AdminFault, checks
  <1>8. ASSUME NEW w \in Workers, LoadList(w) \/ LoadKeep(w) \/ LoadDefault(w) \/ LoadFault(w)
        PROVE  LiveInv'
    BY <1>1, <1>8 DEF LoadList, LoadKeep, LoadDefault, LoadFault, checks
  <1>9. CASE PollVersion \/ UNCHANGED poolVars \/ \E e \in Endpoints : Flip(e)
    BY <1>1, <1>9 DEF PollVersion, poolVars, Flip, checks
  <1> QED BY <1>2, <1>3, <1>4, <1>5, <1>6, <1>7, <1>8, <1>9
          DEF PoolNext, LoadStep, HealthStep, AdminMarks, Workers

-----------------------------------------------------------------------------

InView(S) == {e \in Endpoints : clients[e].state = S}

LEMMA ViewInitially == TypeOK /\ Init => View!ViewInit
  <1> SUFFICES ASSUME TypeOK, Init PROVE View!ViewInit
    OBVIOUS
  <1>1. \A e \in Endpoints : clients[e].state \in {"on", "absent"} /\ ~clients[e].healthy
    BY DEF Init, NoClient
  <1>2. dflt # None => dflt \in Endpoints /\ clients[dflt].state = "on"
    BY DEF Init, TypeOK
  <1> QED BY <1>1, <1>2 DEF Init, View!ViewInit

\* A step that changes neither clients nor caches nor default is no step of
\* the view.
LEMMA ViewStutter ==
    UNCHANGED <<clients, listed, dflt>> => UNCHANGED View!viewVars
  BY DEF View!viewVars

LEMMA ViewMark ==
    ASSUME TypeOK, NEW e \in Endpoints, NEW h \in BOOLEAN, clients[e].state # "absent",
           clients' = [clients EXCEPT ![e].healthy = h], UNCHANGED <<listed, dflt>>
    PROVE  View!ViewNext \/ UNCHANGED View!viewVars
  <1>1. clients[e] \in Client
    BY DEF TypeOK
  <1>2. \A f \in Endpoints : clients'[f].state = clients[f].state
    BY DEF TypeOK, Client
  <1>3. \A f \in Endpoints : f # e => clients'[f].healthy = clients[f].healthy
    BY DEF TypeOK
  <1>4. clients'[e].healthy = h
    BY DEF TypeOK, Client
  <1>5. CASE h = clients[e].healthy
    BY <1>2, <1>3, <1>4, <1>5 DEF View!viewVars
  <1>6. CASE h # clients[e].healthy
    <2>1. View!Mark(e)
      BY <1>1, <1>2, <1>3, <1>4, <1>6 DEF View!Mark, View!Loaded, Client, RowState
    <2> QED BY <2>1 DEF View!ViewNext
  <1> QED BY <1>5, <1>6

LEMMA ViewStep ==
    TypeOK /\ TypeOK' /\ LiveInv /\ [PoolNext]_poolVars => [View!ViewNext]_(View!viewVars)
  <1> SUFFICES ASSUME TypeOK, TypeOK', LiveInv, [PoolNext]_poolVars
               PROVE  View!ViewNext \/ UNCHANGED View!viewVars
    OBVIOUS
  <1>1. ASSUME NEW w \in Workers, LoadSwap(w) PROVE View!ViewNext
    <2>1. \A e \in Endpoints : ~clients'[e].healthy
      BY <1>1 DEF LoadSwap, NoClient
    <2>2. View!Swap
      BY <1>1, <2>1 DEF LoadSwap, View!Swap
    <2> QED BY <2>2 DEF View!ViewNext
  <1>2. ASSUME NEW w \in Workers, LoadDefault(w) PROVE View!ViewNext
    BY <1>2 DEF LoadDefault, View!ViewNext, View!SetDefault, TypeOK
  <1>3. ASSUME NEW e \in Endpoints, HealthCall(e)
        PROVE  View!ViewNext \/ UNCHANGED View!viewVars
    BY <1>3 DEF HealthCall, View!ViewNext, View!List, View!viewVars
  <1>4. ASSUME NEW e \in Endpoints, HealthMark(e)
        PROVE  View!ViewNext \/ UNCHANGED View!viewVars
    <2>1. CASE check[e].live
      <3>1. (check[e].pc = "ok") \in BOOLEAN
        OBVIOUS
      <3>2. clients[e].state # "absent"
        BY <2>1 DEF LiveInv
      <3> QED BY <1>4, <2>1, <3>1, <3>2, ViewMark DEF HealthMark
    <2>2. CASE ~check[e].live
      BY <1>4, <2>2, ViewStutter DEF HealthMark
    <2> QED BY <2>1, <2>2
  <1>5. ASSUME NEW e \in Endpoints, AdminMark(e)
        PROVE  View!ViewNext \/ UNCHANGED View!viewVars
    <2>1. PICK h \in BOOLEAN : clients' = [clients EXCEPT ![e].healthy = h]
      BY <1>5 DEF AdminMark
    <2>2. clients[e].state # "absent"
      BY <1>5 DEF AdminMark, LiveInv
    <2> QED BY <1>5, <2>1, <2>2, ViewMark DEF AdminMark
  <1>6. CASE AdminRequest \/ AdminStep \/ AdminFault
    BY <1>6, ViewStutter DEF AdminRequest, CreateEndpoint, UpdateEndpoint,
       DeleteEndpoint, SetDefaultEndpoint, SetTeamEndpoints, SetDefaultMissing,
       OtherBump, Begin, AdminStep, InsertAssignment, BumpVersion, AdminFault
  <1>7. ASSUME NEW w \in Workers, LoadList(w) \/ LoadKeep(w) \/ LoadFault(w)
        PROVE  UNCHANGED View!viewVars
    BY <1>7, ViewStutter DEF LoadList, LoadKeep, LoadFault
  <1>8. CASE \/ PollVersion \/ HealthTick \/ UNCHANGED poolVars
             \/ \E e \in Endpoints : AdminCheck(e) \/ Flip(e)
    BY <1>8, ViewStutter DEF PollVersion, HealthTick, poolVars, AdminCheck, Flip
  <1> QED BY <1>1, <1>2, <1>3, <1>4, <1>5, <1>6, <1>7, <1>8
          DEF PoolNext, LoadStep, HealthStep, AdminMarks, Workers

\* Whatever administrators, pollers, the health loop and outages do, in any
\* order, requests see no more of it than PoolView says.
THEOREM PoolImplementsView == Spec => ImplementsView
  <1>1. TypeOK /\ Init => View!ViewInit
    BY ViewInitially
  <1>2. TypeOK /\ TypeOK' /\ LiveInv /\ [PoolNext]_poolVars => [View!ViewNext]_(View!viewVars)
    BY ViewStep
  <1> QED BY <1>1, <1>2, TypeCorrect, LiveInit, LiveStep, PTL
          DEF Spec, ImplementsView, View!ViewSpec

-----------------------------------------------------------------------------
(* The pool and the table *)

Loading(w) == load[w].pc \in {"list", "keep", "swap"}
HasListed(w) == load[w].pc \in {"keep", "swap", "default"}
UpToDate == seen = version /\ admin.pc # "bump"

\* The endpoint that the table would let d stand for
Effective(d) == IF d # None /\ rows[d] = "on" THEN d ELSE None

ListCurrent(w) ==
    /\ \A e \in Endpoints : load[w].view[e] = "on" <=> rows[e] = "on"
    /\ Effective(load[w].dflt) = DefaultRow

ClientsCurrent == \A e \in Endpoints : clients[e].state = "on" <=> rows[e] = "on"

\* Rows do not change under a handler's load, and a load of the poller that
\* they have changed under is followed by another, as a version that has not
\* been seen is there or to come.  What is not current will be swapped.
CurrentInv ==
    /\ load["admin"].pc # "idle" => admin.pc = "load"
    /\ faults = 0 =>
          /\ HasListed("admin") => ListCurrent("admin")
          /\ UpToDate /\ HasListed("poll") => ListCurrent("poll")
          /\ UpToDate => Loading("poll") \/ Loading("admin") \/ ClientsCurrent
          /\ UpToDate => \/ load["poll"].pc # "idle" \/ load["admin"].pc # "idle"
                         \/ Effective(dflt) = DefaultRow

LEMMA CurrentInit == ASSUME PoolAssumption PROVE Init => CurrentInv
  <1> SUFFICES ASSUME Init PROVE CurrentInv
    OBVIOUS
  <1>1. \A w \in Workers : load[w].pc = "idle"
    BY DEF Init, NoLoad, Workers
  <1>2. ClientsCurrent
    BY DEF Init, NoClient, ClientsCurrent
  <1>3. Effective(dflt) = DefaultRow
    BY DEF Init, Effective, DefaultRow
  <1> QED BY <1>1, <1>2, <1>3 DEF CurrentInv, HasListed, Workers

\* Neither the tables nor the loads nor what they have swapped changes.
LEMMA CurrentStill ==
    ASSUME CurrentInv, UNCHANGED <<rows, isDefault, load, dflt>>,
           \A e \in Endpoints : clients'[e].state = clients[e].state,
           UpToDate' => UpToDate, faults' = 0 => faults = 0,
           load["admin"].pc # "idle" => admin'.pc = "load"
    PROVE  CurrentInv'
  BY DEF CurrentInv, HasListed, Loading, ListCurrent, Effective, DefaultRow, ClientsCurrent

\* Something has failed, or a handler has changed a row.
LEMMA CurrentVoid ==
    ASSUME CurrentInv, load["admin"].pc = "idle" \/ admin'.pc = "load",
           UNCHANGED load["admin"],
           faults' # 0 \/ (~UpToDate' /\ load["admin"].pc = "idle")
    PROVE  CurrentInv'
  BY DEF CurrentInv, HasListed

LEMMA CurrentRequest ==
    ASSUME TypeOK, CurrentInv, AdminRequest PROVE CurrentInv'
  <1>1. ASSUME NEW here \in BOOLEAN, NEW all \in BOOLEAN, Begin(ToBump(here, all))
        PROVE  CurrentInv'
    <2>1. admin.pc = "idle" /\ admin'.pc = "bump" /\ UNCHANGED load
      BY <1>1 DEF Begin, ToBump, NoAdmin
    <2> QED BY <2>1, CurrentVoid DEF CurrentInv, UpToDate
  <1>2. ASSUME NEW here \in BOOLEAN, NEW S \in Assignments, SetTeamEndpoints(here, S)
        PROVE  CurrentInv'
    <2>1. /\ admin.pc = "idle" /\ admin'.pc = "insert"
          /\ UNCHANGED <<rows, isDefault, load, dflt, clients, seen, version, faults>>
      BY <1>2 DEF SetTeamEndpoints, Begin
    <2> QED BY <2>1, CurrentStill DEF CurrentInv, UpToDate
  <1>3. CASE SetDefaultMissing
    <2>1. faults' # 0 /\ UNCHANGED <<load, admin>>
      BY <1>3 DEF SetDefaultMissing, TypeOK
    <2> QED BY <2>1, CurrentVoid DEF CurrentInv
  <1>4. CASE OtherBump
    <2>1. /\ UNCHANGED <<rows, isDefault, load, dflt, clients, admin, faults>>
          /\ seen' # version'
      BY <1>4 DEF OtherBump, TypeOK
    <2> QED BY <2>1, CurrentStill DEF CurrentInv, UpToDate
  <1> QED
    BY <1>1, <1>2, <1>3, <1>4
       DEF AdminRequest, CreateEndpoint, UpdateEndpoint, DeleteEndpoint, SetDefaultEndpoint

LEMMA CurrentAdmin ==
    ASSUME TypeOK, CurrentInv, AdminStep \/ AdminFault PROVE CurrentInv'
  <1>1. CASE InsertAssignment
    <2>1. /\ UNCHANGED <<rows, isDefault, load, dflt, clients, seen, version, faults>>
          /\ admin.pc = "insert"
      BY <1>1 DEF InsertAssignment, bounds
    <2> QED BY <2>1, CurrentStill DEF CurrentInv, UpToDate
  <1>2. CASE BumpVersion
    <2>1. /\ UNCHANGED <<rows, isDefault, faults>> /\ admin.pc = "bump"
          /\ load["admin"].pc = "idle" /\ seen' # version'
      BY <1>2 DEF BumpVersion, CurrentInv, TypeOK, bounds
    <2>2. CASE admin.here
      <3>1. admin'.pc = "load"
        BY <1>2, <2>2 DEF BumpVersion, TypeOK, Admin
      <3>2. PICK a \in BOOLEAN : a = admin.all
        BY DEF TypeOK, Admin
      <3>3. load' = [load EXCEPT !["admin"] = [NoLoad EXCEPT !.pc = "list", !.all = a]]
        BY <1>2, <2>2, <3>2 DEF BumpVersion
      <3>4. load'["admin"].pc = "list"
        BY <3>3 DEF TypeOK, NoLoad
      <3> QED BY <2>1, <3>1, <3>4 DEF CurrentInv, UpToDate, HasListed
    <2>3. CASE ~admin.here
      <3>1. UNCHANGED load
        BY <1>2, <2>3 DEF BumpVersion
      <3> QED BY <2>1, <3>1 DEF CurrentInv, UpToDate, HasListed
    <2> QED BY <2>2, <2>3
  <1>3. CASE AdminFault
    <2>1. faults' # 0 /\ UNCHANGED load /\ load["admin"].pc = "idle"
      BY <1>3 DEF AdminFault, TypeOK, CurrentInv
    <2> QED BY <2>1, CurrentVoid
  <1> QED BY <1>1, <1>2, <1>3 DEF AdminStep

LEMMA CurrentPool ==
    ASSUME TypeOK, CurrentInv,
           \/ HealthStep
           \/ AdminMarks
           \/ \E e \in Endpoints : AdminCheck(e) \/ Flip(e)
           \/ UNCHANGED poolVars
    PROVE  CurrentInv'
  <1>1. UNCHANGED <<rows, isDefault, load, dflt, seen, version, admin, faults>>
    BY DEF HealthStep, HealthTick, HealthCall, HealthMark, AdminMarks, AdminMark,
           AdminCheck, Flip, poolVars, dbVars,
           bounds
  <1>2. \A e \in Endpoints : clients'[e].state = clients[e].state
    <2>1. ASSUME NEW f \in Endpoints, AdminMark(f)
          PROVE  \A e \in Endpoints : clients'[e].state = clients[e].state
      BY <2>1 DEF AdminMark, TypeOK, Client
    <2> QED BY <2>1 DEF HealthStep, HealthTick, HealthCall, HealthMark, AdminMarks,
                        AdminCheck, Flip, poolVars, TypeOK, Client
  <1> QED BY <1>1, <1>2, CurrentStill DEF CurrentInv, UpToDate

LEMMA CurrentLoad ==
    ASSUME PoolAssumption, TypeOK, CurrentInv, NEW w \in Workers,
           LoadStep(w) \/ LoadFault(w)
    PROVE  CurrentInv'
  <1> DEFINE o == CHOOSE v \in Workers : v # w
  <1>0. o \in Workers /\ o # w /\ Workers = {w, o}
    BY DEF Workers
  <1> HIDE DEF o
  <1>1. UNCHANGED <<rows, isDefault, seen, version>> /\ load'[o] = load[o]
        /\ load[w] \in Load
    BY <1>0 DEF LoadStep, LoadList, LoadKeep, LoadSwap, LoadDefault, LoadFault, TypeOK, dbVars,
                Workers
  <1>2. CASE LoadList(w)
    <2>1. /\ UNCHANGED <<admin, dflt, clients, faults>>
          /\ load[w].pc = "list" /\ load'[w].pc = "keep"
          /\ load'[w].view = [e \in Endpoints |-> ListedRow(w, e)]
          /\ load'[w].dflt = IF isDefault # None /\ ListedRow(w, isDefault) # "absent"
                             THEN isDefault ELSE None
      BY <1>1, <1>2 DEF LoadList, TypeOK, Load, bounds, Workers
    <2>2. ListCurrent(w)'
      BY <1>1, <2>1, PoolAssumption DEF ListCurrent, ListedRow, Effective, DefaultRow, TypeOK
    <2>3. ListCurrent(o)' = ListCurrent(o)
      BY <1>1 DEF ListCurrent, Effective, DefaultRow
    <2> QED
      BY <1>0, <1>1, <2>1, <2>2, <2>3
         DEF CurrentInv, HasListed, Loading, UpToDate, ClientsCurrent, Effective, DefaultRow,
             Workers
  <1>3. CASE LoadKeep(w)
    <2>1. /\ UNCHANGED <<admin, dflt, clients, faults>>
          /\ load[w].pc = "keep" /\ load'[w].pc = "swap"
          /\ load'[w].view = load[w].view /\ load'[w].dflt = load[w].dflt
      BY <1>1, <1>3 DEF LoadKeep, TypeOK, Load, bounds, Workers
    <2>2. \A v \in Workers : ListCurrent(v)' = ListCurrent(v)
      BY <1>0, <1>1, <2>1 DEF ListCurrent, Effective, DefaultRow
    <2> QED
      BY <1>0, <1>1, <2>1, <2>2
         DEF CurrentInv, HasListed, Loading, UpToDate, ClientsCurrent, Effective, DefaultRow,
             Workers
  <1>4. CASE LoadSwap(w)
    <2>1. /\ UNCHANGED <<admin, dflt, faults>>
          /\ load[w].pc = "swap" /\ load'[w].pc = "default"
          /\ load'[w].view = load[w].view /\ load'[w].dflt = load[w].dflt
      BY <1>1, <1>4 DEF LoadSwap, TypeOK, Load, bounds, Workers
    <2>2. \A v \in Workers : ListCurrent(v)' = ListCurrent(v)
      BY <1>0, <1>1, <2>1 DEF ListCurrent, Effective, DefaultRow
    <2>3. \A e \in Endpoints : clients'[e].state = load[w].view[e]
      BY <1>4 DEF LoadSwap, NoClient
    <2>4. ListCurrent(w) => ClientsCurrent'
      BY <1>1, <2>3 DEF ListCurrent, ClientsCurrent
    <2> QED
      BY <1>0, <1>1, <2>1, <2>2, <2>4
         DEF CurrentInv, HasListed, Loading, UpToDate, Effective, DefaultRow, Workers
  <1>5. CASE LoadDefault(w)
    <2>1. /\ UNCHANGED <<clients, faults>> /\ dflt' = load[w].dflt
          /\ load[w].pc = "default" /\ load'[w].pc = "idle"
          /\ admin' = AfterLoad(w)
      BY <1>1, <1>5 DEF LoadDefault, TypeOK, NoLoad, bounds, Workers
    <2>2. ListCurrent(o)' = ListCurrent(o)
      BY <1>1 DEF ListCurrent, Effective, DefaultRow
    <2>3. ListCurrent(w) => Effective(dflt)' = DefaultRow'
      BY <1>1, <2>1 DEF ListCurrent, Effective, DefaultRow
    <2>4. UpToDate' => UpToDate
      <3>1. w = "admin" => admin.pc = "load"
        BY <2>1 DEF CurrentInv
      <3> QED BY <1>1, <2>1, <3>1 DEF UpToDate, AfterLoad
    <2>5. load'["admin"].pc # "idle" => w # "admin" /\ UNCHANGED admin
      BY <2>1 DEF AfterLoad
    <2>6. load'["admin"].pc # "idle" => admin'.pc = "load"
      BY <1>0, <1>1, <2>5 DEF CurrentInv, Workers
    <2> QED
      BY <1>0, <1>1, <2>1, <2>2, <2>3, <2>4, <2>6
         DEF CurrentInv, HasListed, Loading, ClientsCurrent, Workers
  <1>6. CASE LoadFault(w)
    <2>1. /\ faults' # 0 /\ load'[w].pc = "idle" /\ admin' = AfterLoad(w)
      BY <1>6 DEF LoadFault, TypeOK, NoLoad, Workers
    <2> QED
      BY <1>0, <1>1, <2>1 DEF CurrentInv, AfterLoad, Workers
  <1> QED BY <1>2, <1>3, <1>4, <1>5, <1>6 DEF LoadStep

LEMMA CurrentPoll ==
    ASSUME TypeOK, CurrentInv, PollVersion PROVE CurrentInv'
  <1>1. /\ UNCHANGED <<rows, isDefault, version, admin, dflt, clients, faults>>
        /\ load'["poll"].pc = "list" /\ load'["admin"] = load["admin"]
    BY DEF PollVersion, TypeOK, NoLoad, dbVars, bounds
  <1>2. ListCurrent("admin")' = ListCurrent("admin")
    BY <1>1 DEF ListCurrent, Effective, DefaultRow
  <1> QED BY <1>1, <1>2 DEF CurrentInv, HasListed, Loading

LEMMA CurrentStep ==
    ASSUME PoolAssumption PROVE TypeOK /\ CurrentInv /\ [PoolNext]_poolVars => CurrentInv'
  BY CurrentRequest, CurrentAdmin, CurrentPoll, CurrentLoad, CurrentPool
     DEF PoolNext, Workers

LEMMA CurrentServes == TypeOK /\ CurrentInv => PoolCurrent
  <1> SUFFICES ASSUME TypeOK, CurrentInv, faults = 0, AtRest, seen = version
               PROVE  ClientsCurrent /\ DefaultClient = DefaultRow
    BY DEF PoolCurrent, ClientsCurrent
  <1>1. UpToDate /\ load["poll"].pc = "idle" /\ load["admin"].pc = "idle"
    BY DEF AtRest, UpToDate
  <1>2. ClientsCurrent /\ Effective(dflt) = DefaultRow
    BY <1>1 DEF CurrentInv, Loading
  <1> QED BY <1>2 DEF ClientsCurrent, DefaultClient, Effective, TypeOK

\* For all tables and loads, however the poller's load and a handler's, each
\* with its two locks, overtake each other: a replica at rest that has seen
\* the newest version serves the enabled rows and the default of the table.
THEOREM PoolStaysCurrent == Spec => []PoolCurrent
  <1>1. Init => TypeOK /\ CurrentInv
    BY InitType, CurrentInit, PoolAssumption
  <1>2. TypeOK /\ CurrentInv /\ [PoolNext]_poolVars => TypeOK' /\ CurrentInv'
    BY TypeStep, CurrentStep, PoolAssumption
  <1>3. TypeOK /\ CurrentInv => PoolCurrent
    BY CurrentServes
  <1> QED BY <1>1, <1>2, <1>3, PTL DEF Spec
=============================================================================
