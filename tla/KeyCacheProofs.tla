--------------------------- MODULE KeyCacheProofs ---------------------------
(***************************************************************************)
(* Proofs about KeyCache, for every set of replicas, handlers, keys and    *)
(* teams, whatever fails, crashes or is deactivated.                       *)
(***************************************************************************)
EXTENDS KeyCache, TLAPS

\* The steps of a handler, and those of a replica itself.
HandlerStep(h) == Admin(h) \/ TaskStep(h) \/ BumpFault(h) \/ TaskFault(h)
ReplicaStep(r) ==
    \/ PollStep(r) \/ PollFault(r) \/ Crash(r) \/ BootStep(r) \/ BootVersionFault(r)

LEMMA ViewFact ==
    ASSUME TypeOK
    PROVE  ActiveKeys \in View /\ NoView \in View
  BY DEF TypeOK, ActiveKeys, NoView, View, Row

\* A handler is idle or at one of its steps, in a replica and at a key.
LEMMA TaskFields ==
    ASSUME TypeOK, NEW h \in Handlers, task[h] # NoTask
    PROVE  /\ task[h].pc \in {"bump", "insert", "read", "write"}
           /\ task[h].at \in Replicas /\ task[h].key \in Keys
           /\ task[h].next \in {"insert", "read"} /\ task[h].snap \in View
  BY DEF TypeOK, Task

LEMMA AtWork ==
    ASSUME TypeOK, NEW h \in Handlers, task[h].pc # "idle"
    PROVE  task[h] # NoTask
  BY DEF NoTask

LEMMA InitType == ASSUME KeyCacheAssumption PROVE Init => TypeOK
  <1> SUFFICES ASSUME Init PROVE TypeOK
    OBVIOUS
  <1>1. ActiveKeys \in View /\ NoView \in View
    BY DEF Init, ActiveKeys, NoView, View
  <1>2. row \in [Keys -> Row]
    BY DEF Init, Row
  <1> QED BY <1>1, <1>2 DEF Init, TypeOK, Poll, Task, Quiet

LEMMA AdminType ==
    ASSUME KeyCacheAssumption, TypeOK, NEW h \in Handlers, Admin(h)
    PROVE  TypeOK'
  <1>1. ASSUME NEW r \in Replicas, NEW k \in Keys, NEW new \in Row, NEW snap \in View,
               NEW next \in {"insert", "read"},
               Change(h, r, k, new, next, snap)
        PROVE  TypeOK'
    BY <1>1 DEF Change, TypeOK, Task
  <1>2. NoView \in View
    BY ViewFact
  <1>4. PICK r \in Replicas, k \in Keys :
            \/ CreateKey(h, r, k) \/ RevokeKey(h, r, k) \/ DeleteKey(h, r, k)
            \/ \E t \in Teams : UpdateKey(h, r, k, t)
    BY DEF Admin
  <1>5. CASE CreateKey(h, r, k)
    <2> DEFINE new == [row[k] EXCEPT !.state = "active"]
               snap == [NoView EXCEPT ![k] = row[k].team]
    <2>0. row[k] \in Row /\ row[k].team \in Teams
      BY DEF TypeOK, Row
    <2>1. new \in Row /\ snap \in View
      <3>1. new \in Row
        BY <2>0 DEF Row
      <3>2. snap \in View
        BY <2>0, <1>2 DEF View
      <3> QED BY <3>1, <3>2
    <2>2. Change(h, r, k, new, "insert", snap)
      BY <1>5 DEF CreateKey
    <2> HIDE DEF new, snap
    <2> QED BY <1>1, <2>1, <2>2
  <1>6. CASE RevokeKey(h, r, k)
    <2> DEFINE new == [row[k] EXCEPT !.state = "revoked"]
    <2>1. new \in Row
      BY DEF TypeOK, Row
    <2>2. Change(h, r, k, new, "read", NoView)
      BY <1>6 DEF RevokeKey
    <2> HIDE DEF new
    <2> QED BY <1>1, <1>2, <2>1, <2>2
  <1>7. CASE DeleteKey(h, r, k)
    <2> DEFINE new == [row[k] EXCEPT !.state = "deleted"]
    <2>1. new \in Row
      BY DEF TypeOK, Row
    <2>2. Change(h, r, k, new, "read", NoView)
      BY <1>7 DEF DeleteKey
    <2> HIDE DEF new
    <2> QED BY <1>1, <1>2, <2>1, <2>2
  <1>8. CASE \E t \in Teams : UpdateKey(h, r, k, t)
    <2> PICK t \in Teams : UpdateKey(h, r, k, t)
      BY <1>8
    <2> DEFINE new == [row[k] EXCEPT !.team = t]
    <2>1. new \in Row
      BY DEF TypeOK, Row
    <2>2. Change(h, r, k, new, "read", NoView)
      BY DEF UpdateKey
    <2> HIDE DEF new
    <2> QED BY <1>1, <1>2, <2>1, <2>2
  <1> QED BY <1>4, <1>5, <1>6, <1>7, <1>8

LEMMA TaskType ==
    ASSUME KeyCacheAssumption, TypeOK, NEW h \in Handlers,
           TaskStep(h) \/ BumpFault(h) \/ TaskFault(h)
    PROVE  TypeOK'
  <1>0. ActiveKeys \in View /\ NoView \in View
    BY ViewFact
  <1>t. /\ task[h].at \in Replicas /\ task[h].key \in Keys
        /\ task[h].next \in {"insert", "read"} /\ task[h].snap \in View
        /\ task[h] \in [pc : {"bump", "insert", "read", "write"}, at : Replicas, key : Keys,
                        next : {"insert", "read"}, snap : View]
    BY AtWork, TaskFields DEF TaskStep, Bump, Insert, TaskRead, TaskWrite, BumpFault,
       TaskFault, TypeOK, Task
  <1>1. CASE Bump(h)
    <2>1. [task[h] EXCEPT !.pc = task[h].next] \in Task
      BY <1>t DEF Task
    <2>2. task' \in [Handlers -> Task]
      BY <1>1, <2>1 DEF Bump, TypeOK
    <2> QED BY <1>1, <2>2 DEF Bump, TypeOK
  <1>2. CASE Insert(h)
    <2>1. cache' \in [Replicas -> View]
      BY <1>2, <1>t DEF Insert, TypeOK, View
    <2> QED BY <1>2, <1>t, <2>1 DEF Insert, TypeOK, Task, dbVars
  <1>3. CASE TaskRead(h)
    <2>1. [task[h] EXCEPT !.pc = "write", !.snap = ActiveKeys] \in Task
      BY <1>t, <1>0 DEF Task
    <2>2. task' \in [Handlers -> Task]
      BY <1>3, <2>1 DEF TaskRead, TypeOK
    <2> QED BY <1>3, <2>2 DEF TaskRead, TypeOK, dbVars
  <1>4. CASE TaskWrite(h)
    BY <1>t, <1>4 DEF TaskWrite, TypeOK, Task, dbVars
  <1>5. CASE BumpFault(h) \/ TaskFault(h)
    BY <1>5 DEF BumpFault, TaskFault, TypeOK, Task, dbVars
  <1> QED BY <1>1, <1>2, <1>3, <1>4, <1>5 DEF TaskStep

LEMMA PollType ==
    ASSUME KeyCacheAssumption, TypeOK, NEW r \in Replicas,
           PollStep(r) \/ PollFault(r)
    PROVE  TypeOK'
  <1>0. ActiveKeys \in View /\ NoView \in View
    BY ViewFact
  <1>1. CASE PollVersion(r)
    BY <1>1 DEF PollVersion, TypeOK, Poll, dbVars
  <1>2. CASE PollRead(r)
    BY <1>0, <1>2 DEF PollRead, TypeOK, Poll, dbVars
  <1>3. CASE PollWrite(r)
    BY <1>0, <1>3 DEF PollWrite, Loaded, TypeOK, Poll, dbVars, Quiet
  <1>4. CASE PollFault(r)
    BY <1>0, <1>4 DEF PollFault, TypeOK, Poll, dbVars, Quiet
  <1> QED BY <1>1, <1>2, <1>3, <1>4 DEF PollStep

LEMMA RestartType ==
    ASSUME KeyCacheAssumption, TypeOK, NEW r \in Replicas,
           Crash(r) \/ BootStep(r) \/ BootVersionFault(r)
    PROVE  TypeOK'
  <1>0. ActiveKeys \in View /\ NoView \in View
    BY ViewFact
  <1>1. CASE Crash(r)
    BY <1>0, <1>1 DEF Crash, TypeOK, Poll, Task, dbVars, Quiet
  <1>2. CASE BootRead(r)
    BY <1>0, <1>2 DEF BootRead, TypeOK, Poll, dbVars
  <1>3. CASE BootWrite(r)
    BY <1>0, <1>3 DEF BootWrite, Loaded, TypeOK, Poll, dbVars
  <1>4. CASE BootVersion(r)
    BY <1>0, <1>4 DEF BootVersion, TypeOK, Poll, dbVars, Quiet
  <1>5. CASE BootVersionFault(r)
    BY <1>0, <1>5 DEF BootVersionFault, TypeOK, Poll, dbVars, Quiet
  <1> QED BY <1>1, <1>2, <1>3, <1>4, <1>5 DEF BootStep

LEMMA StepType == ASSUME KeyCacheAssumption PROVE TypeOK /\ [Next]_vars => TypeOK'
  <1> SUFFICES ASSUME TypeOK, [Next]_vars PROVE TypeOK'
    OBVIOUS
  <1>1. ASSUME NEW h \in Handlers, HandlerStep(h) PROVE TypeOK'
    BY <1>1, AdminType, TaskType DEF HandlerStep
  <1>2. ASSUME NEW r \in Replicas, ReplicaStep(r) PROVE TypeOK'
    BY <1>2, PollType, RestartType DEF ReplicaStep
  <1>3. ASSUME NEW u \in ScimUsers, NEW a \in BOOLEAN, ScimSetActive(u, a)
        PROVE  TypeOK'
    BY <1>3 DEF ScimSetActive, TypeOK
  <1>4. CASE UNCHANGED vars
    BY <1>4 DEF vars, dbVars, TypeOK
  <1> QED BY <1>1, <1>2, <1>3, <1>4 DEF Next, HandlerStep, ReplicaStep

\* Every variable keeps its type; in particular no replica takes a version for
\* seen that the database has not reached.
THEOREM TypeCorrect == Spec => []TypeOK
  <1>1. Init => TypeOK
    BY InitType, KeyCacheAssumption
  <1>2. TypeOK /\ [Next]_vars => TypeOK'
    BY StepType, KeyCacheAssumption
  <1> QED BY <1>1, <1>2, PTL DEF Spec

-----------------------------------------------------------------------------
(* What the version counter achieves *)

\* What the poller has read, or has written, is what the table holds, as long
\* as the version it saw is the newest and no change awaits its bump.
PollFresh(r) ==
    r \in up /\ seen[r] = version /\ Unbumped = {} /\ r \notin behind =>
        /\ poll[r].pc = "idle" => cache[r] = ActiveKeys
        /\ poll[r].pc = "write" => poll[r].snap = ActiveKeys

\* What a start-up has loaded is what the table holds, unless a row changed.
BootFresh(r) ==
    r \notin up /\ r \notin behind =>
        /\ poll[r].pc = "read" => cache[r] = ActiveKeys
        /\ poll[r].pc = "write" => poll[r].snap = ActiveKeys

SyncInv == \A r \in Replicas : PollFresh(r) /\ BootFresh(r)

LEMMA SyncInit == Init => SyncInv
  BY DEF Init, SyncInv, PollFresh, BootFresh, Quiet

\* After a change no cache is claimed to be up to date until the bump.
LEMMA SyncAdmin ==
    ASSUME TypeOK, SyncInv, NEW h \in Handlers, Admin(h)
    PROVE  SyncInv'
  <1>1. ASSUME NEW r \in Replicas, NEW k \in Keys, NEW new, NEW next, NEW snap,
               Change(h, r, k, new, next, snap)
        PROVE  SyncInv'
    <2>1. task'[h].pc = "bump" /\ up' = up /\ behind' = behind \cup (Replicas \ up)
      BY <1>1 DEF Change, TypeOK
    <2>2. Unbumped' # {}
      BY <2>1 DEF Unbumped
    <2> QED BY <2>1, <2>2 DEF SyncInv, PollFresh, BootFresh
  <1> QED BY <1>1 DEF Admin, CreateKey, RevokeKey, DeleteKey, UpdateKey

\* A handler's later steps leave the table alone; what it writes is the table's
\* content, or its replica is behind.
LEMMA SyncTask ==
    ASSUME TypeOK, SyncInv, NEW h \in Handlers,
           TaskStep(h) \/ BumpFault(h) \/ TaskFault(h)
    PROVE  SyncInv'
  <1>0. /\ UNCHANGED <<row, active, up, poll, seen>> /\ ActiveKeys' = ActiveKeys
    BY DEF TaskStep, Bump, Insert, TaskRead, TaskWrite, BumpFault, TaskFault, dbVars,
           ActiveKeys, Valid
  <1>t. task[h].at \in Replicas /\ task[h].key \in Keys /\ task[h].snap \in View
    BY AtWork, TaskFields DEF TaskStep, Bump, Insert, TaskRead, TaskWrite, BumpFault, TaskFault
  <1>1. CASE Bump(h)
    <2>1. \A s \in Replicas : seen'[s] # version'
      BY <1>1 DEF Bump, TypeOK
    <2>2. UNCHANGED <<cache, behind>>
      BY <1>1 DEF Bump
    <2> QED BY <1>0, <2>1, <2>2 DEF SyncInv, PollFresh, BootFresh
  <1>2. CASE BumpFault(h)
    BY <1>2 DEF BumpFault, SyncInv, PollFresh, BootFresh
  <1>3. CASE TaskRead(h) \/ TaskFault(h)
    <2>1. UNCHANGED <<version, cache, behind>>
      BY <1>3 DEF TaskRead, TaskFault, dbVars
    <2>2. Unbumped' = Unbumped
      <3>1. task[h].pc = "read" /\ task'[h].pc # "bump"
        <4>1. CASE TaskRead(h)
          <5>1. task'[h] = [task[h] EXCEPT !.pc = "write", !.snap = ActiveKeys]
            BY <4>1 DEF TaskRead, TypeOK
          <5>2. task[h] \in [pc : {"bump", "insert", "read", "write"}, at : Replicas,
                             key : Keys, next : {"insert", "read"}, snap : View]
            BY <4>1, AtWork DEF TaskRead, TypeOK, Task
          <5> QED BY <4>1, <5>1, <5>2 DEF TaskRead
        <4>2. CASE TaskFault(h)
          BY <4>2 DEF TaskFault, TypeOK, NoTask
        <4> QED BY <1>3, <4>1, <4>2
      <3>2. \A g \in Handlers \ {h} : task'[g] = task[g]
        BY <1>3 DEF TaskRead, TaskFault, TypeOK
      <3> QED BY <3>1, <3>2 DEF Unbumped
    <2> QED BY <1>0, <2>1, <2>2 DEF SyncInv, PollFresh, BootFresh
  <1>4. CASE Insert(h) \/ TaskWrite(h)
    <2> DEFINE r == task[h].at
    <2>1. version' = version /\ behind \subseteq behind'
      BY <1>4 DEF Insert, TaskWrite, dbVars
    <2>2. Unbumped' = Unbumped
      <3>1. task[h].pc \in {"insert", "write"} /\ task'[h].pc = "idle"
        BY <1>4 DEF Insert, TaskWrite, TypeOK, NoTask
      <3>2. \A g \in Handlers \ {h} : task'[g] = task[g]
        BY <1>4 DEF Insert, TaskWrite, TypeOK
      <3> QED BY <3>1, <3>2 DEF Unbumped
    <2>3. \A s \in Replicas \ {r} : cache'[s] = cache[s]
      BY <1>4 DEF Insert, TaskWrite, TypeOK
    <2>4. r \in behind' \/ (cache[r] = ActiveKeys => cache'[r] = ActiveKeys)
      <3>1. CASE Insert(h)
        <4>1. CASE task[h].snap[task[h].key] = ActiveKeys[task[h].key]
          <5>1. cache[r] \in View /\ cache' = [cache EXCEPT ![r][task[h].key] = task[h].snap[task[h].key]]
            BY <3>1, <1>t DEF Insert, TypeOK
          <5>2. cache'[r] = [cache[r] EXCEPT ![task[h].key] = ActiveKeys[task[h].key]]
            BY <5>1, <4>1, <1>t DEF TypeOK
          <5>3. cache[r] = ActiveKeys => cache'[r] = ActiveKeys
            BY <5>1, <5>2, <1>t DEF View, ActiveKeys
          <5> QED BY <5>3
        <4>2. CASE task[h].snap[task[h].key] # ActiveKeys[task[h].key]
          BY <3>1, <4>2 DEF Insert
        <4> QED BY <4>1, <4>2
      <3>2. CASE TaskWrite(h)
        BY <3>2, <1>t DEF TaskWrite, TypeOK
      <3> QED BY <1>4, <3>1, <3>2
    <2>5. ASSUME NEW s \in Replicas PROVE PollFresh(s)' /\ BootFresh(s)'
      <3>1. s \in behind' \/ (s \notin behind /\ (cache[s] = ActiveKeys => cache'[s] = ActiveKeys))
        BY <2>1, <2>3, <2>4
      <3>2. PollFresh(s) /\ BootFresh(s)
        BY DEF SyncInv
      <3> HIDE DEF r
      <3> QED BY <1>0, <2>1, <2>2, <3>1, <3>2 DEF PollFresh, BootFresh
    <2> QED BY <2>5 DEF SyncInv
  <1> QED BY <1>1, <1>2, <1>3, <1>4 DEF TaskStep

\* The loads of a replica, by its poller and by its start.
LEMMA SyncLoad ==
    ASSUME TypeOK, SyncInv, NEW r \in Replicas,
           PollStep(r) \/ PollFault(r) \/ BootStep(r) \/ BootVersionFault(r)
    PROVE  SyncInv'
  <1>0. /\ UNCHANGED <<row, active, version, task>>
        /\ ActiveKeys' = ActiveKeys /\ Unbumped' = Unbumped
    BY DEF PollStep, PollVersion, PollRead, PollWrite, PollFault, BootStep, BootRead,
           BootWrite, BootVersion, BootVersionFault, dbVars, ActiveKeys, Valid, Unbumped
  <1>1. \A s \in Replicas \ {r} :
            /\ UNCHANGED <<poll[s], cache[s], seen[s]>>
            /\ (s \in up' <=> s \in up) /\ (s \in behind' <=> s \in behind)
    BY DEF PollStep, PollVersion, PollRead, PollWrite, PollFault, BootStep, BootRead,
           BootWrite, BootVersion, BootVersionFault, Loaded, TypeOK
  <1>2. ASSUME NEW s \in Replicas \ {r} PROVE PollFresh(s)' /\ BootFresh(s)'
    <2>1. PollFresh(s) /\ BootFresh(s)
      BY DEF SyncInv
    <2> QED BY <1>0, <1>1, <2>1 DEF PollFresh, BootFresh
  <1>f. PollFresh(r) /\ BootFresh(r)
    BY DEF SyncInv
  <1>3. PollFresh(r)' /\ BootFresh(r)'
    <2>1. CASE PollVersion(r)
      BY <1>0, <2>1 DEF PollVersion, PollFresh, BootFresh, TypeOK, Poll
    <2>2. CASE PollRead(r)
      BY <1>0, <2>2 DEF PollRead, PollFresh, BootFresh, TypeOK, Poll
    <2>3. CASE PollWrite(r)
      BY <1>0, <1>f, <2>3 DEF PollWrite, Loaded, PollFresh, BootFresh, TypeOK, Poll, Quiet
    <2>4. CASE PollFault(r)
      BY <1>0, <2>4 DEF PollFault, PollFresh, BootFresh
    <2>5. CASE BootRead(r)
      BY <1>0, <2>5 DEF BootRead, PollFresh, BootFresh, TypeOK, Poll
    <2>6. CASE BootWrite(r)
      BY <1>0, <1>f, <2>6 DEF BootWrite, Loaded, PollFresh, BootFresh, TypeOK, Poll
    <2>7. CASE BootVersion(r) \/ BootVersionFault(r)
      BY <1>0, <1>f, <2>7 DEF BootVersion, BootVersionFault, PollFresh, BootFresh, TypeOK, Poll, Quiet
    <2> QED BY <2>1, <2>2, <2>3, <2>4, <2>5, <2>6, <2>7 DEF PollStep, BootStep
  <1> QED BY <1>2, <1>3 DEF SyncInv

\* A crash may take a bump with it, and then all are behind.
LEMMA SyncCrash ==
    ASSUME TypeOK, SyncInv, NEW r \in Replicas, Crash(r)
    PROVE  SyncInv'
  <1> DEFINE Lost(h) == task[h] # NoTask /\ task[h].at = r
  <1>1. CASE \E h \in Unbumped : Lost(h)
    BY <1>1 DEF Crash, SyncInv, PollFresh, BootFresh
  <1>2. CASE ~ \E h \in Unbumped : Lost(h)
    <2>1. /\ task' = [h \in Handlers |-> IF Lost(h) THEN NoTask ELSE task[h]]
          /\ behind' = behind /\ UNCHANGED <<row, active, version>>
      BY <1>2 DEF Crash, dbVars
    <2>2. Unbumped' = Unbumped
      BY <1>2, <2>1 DEF Unbumped, NoTask
    <2>3. ActiveKeys' = ActiveKeys
      BY <2>1 DEF ActiveKeys, Valid
    <2>4. /\ \A s \in Replicas \ {r} : UNCHANGED <<poll[s], cache[s], seen[s]>> /\ (s \in up' <=> s \in up)
          /\ r \notin up' /\ poll'[r].pc = "idle"
      BY DEF Crash, TypeOK, Quiet
    <2>5. ASSUME NEW s \in Replicas \ {r} PROVE PollFresh(s)' /\ BootFresh(s)'
      <3>1. PollFresh(s) /\ BootFresh(s)
        BY DEF SyncInv
      <3> HIDE DEF Lost
      <3> QED BY <2>1, <2>2, <2>3, <2>4, <3>1 DEF PollFresh, BootFresh
    <2>6. PollFresh(r)' /\ BootFresh(r)'
      BY <2>4 DEF PollFresh, BootFresh
    <2> QED BY <2>5, <2>6 DEF SyncInv
  <1> QED BY <1>1, <1>2

LEMMA SyncStep == TypeOK /\ SyncInv /\ [Next]_vars => SyncInv'
  <1> SUFFICES ASSUME TypeOK, SyncInv, [Next]_vars PROVE SyncInv'
    OBVIOUS
  <1>1. ASSUME NEW h \in Handlers, HandlerStep(h) PROVE SyncInv'
    BY <1>1, SyncAdmin, SyncTask DEF HandlerStep
  <1>2. ASSUME NEW r \in Replicas, ReplicaStep(r) PROVE SyncInv'
    BY <1>2, SyncLoad, SyncCrash DEF ReplicaStep
  <1>3. ASSUME NEW u \in ScimUsers, NEW a \in BOOLEAN, ScimSetActive(u, a)
        PROVE  SyncInv'
    BY <1>3 DEF ScimSetActive, SyncInv, PollFresh, BootFresh
  <1>4. CASE UNCHANGED vars
    BY <1>4 DEF vars, dbVars, SyncInv, PollFresh, BootFresh, Unbumped, ActiveKeys, Valid
  <1> QED BY <1>1, <1>2, <1>3, <1>4 DEF Next, HandlerStep, ReplicaStep

\* Whatever fails, crashes or overlaps: a replica that has seen the newest
\* version, and is not in the middle of its reload, accepts exactly the keys of
\* the table, unless it is behind in one of the five ways.
THEOREM SyncedBySeeing == Spec => []SyncedWhenSeen
  <1>1. TypeOK /\ SyncInv => SyncedWhenSeen
    BY DEF TypeOK, SyncInv, PollFresh, SyncedWhenSeen, Synced
  <1> QED BY <1>1, SyncInit, SyncStep, TypeCorrect, PTL DEF Spec

-----------------------------------------------------------------------------
(* What a restart forgets *)

\* A key that had ended when a replica was last started stays ended, and is
\* nowhere in that replica: not in its cache, in no load and in no handler.
Clean(h, r) ==
    task[h] # NoTask /\ task[h].at = r =>
        /\ task[h].pc = "write" => \A k \in dead[r] : task[h].snap[k] = Absent
        /\ task[h].pc = "insert" \/ (task[h].pc = "bump" /\ task[h].next = "insert")
              => task[h].key \notin dead[r]

Forgotten(r) ==
    /\ \A k \in dead[r] : /\ Ended(k) /\ cache[r][k] = Absent
                          /\ poll[r].pc = "write" => poll[r].snap[k] = Absent
    /\ \A h \in Handlers : Clean(h, r)

\* A replica that is not up runs no handler, and its cache holds nothing until
\* the first load.
Stopped(r) ==
    r \notin up => /\ \A h \in Handlers : task[h] # NoTask => task[h].at # r
                   /\ poll[r].pc \in {"idle", "write"} => cache[r] = NoView

DeadInv == \A r \in Replicas : Forgotten(r) /\ Stopped(r)

LEMMA DeadInit == Init => DeadInv
  BY DEF Init, DeadInv, Forgotten, Clean, Stopped, NoTask, Quiet

\* What ended is in no list of active keys.
LEMMA EndedAbsent == \A k \in Keys : Ended(k) => ActiveKeys[k] = Absent
  BY DEF Ended, ActiveKeys, Valid

\* A step of one handler leaves all replicas clean if it leaves that handler so.
LEMMA DeadByHandler ==
    ASSUME TypeOK, DeadInv, NEW h \in Handlers,
           UNCHANGED <<poll, dead, up>>,
           \A k \in Keys : Ended(k) => Ended(k)',
           \A g \in Handlers \ {h} : task'[g] = task[g],
           task'[h] # NoTask => task'[h].at \in up,
           \A r \in Replicas : Clean(h, r)',
           \A r \in Replicas : \A k \in dead[r] : cache'[r][k] = Absent,
           \A r \in Replicas : r \notin up => cache'[r] = cache[r]
    PROVE  DeadInv'
  <1> SUFFICES ASSUME NEW r \in Replicas PROVE Forgotten(r)' /\ Stopped(r)'
    BY DEF DeadInv
  <1>1. Forgotten(r) /\ Stopped(r) /\ dead[r] \subseteq Keys
    BY DEF DeadInv, TypeOK
  <1>2. \A g \in Handlers : Clean(g, r)'
    BY <1>1 DEF Forgotten, Clean
  <1>3. Forgotten(r)'
    BY <1>1, <1>2 DEF Forgotten
  <1>4. Stopped(r)'
    BY <1>1 DEF Stopped, NoView
  <1> QED BY <1>3, <1>4

LEMMA DeadChange ==
    ASSUME TypeOK, DeadInv, NEW h \in Handlers, NEW r \in Replicas, NEW k \in Keys,
           NEW new, NEW next, NEW snap,
           Change(h, r, k, new, next, snap),
           Ended(k) => new.state \in {"revoked", "deleted"} /\ next # "insert"
    PROVE  DeadInv'
  <1>1. /\ UNCHANGED <<cache, poll, dead, up>> /\ r \in up
        /\ task'[h] = [pc |-> "bump", at |-> r, key |-> k, next |-> next, snap |-> snap]
        /\ \A g \in Handlers \ {h} : task'[g] = task[g]
    BY DEF Change, TypeOK
  <1>2. \A j \in Keys : Ended(j) => Ended(j)'
    BY DEF Change, Ended, TypeOK
  <1>3. \A s \in Replicas : Forgotten(s)
    BY DEF DeadInv
  <1>4. \A s \in Replicas : Clean(h, s)'
    BY <1>1, <1>3 DEF Forgotten, Clean
  <1>5. \A s \in Replicas : \A j \in dead[s] : cache'[s][j] = Absent
    BY <1>1, <1>3 DEF Forgotten
  <1> QED BY <1>1, <1>2, <1>4, <1>5, DeadByHandler

LEMMA DeadAdmin ==
    ASSUME TypeOK, DeadInv, NEW h \in Handlers, Admin(h) PROVE DeadInv'
  <1>0. \A k \in Keys : row[k] \in Row
    BY DEF TypeOK
  <1>1. ASSUME NEW r \in Replicas, NEW k \in Keys, CreateKey(h, r, k) PROVE DeadInv'
    <2>1. ~Ended(k)
      BY <1>1 DEF CreateKey, Ended
    <2> QED BY <1>1, <2>1, DeadChange DEF CreateKey
  <1>2. ASSUME NEW r \in Replicas, NEW k \in Keys, RevokeKey(h, r, k) \/ DeleteKey(h, r, k)
        PROVE  DeadInv'
    <2>1. /\ [row[k] EXCEPT !.state = "revoked"].state = "revoked"
          /\ [row[k] EXCEPT !.state = "deleted"].state = "deleted"
      BY <1>0 DEF Row
    <2> QED BY <1>2, <2>1, DeadChange DEF RevokeKey, DeleteKey
  <1>3. ASSUME NEW r \in Replicas, NEW k \in Keys, NEW t \in Teams, UpdateKey(h, r, k, t)
        PROVE  DeadInv'
    <2>1. [row[k] EXCEPT !.team = t].state = row[k].state
      BY <1>0 DEF Row
    <2> QED BY <1>3, <2>1, DeadChange DEF UpdateKey, Ended
  <1> QED BY <1>1, <1>2, <1>3 DEF Admin

LEMMA DeadTask ==
    ASSUME TypeOK, DeadInv, NEW h \in Handlers,
           TaskStep(h) \/ BumpFault(h) \/ TaskFault(h)
    PROVE  DeadInv'
  <1>0. /\ UNCHANGED <<row, poll, dead, up>> /\ task[h] # NoTask
        /\ \A g \in Handlers \ {h} : task'[g] = task[g]
    BY AtWork DEF TaskStep, Bump, Insert, TaskRead, TaskWrite, BumpFault, TaskFault,
       TypeOK, dbVars
  <1>p. PICK r \in Replicas : r = task[h].at
    BY <1>0, TaskFields
  <1>1. \A k \in Keys : Ended(k)' = Ended(k)
    BY <1>0 DEF Ended
  <1>2. /\ r \in Replicas /\ r \in up /\ Clean(h, r) /\ dead[r] \subseteq Keys
        /\ \A k \in dead[r] : Ended(k)
        /\ \A s \in Replicas : \A k \in dead[s] : cache[s][k] = Absent
    BY <1>0, <1>p, TaskFields DEF DeadInv, Stopped, Forgotten, TypeOK
  <1>r. task[h] \in [pc : {"bump", "insert", "read", "write"}, at : Replicas,
                     key : Keys, next : {"insert", "read"}, snap : View]
    BY <1>0 DEF TypeOK, Task
  <1>3. \A s \in Replicas \ {r} : cache'[s] = cache[s]
    BY <1>p DEF TaskStep, Bump, Insert, TaskRead, TaskWrite, BumpFault, TaskFault, TypeOK
  <1>4. task'[h] # NoTask => task'[h].at = r
    <2>1. CASE Bump(h)
      <3>1. task'[h] = [task[h] EXCEPT !.pc = task[h].next]
        BY <2>1 DEF Bump, TypeOK
      <3> QED BY <3>1, <1>r, <1>p
    <2>2. CASE TaskRead(h)
      <3>1. task'[h] = [task[h] EXCEPT !.pc = "write", !.snap = ActiveKeys]
        BY <2>2 DEF TaskRead, TypeOK
      <3> QED BY <3>1, <1>r, <1>p
    <2>3. CASE Insert(h) \/ TaskWrite(h) \/ BumpFault(h) \/ TaskFault(h)
      BY <2>3 DEF Insert, TaskWrite, BumpFault, TaskFault, TypeOK
    <2> QED BY <2>1, <2>2, <2>3 DEF TaskStep
  <1>5. Clean(h, r)'
    <2>1. CASE Bump(h)
      <3>1. task'[h] = [task[h] EXCEPT !.pc = task[h].next]
        BY <2>1 DEF Bump, TypeOK
      <3>2. /\ task'[h].pc = task[h].next /\ task'[h].key = task[h].key
            /\ task'[h].pc \in {"insert", "read"}
        BY <3>1, <1>r
      <3> QED BY <1>0, <1>2, <1>p, <2>1, <3>2 DEF Clean, Bump
    <2>2. CASE TaskRead(h)
      <3>1. task'[h] = [task[h] EXCEPT !.pc = "write", !.snap = ActiveKeys]
        BY <2>2 DEF TaskRead, TypeOK
      <3>2. task'[h].pc = "write" /\ task'[h].snap = ActiveKeys
        BY <3>1, <1>r
      <3> QED BY <1>0, <1>2, <3>2, EndedAbsent DEF Clean
    <2>3. CASE Insert(h) \/ TaskWrite(h) \/ BumpFault(h) \/ TaskFault(h)
      <3>1. task'[h] = NoTask
        BY <2>3 DEF Insert, TaskWrite, BumpFault, TaskFault, TypeOK
      <3> QED BY <3>1 DEF Clean
    <2> QED BY <2>1, <2>2, <2>3 DEF TaskStep
  <1>6. \A k \in dead[r] : cache'[r][k] = Absent
    <2>1. CASE Insert(h)
      <3>1. \A k \in Keys \ {task[h].key} : cache'[r][k] = cache[r][k]
        BY <2>1, <1>p, <1>2, <1>r DEF Insert, TypeOK, View
      <3>2. task[h].key \notin dead[r]
        BY <1>0, <1>2, <1>p, <2>1 DEF Insert, Clean
      <3> QED BY <1>2, <3>1, <3>2
    <2>2. CASE TaskWrite(h)
      BY <2>2, <1>0, <1>2, <1>p DEF TaskWrite, Clean, TypeOK
    <2>3. CASE Bump(h) \/ TaskRead(h) \/ BumpFault(h) \/ TaskFault(h)
      BY <2>3, <1>2 DEF Bump, TaskRead, BumpFault, TaskFault
    <2> QED BY <2>1, <2>2, <2>3 DEF TaskStep
  <1>7. \A s \in Replicas : Clean(h, s)'
    BY <1>4, <1>5 DEF Clean
  <1>8. \A s \in Replicas : \A k \in dead[s] : cache'[s][k] = Absent
    BY <1>2, <1>3, <1>6
  <1>9. task'[h] # NoTask => task'[h].at \in up
    BY <1>2, <1>4
  <1>10. \A s \in Replicas : s \notin up => cache'[s] = cache[s]
    BY <1>2, <1>3
  <1> QED BY <1>0, <1>1, <1>7, <1>8, <1>9, <1>10, DeadByHandler

\* A step of a replica itself leaves what the others have forgotten alone.
LEMMA DeadByReplica ==
    ASSUME TypeOK, DeadInv, NEW r \in Replicas,
           UNCHANGED row,
           \A s \in Replicas \ {r} :
              UNCHANGED <<cache[s], poll[s], dead[s]>> /\ (s \in up' <=> s \in up),
           \A h \in Handlers : task'[h] = task[h] \/ task'[h] = NoTask,
           Forgotten(r)', Stopped(r)'
    PROVE  DeadInv'
  <1> SUFFICES ASSUME NEW s \in Replicas \ {r} PROVE Forgotten(s)' /\ Stopped(s)'
    BY DEF DeadInv
  <1>1. Forgotten(s) /\ Stopped(s) /\ dead[s] \subseteq Keys
    BY DEF DeadInv, TypeOK
  <1>2. \A k \in Keys : Ended(k)' = Ended(k)
    BY DEF Ended
  <1>3. \A h \in Handlers : Clean(h, s)'
    BY <1>1 DEF Forgotten, Clean
  <1>4. Forgotten(s)'
    BY <1>1, <1>2, <1>3 DEF Forgotten
  <1>5. Stopped(s)'
    BY <1>1 DEF Stopped, NoView
  <1> QED BY <1>4, <1>5

\* The poller and the start-up use the same place for what they have read.
LEMMA DeadLoad ==
    ASSUME TypeOK, DeadInv, NEW r \in Replicas,
           \/ PollStep(r) \/ PollFault(r) \/ Crash(r)
           \/ BootWrite(r) \/ BootVersion(r) \/ BootVersionFault(r)
    PROVE  DeadInv'
  <1>0. /\ UNCHANGED <<row, dead>>
        /\ \A s \in Replicas \ {r} :
              UNCHANGED <<cache[s], poll[s]>> /\ (s \in up' <=> s \in up)
    BY DEF PollStep, PollVersion, PollRead, PollWrite, PollFault, Crash, BootWrite,
           BootVersion, BootVersionFault, TypeOK, dbVars
  <1>t. /\ \A h \in Handlers : task'[h] = task[h] \/ task'[h] = NoTask
        /\ Crash(r) => \A h \in Handlers : task'[h] # NoTask => task'[h].at # r
        /\ ~Crash(r) => task' = task
    BY DEF PollStep, PollVersion, PollRead, PollWrite, PollFault, Crash, BootWrite,
           BootVersion, BootVersionFault, TypeOK
  <1>1. \A k \in Keys : Ended(k)' = Ended(k)
    BY <1>0 DEF Ended
  <1>2. Forgotten(r) /\ Stopped(r) /\ dead[r] \subseteq Keys /\ poll[r] \in Poll
    BY DEF DeadInv, TypeOK
  <1>3. \A k \in dead[r] : ActiveKeys[k] = Absent
    BY <1>2, EndedAbsent DEF Forgotten
  <1>5. \/ poll'[r].pc = "write" /\ poll'[r].snap = ActiveKeys
        \/ poll'[r].pc \in {"idle", "read"}
    BY DEF PollStep, PollVersion, PollRead, PollWrite, PollFault, Crash, BootWrite,
           BootVersion, BootVersionFault, Quiet, TypeOK, Poll
  <1>6. \/ cache'[r] = cache[r]
        \/ poll[r].pc = "write" /\ cache'[r] = poll[r].snap
        \/ cache'[r] = NoView
    BY DEF PollStep, PollVersion, PollRead, PollWrite, PollFault, Crash, BootWrite,
           BootVersion, BootVersionFault, TypeOK
  <1>7. \A k \in dead[r] : cache'[r][k] = Absent
    BY <1>2, <1>6 DEF Forgotten, NoView
  <1>c. \A h \in Handlers : Clean(h, r)'
    BY <1>0, <1>2, <1>t DEF Forgotten, Clean
  <1>8. Forgotten(r)'
    BY <1>0, <1>1, <1>2, <1>3, <1>5, <1>7, <1>c DEF Forgotten
  <1>9. Stopped(r)'
    <2>1. CASE Crash(r)
      BY <2>1, <1>t DEF Crash, Stopped, TypeOK
    <2>2. CASE ~Crash(r)
      BY <1>2, <1>t, <2>2 DEF PollStep, PollVersion, PollRead, PollWrite, PollFault,
         BootWrite, BootVersion, BootVersionFault, Stopped, Quiet, TypeOK, Poll, NoView
    <2> QED BY <2>1, <2>2
  <1> QED BY <1>0, <1>t, <1>8, <1>9, DeadByReplica

LEMMA DeadBoot ==
    ASSUME TypeOK, DeadInv, NEW r \in Replicas, BootRead(r) PROVE DeadInv'
  <1>0. /\ UNCHANGED <<row, cache, task, up>>
        /\ r \notin up /\ poll[r].pc = "idle"
        /\ \A s \in Replicas \ {r} : UNCHANGED <<poll[s], dead[s]>>
        /\ poll'[r] = [pc |-> "write", snap |-> ActiveKeys]
        /\ dead'[r] = {k \in Keys : Ended(k)}
    BY DEF BootRead, TypeOK, dbVars
  <1>1. \A k \in Keys : Ended(k)' = Ended(k)
    BY <1>0 DEF Ended
  <1>2. /\ \A h \in Handlers : task[h] # NoTask => task[h].at # r
        /\ cache[r] = NoView
    BY <1>0 DEF DeadInv, Stopped
  <1>3. Forgotten(r)'
    BY <1>0, <1>1, <1>2, EndedAbsent DEF Forgotten, Clean, NoView
  <1>4. Stopped(r)'
    BY <1>0, <1>2 DEF Stopped, NoView
  <1> QED BY <1>0, <1>3, <1>4, DeadByReplica

LEMMA DeadStep == TypeOK /\ DeadInv /\ [Next]_vars => DeadInv'
  <1> SUFFICES ASSUME TypeOK, DeadInv, [Next]_vars PROVE DeadInv'
    OBVIOUS
  <1>1. ASSUME NEW h \in Handlers, HandlerStep(h) PROVE DeadInv'
    BY <1>1, DeadAdmin, DeadTask DEF HandlerStep
  <1>2. ASSUME NEW r \in Replicas, ReplicaStep(r) PROVE DeadInv'
    BY <1>2, DeadLoad, DeadBoot DEF ReplicaStep, BootStep
  <1>3. CASE UNCHANGED <<row, cache, poll, task, dead, up>>
    BY <1>3 DEF DeadInv, Forgotten, Clean, Stopped, Ended
  <1>4. ASSUME NEW u \in ScimUsers, NEW a \in BOOLEAN, ScimSetActive(u, a)
        PROVE  UNCHANGED <<row, cache, poll, task, dead, up>>
    BY <1>4 DEF ScimSetActive
  <1>5. CASE UNCHANGED vars
    BY <1>3, <1>5 DEF vars
  <1> QED BY <1>1, <1>2, <1>3, <1>4, <1>5 DEF Next, HandlerStep, ReplicaStep

\* For any number of replicas and overlapping handlers, and whatever fails,
\* crashes or is deactivated meanwhile: a replica never accepts a key that was
\* revoked or deleted before it came up.
THEOREM RestartsForget == Spec => []RestartForgets
  <1>1. TypeOK /\ DeadInv => RestartForgets
    BY DEF DeadInv, Forgotten, RestartForgets, TypeOK
  <1> QED BY <1>1, DeadInit, DeadStep, TypeCorrect, PTL DEF Spec
=============================================================================
