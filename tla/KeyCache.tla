------------------------------ MODULE KeyCache ------------------------------
(***************************************************************************)
(* Virtual keys: the rows in Postgres, the in-memory cache that every      *)
(* replica answers requests from (src/src/auth/mod.rs), and the version    *)
(* counter by which a replica learns that another one changed something    *)
(* (db/settings.rs, start_cache_poll_loop in main.rs).                     *)
(*                                                                         *)
(* An admin handler changes a row, bumps the version, and refreshes the    *)
(* cache of its own replica; the poller of every replica compares the      *)
(* version with the one it saw last and reloads.  A load reads the rows    *)
(* first and takes the cache's lock afterwards, so that the handlers and   *)
(* the poller of one replica interleave between its read and its write.    *)
(***************************************************************************)
EXTENDS Naturals, FiniteSets

CONSTANTS
    Replicas,
    Handlers,       \* admin requests that may be under way at once
    Keys,
    Teams,          \* what a key is assigned to
    Absent,         \* "not in the cache"
    Users,
    Owner,          \* the user a key belongs to, or NoUser
    NoUser,
    ScimUsers,      \* the users that SCIM deactivates or reactivates
    MaxVersion,     \* bound of the model: version bumps
    MaxMishaps      \* bound of the model: failing calls, crashes, SCIM updates

ASSUME KeyCacheAssumption ==
    /\ Absent \notin Teams
    /\ Owner \in [Keys -> Users \cup {NoUser}]
    /\ NoUser \notin Users
    /\ ScimUsers \subseteq Users
    /\ {MaxVersion, MaxMishaps} \subseteq Nat

VARIABLES
    row,       \* virtual_keys: state and team of every key
    active,    \* users.active
    version,   \* cache_version.version
    up,        \* replicas that serve requests
    cache,     \* KeyCache.inner of every replica
    seen,      \* GatewayState.cache_version of every replica
    poll,      \* the poller of every replica, or its start-up
    task,      \* the locals of the admin handlers, in whatever replica
    mishaps,   \* what MaxMishaps counts
    dead,      \* history: keys ended before the replica was last started
    behind     \* history: replicas whose cache may be out of date, see Synced

vars == <<row, active, version, up, cache, seen, poll, task, mishaps, dead,
          behind>>

dbVars == <<row, active, version>>

View == [Keys -> Teams \cup {Absent}]
NoView == [k \in Keys |-> Absent]
Row == [state : {"new", "active", "revoked", "deleted"}, team : Teams]

Poll == [pc : {"idle", "read", "write"}, snap : View]
NoTask == [pc |-> "idle"]
Task == {NoTask} \cup
        [pc : {"bump", "insert", "read", "write"}, at : Replicas, key : Keys,
         next : {"insert", "read"}, snap : View]

\* Operators named ...Faulty are variants of the definition that follows, with
\* a mistake that code could well contain; no specification uses them.

\* Faulty: revoked rows are loaded too.
ValidFaulty(k) ==
    row[k].state \in {"active", "revoked"} /\ (Owner[k] = NoUser \/ active[Owner[k]])

\* get_active_keys(): active rows whose owner, if any, is active.
Valid(k) == row[k].state = "active" /\ (Owner[k] = NoUser \/ active[Owner[k]])
ActiveKeys == [k \in Keys |-> IF Valid(k) THEN row[k].team ELSE Absent]

Ended(k) == row[k].state \in {"revoked", "deleted"}

Quiet == [pc |-> "idle", snap |-> NoView]

\* Replicas that have come up with the keys there were.
Init ==
    /\ row \in [Keys -> [state : {"new", "active"}, team : Teams]]
    /\ active = [u \in Users |-> TRUE]
    /\ version = 0
    /\ up = Replicas
    /\ cache = [r \in Replicas |-> ActiveKeys]
    /\ seen = [r \in Replicas |-> 0]
    /\ poll = [r \in Replicas |-> Quiet]
    /\ task = [h \in Handlers |-> NoTask]
    /\ mishaps = 0
    /\ dead = [r \in Replicas |-> {}]
    /\ behind = {}

-----------------------------------------------------------------------------
(* Admin handlers: create_key, revoke_key, update_key, delete_key.  Any      *)
(* number of them run at once, in one replica or in several.                 *)

\* The bumps still to come from rows already changed.
Unbumped == {h \in Handlers : task[h].pc = "bump"}
MayChange == version + Cardinality(Unbumped) < MaxVersion

\* The row changes in one statement; the handler goes on with the bump.  A
\* replica that is starting may have loaded the keys before.
Change(h, r, k, new, next, snap) ==
    /\ r \in up
    /\ task[h] = NoTask
    /\ MayChange
    /\ row' = [row EXCEPT ![k] = new]
    /\ task' = [task EXCEPT ![h] = [pc |-> "bump", at |-> r, key |-> k,
                                    next |-> next, snap |-> snap]]
    /\ behind' = behind \cup (Replicas \ up)
    /\ UNCHANGED <<active, version, up, cache, seen, poll, mishaps, dead>>

CreateKey(h, r, k) ==
    /\ row[k].state = "new"
    /\ Change(h, r, k, [row[k] EXCEPT !.state = "active"], "insert",
              [NoView EXCEPT ![k] = row[k].team])

\* is_active = false, whether or not it was before.
RevokeKey(h, r, k) ==
    /\ row[k].state \in {"active", "revoked"}
    /\ Change(h, r, k, [row[k] EXCEPT !.state = "revoked"], "read", NoView)

DeleteKey(h, r, k) ==
    /\ row[k].state \in {"active", "revoked"}
    /\ Change(h, r, k, [row[k] EXCEPT !.state = "deleted"], "read", NoView)

UpdateKey(h, r, k, t) ==
    /\ row[k].state \in {"active", "revoked"}
    /\ Change(h, r, k, [row[k] EXCEPT !.team = t], "read", NoView)

Bump(h) ==
    /\ task[h].pc = "bump"
    /\ version' = version + 1
    /\ task' = [task EXCEPT ![h].pc = task[h].next]
    /\ UNCHANGED <<row, active, up, cache, seen, poll, mishaps, dead, behind>>

\* create_key() adds the new key as the INSERT returned it, which another
\* handler may have changed since.
Insert(h) ==
    /\ task[h].pc = "insert"
    /\ LET r == task[h].at
           k == task[h].key
       IN  /\ cache' = [cache EXCEPT ![r][k] = task[h].snap[k]]
           /\ behind' = IF task[h].snap[k] = ActiveKeys[k] THEN behind ELSE behind \cup {r}
    /\ task' = [task EXCEPT ![h] = NoTask]
    /\ UNCHANGED <<dbVars, up, seen, poll, mishaps, dead>>

\* The others call load_from_db(): rows first, ...
TaskRead(h) ==
    /\ task[h].pc = "read"
    /\ task' = [task EXCEPT ![h] = [@ EXCEPT !.pc = "write", !.snap = ActiveKeys]]
    /\ UNCHANGED <<dbVars, up, cache, seen, poll, mishaps, dead, behind>>

\* ... then the map is cleared and filled, with rows that may have changed.
TaskWrite(h) ==
    /\ task[h].pc = "write"
    /\ cache' = [cache EXCEPT ![task[h].at] = task[h].snap]
    /\ behind' = IF task[h].snap = ActiveKeys THEN behind ELSE behind \cup {task[h].at}
    /\ task' = [task EXCEPT ![h] = NoTask]
    /\ UNCHANGED <<dbVars, up, seen, poll, mishaps, dead>>

\* The bump fails: the handler answers with an error, the row stays changed.
BumpFault(h) ==
    /\ task[h].pc = "bump"
    /\ mishaps < MaxMishaps
    /\ mishaps' = mishaps + 1
    /\ task' = [task EXCEPT ![h] = NoTask]
    /\ behind' = Replicas
    /\ UNCHANGED <<dbVars, up, cache, seen, poll, dead>>

\* A query of the load fails: logged, and the answer is a success.
TaskFault(h) ==
    /\ task[h].pc = "read"
    /\ mishaps < MaxMishaps
    /\ mishaps' = mishaps + 1
    /\ task' = [task EXCEPT ![h] = NoTask]
    /\ UNCHANGED <<dbVars, up, cache, seen, poll, dead, behind>>

-----------------------------------------------------------------------------
(* SCIM: PUT, PATCH and DELETE of a user write users.active only *)

ScimSetActive(u, a) ==
    /\ mishaps < MaxMishaps
    /\ active[u] # a
    /\ active' = [active EXCEPT ![u] = a]
    /\ mishaps' = mishaps + 1
    /\ behind' = Replicas
    /\ UNCHANGED <<row, version, up, cache, seen, poll, task, dead>>

-----------------------------------------------------------------------------
(* The poller, every 5 seconds; a failing version query changes nothing *)

\* Faulty: one change is not news yet.
NewsFaulty(r) == version > seen[r] + 1

News(r) == version > seen[r]

\* The version is stored before anything is reloaded.
PollVersion(r) ==
    /\ r \in up
    /\ poll[r].pc = "idle"
    /\ News(r)
    /\ seen' = [seen EXCEPT ![r] = version]
    /\ poll' = [poll EXCEPT ![r].pc = "read"]
    /\ UNCHANGED <<dbVars, up, cache, task, mishaps, dead, behind>>

PollRead(r) ==
    /\ r \in up
    /\ poll[r].pc = "read"
    /\ poll' = [poll EXCEPT ![r] = [pc |-> "write", snap |-> ActiveKeys]]
    /\ UNCHANGED <<dbVars, up, cache, seen, task, mishaps, dead, behind>>

\* What a load writes is up to date if no row has changed since it read them.
Loaded(r) == behind' = IF poll[r].snap = ActiveKeys THEN behind \ {r} ELSE behind

\* Faulty: the version is read again and stored when the reload is done.
PollWriteFaulty(r) ==
    /\ r \in up
    /\ poll[r].pc = "write"
    /\ cache' = [cache EXCEPT ![r] = poll[r].snap]
    /\ poll' = [poll EXCEPT ![r] = Quiet]
    /\ Loaded(r)
    /\ seen' = [seen EXCEPT ![r] = version]
    /\ UNCHANGED <<dbVars, up, task, mishaps, dead>>

PollWrite(r) ==
    /\ r \in up
    /\ poll[r].pc = "write"
    /\ cache' = [cache EXCEPT ![r] = poll[r].snap]
    /\ poll' = [poll EXCEPT ![r] = Quiet]
    /\ Loaded(r)
    /\ UNCHANGED <<dbVars, up, seen, task, mishaps, dead>>

\* "Failed to reload key cache": the next attempt waits for the next bump.
PollFault(r) ==
    /\ r \in up
    /\ poll[r].pc = "read"
    /\ mishaps < MaxMishaps
    /\ mishaps' = mishaps + 1
    /\ poll' = [poll EXCEPT ![r] = Quiet]
    /\ behind' = behind \cup {r}
    /\ UNCHANGED <<dbVars, up, cache, seen, task, dead>>

-----------------------------------------------------------------------------
(* Crash and start-up of a replica; the load comes before the version *)

Crash(r) ==
    /\ r \in up
    /\ mishaps < MaxMishaps
    /\ mishaps' = mishaps + 1
    /\ up' = up \ {r}
    /\ cache' = [cache EXCEPT ![r] = NoView]
    /\ seen' = [seen EXCEPT ![r] = 0]
    /\ poll' = [poll EXCEPT ![r] = Quiet]
    /\ LET Lost(h) == task[h] # NoTask /\ task[h].at = r
       IN  /\ task' = [h \in Handlers |-> IF Lost(h) THEN NoTask ELSE task[h]]
           /\ behind' = IF \E h \in Unbumped : Lost(h) THEN Replicas ELSE behind
    /\ UNCHANGED <<dbVars, dead>>

\* A failing load ends the process, which is started again.
BootRead(r) ==
    /\ r \notin up
    /\ poll[r].pc = "idle"
    /\ poll' = [poll EXCEPT ![r] = [pc |-> "write", snap |-> ActiveKeys]]
    /\ dead' = [dead EXCEPT ![r] = {k \in Keys : Ended(k)}]
    /\ UNCHANGED <<dbVars, up, cache, seen, task, mishaps, behind>>

BootWrite(r) ==
    /\ r \notin up
    /\ poll[r].pc = "write"
    /\ cache' = [cache EXCEPT ![r] = poll[r].snap]
    /\ poll' = [poll EXCEPT ![r] = [pc |-> "read", snap |-> NoView]]
    /\ Loaded(r)
    /\ UNCHANGED <<dbVars, up, seen, task, mishaps, dead>>

BootVersion(r) ==
    /\ r \notin up
    /\ poll[r].pc = "read"
    /\ seen' = [seen EXCEPT ![r] = version]
    /\ poll' = [poll EXCEPT ![r] = Quiet]
    /\ up' = up \cup {r}
    /\ UNCHANGED <<dbVars, cache, task, mishaps, dead, behind>>

\* "if let Ok(v)": without an answer the replica starts with version 0.
BootVersionFault(r) ==
    /\ r \notin up
    /\ poll[r].pc = "read"
    /\ poll' = [poll EXCEPT ![r] = Quiet]
    /\ up' = up \cup {r}
    /\ UNCHANGED <<dbVars, cache, seen, task, mishaps, dead, behind>>

-----------------------------------------------------------------------------

Admin(h) ==
    \E r \in Replicas, k \in Keys :
        \/ CreateKey(h, r, k)
        \/ RevokeKey(h, r, k)
        \/ DeleteKey(h, r, k)
        \/ \E t \in Teams : UpdateKey(h, r, k, t)

TaskStep(h) == Bump(h) \/ Insert(h) \/ TaskRead(h) \/ TaskWrite(h)
PollStep(r) == PollVersion(r) \/ PollRead(r) \/ PollWrite(r)
BootStep(r) == BootRead(r) \/ BootWrite(r) \/ BootVersion(r)

Next ==
    \/ \E h \in Handlers : Admin(h) \/ TaskStep(h) \/ BumpFault(h) \/ TaskFault(h)
    \/ \E r \in Replicas :
          \/ PollStep(r)
          \/ PollFault(r)
          \/ Crash(r)
          \/ BootStep(r)
          \/ BootVersionFault(r)
    \/ \E u \in ScimUsers, a \in BOOLEAN : ScimSetActive(u, a)

Spec == Init /\ [][Next]_vars

\* Handlers that have begun run on, the poll loop is a tokio interval, and the
\* service scheduler starts a stopped replica again.
Fairness ==
    /\ \A h \in Handlers : WF_vars(TaskStep(h))
    /\ \A r \in Replicas : WF_vars(PollStep(r)) /\ WF_vars(BootStep(r))

FairSpec == Spec /\ Fairness

-----------------------------------------------------------------------------
(* Properties *)

TypeOK ==
    /\ row \in [Keys -> Row]
    /\ active \in [Users -> BOOLEAN]
    /\ version \in Nat
    /\ up \subseteq Replicas
    /\ cache \in [Replicas -> View]
    /\ seen \in [Replicas -> 0..version]
    /\ poll \in [Replicas -> Poll]
    /\ task \in [Handlers -> Task]
    /\ dead \in [Replicas -> SUBSET Keys]
    /\ behind \subseteq Replicas

\* A restart is a clean start: a key revoked or deleted before a replica came
\* up is never accepted by it (main.rs:132, auth/mod.rs:43), whatever loads are
\* under way, with failing queries and SCIM.
RestartForgets == \A r \in Replicas, k \in Keys : k \in dead[r] => cache[r][k] = Absent

\* What the version counter is for: a replica whose poller rests after it has
\* seen the newest version, with no bump outstanding, accepts exactly the keys
\* of the table.  There are five ways to stay out of step, and no others; a
\* replica is behind, until its next load of the newest rows, if
\*   - a handler of its own has written rows, or a created key, that another
\*     handler had changed since they were read (auth/mod.rs:48);
\*   - a bump has failed, or was lost with its replica (db/settings.rs:26);
\*   - its own reload has failed after the version was stored (main.rs:1068);
\*   - a row changed while it was starting (main.rs:133, 179);
\*   - SCIM has changed a user, which bumps nothing (scim/users.rs:375).
\* A handler's load that fails, a poller's that is overtaken and changes through
\* any other replica are not among them.
Synced(r) == cache[r] = ActiveKeys \/ r \in behind

SyncedWhenSeen ==
    \A r \in up :
        poll[r].pc = "idle" /\ Unbumped = {} /\ seen[r] = version => Synced(r)

\* docs/authentication.md:77: "other instances pick up the change".  Changes
\* are finitely many, so in the end every cache equals the table for good, but
\* for the replicas that are behind for one of the reasons above.
Converges == <>[](\A r \in Replicas : r \in up /\ Synced(r))
=============================================================================
