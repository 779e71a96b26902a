------------------------------ MODULE Catalog ------------------------------
(***************************************************************************)
(* What every replica keeps a copy of besides keys and endpoints: the      *)
(* settings (proxy_settings), the model mappings (model_mappings) and the  *)
(* application inference profiles of an endpoint                           *)
(* (endpoint_aip_overrides).  A change is a row, then an increment of      *)
(* cache_version, then, for a setting, the copy of the replica that made   *)
(* it; the poll loop (start_cache_poll_loop() in main.rs) takes the        *)
(* version first and reads the tables after it, and a start reads the      *)
(* settings before it.                                                     *)
(***************************************************************************)
EXTENDS Integers, FiniteSets

CONSTANTS
    Replicas,
    SettingValues,   \* of a setting; Default is the one in the code
    Default,
    ModelNames,      \* what may be asked for
    Seeds,           \* names with a mapping in the embedded file
    Legacy,          \* the model of the endpoint's inference_profile_arn, or Nobody
    Nobody,
    Editors,         \* administrators and requests that change something
    MaxEdits,        \* bound of the model
    MaxFaults,       \* bound of the model: statements that fail
    MaxStops         \* bound of the model: replicas that stop

ASSUME CatalogAssumption ==
    /\ Default \in SettingValues /\ Seeds \subseteq ModelNames
    /\ Legacy \in ModelNames \cup {Nobody}
    /\ {MaxEdits, MaxFaults, MaxStops} \subseteq Nat

VARIABLES
    db,         \* the tables: "flags", a setting; "mappings" and "aips", names
    version,    \* cache_version
    mem,        \* per replica: its copies
    life,       \* per replica: "down", the next step of its start or of its
                \* reload, or "up"
    seen,       \* per replica: the version in memory
    began,      \* per replica: the version when its start read the settings
    migrating,  \* replicas that are about to insert the legacy row
    editing,    \* what each editor is doing
    astray,     \* history: <<r, t>> when r's copy of t may stay different
    editCount, faults, stops

catalogVars == <<db, version, mem, life, seen, began, migrating, editing, astray,
                 editCount, faults, stops>>

Tables == {"flags", "mappings", "aips"}
Everyone(t) == Replicas \X {t}
NoEdit == [phase |-> "none"]

Fault == faults < MaxFaults /\ faults' = faults + 1

Started(r) == life[r] \in {"up", "reload mappings", "reload aips", "reload flags"}

Empty == [flags |-> Default, mappings |-> {}, aips |-> {}]

CatalogInit ==
    /\ db \in {[flags |-> Default, mappings |-> M, aips |-> {}] : M \in {{}, Seeds}}
    /\ version = 1
    /\ mem = [r \in Replicas |-> Empty]
    /\ life = [r \in Replicas |-> "down"]
    /\ seen = [r \in Replicas |-> 0] /\ began = [r \in Replicas |-> 0]
    /\ migrating = {}
    /\ editing = [e \in Editors |-> NoEdit]
    /\ astray = {}
    /\ editCount = 0 /\ faults = 0 /\ stops = 0

\* Replicas that have long been started and have read everything.
CatalogInitUp ==
    LET rows == [flags |-> Default, mappings |-> Seeds,
                 aips |-> IF Legacy = Nobody THEN {} ELSE {Legacy}]
    IN  /\ db = rows
        /\ version = 1
        /\ mem = [r \in Replicas |-> rows]
        /\ life = [r \in Replicas |-> "up"]
        /\ seen = [r \in Replicas |-> 1] /\ began = [r \in Replicas |-> 1]
        /\ migrating = {}
        /\ editing = [e \in Editors |-> NoEdit]
        /\ astray = {}
        /\ editCount = 0 /\ faults = 0 /\ stops = 0

\* A table is read into r's copy; a failing query leaves what is there, except
\* that the profiles of an endpoint are taken to be none when it is theirs.
Load(r, t) ==
    \/ /\ mem' = [mem EXCEPT ![r][t] = db[t]]
       /\ UNCHANGED <<astray, faults>>
    \/ /\ Fault
       /\ \/ UNCHANGED mem
          \/ t = "aips" /\ mem' = [mem EXCEPT ![r][t] = {}]
       /\ astray' = astray \cup {<<r, t>>}

-----------------------------------------------------------------------------
(* The start of a replica: main() *)

StartFlags(r) ==
    /\ life[r] = "down"
    /\ Load(r, "flags")
    /\ life' = [life EXCEPT ![r] = "version"]
    /\ began' = [began EXCEPT ![r] = version]
    /\ UNCHANGED <<db, version, seen, migrating, editing, editCount, stops>>

\* A change of the settings that came between is not reloaded.
StartVersion(r) ==
    /\ life[r] = "version"
    /\ life' = [life EXCEPT ![r] = "mappings"]
    /\ \/ /\ seen' = [seen EXCEPT ![r] = version]
          /\ astray' = IF version = began[r] THEN astray
                       ELSE astray \cup {<<r, "flags">>}
          /\ UNCHANGED faults
       \/ Fault /\ UNCHANGED <<seen, astray>>
    /\ UNCHANGED <<db, version, mem, began, migrating, editing, editCount, stops>>

StartMappings(r) ==
    /\ life[r] = "mappings"
    /\ Load(r, "mappings")
    /\ life' = [life EXCEPT ![r] = "seed"]
    /\ UNCHANGED <<db, version, seen, began, migrating, editing, editCount, stops>>

\* seed_missing(): a transaction, ...
Seed(r) ==
    /\ life[r] = "seed"
    /\ \/ /\ db' = [db EXCEPT !["mappings"] = @ \cup Seeds]
          /\ life' = [life EXCEPT ![r] =
                        IF Seeds \subseteq db["mappings"] THEN "aips" ELSE "seeded"]
          /\ UNCHANGED faults
       \/ Fault /\ life' = [life EXCEPT ![r] = "aips"] /\ UNCHANGED db
    /\ UNCHANGED <<version, mem, seen, began, migrating, editing, astray, editCount,
                   stops>>

\* ... the version after it, and the mappings again.
SeedBump(r) ==
    /\ life[r] = "seeded"
    /\ \/ version' = version + 1 /\ Load(r, "mappings")
       \/ /\ Fault
          /\ astray' = astray \cup Everyone("mappings")
          /\ UNCHANGED <<version, mem>>
    /\ life' = [life EXCEPT ![r] = "aips"]
    /\ UNCHANGED <<db, seen, began, migrating, editing, editCount, stops>>

\* The endpoints, with their profiles; the poll loop starts, and
\* migrate_legacy_aip_endpoints() finds an endpoint without a row or with one.
StartAips(r) ==
    /\ life[r] = "aips"
    /\ Load(r, "aips")
    /\ life' = [life EXCEPT ![r] = "up"]
    /\ migrating' = IF Legacy # Nobody /\ db["aips"] = {} THEN migrating \cup {r}
                    ELSE migrating
    /\ UNCHANGED <<db, version, seen, began, editing, editCount, stops>>

\* The row of the legacy profile; the version stays as it is.
Migrate(r) ==
    /\ r \in migrating
    /\ migrating' = migrating \ {r}
    /\ \/ /\ db' = [db EXCEPT !["aips"] = @ \cup {Legacy}]
          /\ astray' = IF Legacy \in db["aips"] THEN astray
                       ELSE astray \cup Everyone("aips")
          /\ UNCHANGED faults
       \/ Fault /\ UNCHANGED <<db, astray>>
    /\ UNCHANGED <<version, mem, life, seen, began, editing, editCount, stops>>

\* A replica stops.  What its handlers had not yet done is not done.
Unannounced(r) == {e \in Editors : editing[e].phase = "bump" /\ editing[e].at = r}

Stop(r) ==
    /\ life[r] # "down" /\ stops < MaxStops
    /\ stops' = stops + 1
    /\ life' = [life EXCEPT ![r] = "down"]
    /\ mem' = [mem EXCEPT ![r] = Empty]
    /\ seen' = [seen EXCEPT ![r] = 0]
    /\ migrating' = migrating \ {r}
    /\ editing' = [e \in Editors |->
         IF editing[e].phase # "none" /\ editing[e].at = r THEN NoEdit ELSE editing[e]]
    /\ astray' = {a \in astray : a[1] # r}
                 \cup (UNION {Everyone(editing[e].table) : e \in Unannounced(r)})
                 \cup (IF life[r] = "seeded" THEN Everyone("mappings") ELSE {})
    /\ UNCHANGED <<db, version, began, editCount, faults>>

-----------------------------------------------------------------------------
(* The poll loop *)

\* The version is taken as seen before anything is read.
Poll(r) ==
    /\ life[r] = "up" /\ version > seen[r]
    /\ seen' = [seen EXCEPT ![r] = version]
    /\ life' = [life EXCEPT ![r] = "reload mappings"]
    /\ astray' = {a \in astray : a[1] # r}
    /\ UNCHANGED <<db, version, mem, began, migrating, editing, editCount, faults,
                   stops>>

ReloadMappings(r) ==
    /\ life[r] = "reload mappings"
    /\ Load(r, "mappings")
    /\ life' = [life EXCEPT ![r] = "reload aips"]
    /\ UNCHANGED <<db, version, seen, began, migrating, editing, editCount, stops>>

ReloadAips(r) ==
    /\ life[r] = "reload aips"
    /\ Load(r, "aips")
    /\ life' = [life EXCEPT ![r] = "reload flags"]
    /\ UNCHANGED <<db, version, seen, began, migrating, editing, editCount, stops>>

\* Faulty: the version is taken as seen in the end.
ReloadFlagsFaulty(r) ==
    /\ life[r] = "reload flags"
    /\ Load(r, "flags")
    /\ life' = [life EXCEPT ![r] = "up"]
    /\ seen' = [seen EXCEPT ![r] = version]
    /\ UNCHANGED <<db, version, began, migrating, editing, editCount, stops>>

ReloadFlags(r) ==
    /\ life[r] = "reload flags"
    /\ Load(r, "flags")
    /\ life' = [life EXCEPT ![r] = "up"]
    /\ UNCHANGED <<db, version, seen, began, migrating, editing, editCount, stops>>

-----------------------------------------------------------------------------
(* Changes *)

Begins(e) == editing[e] = NoEdit /\ editCount < MaxEdits /\ editCount' = editCount + 1

SettingEdits == {e \in Editors : editing[e].phase # "none" /\ editing[e].table = "flags"}

Overtaken == [e \in Editors |-> IF e \in SettingEdits
                                THEN [editing[e] EXCEPT !.overtaken = TRUE]
                                ELSE editing[e]]

Edit(phase, r, t, value, overtaken) ==
    [phase |-> phase, at |-> r, table |-> t, value |-> value, overtaken |-> overtaken]

\* update_setting(): set_setting() writes the row, ...
WriteSetting(e, r, v) ==
    /\ Begins(e) /\ Started(r)
    /\ db' = [db EXCEPT !["flags"] = v]
    /\ editing' = [Overtaken EXCEPT ![e] = Edit("bump", r, "flags", v,
                                                SettingEdits # {})]
    /\ UNCHANGED <<version, mem, life, seen, began, migrating, astray, faults, stops>>

\* ... increments the version, or answers an error, ...
Bump(e) ==
    /\ editing[e].phase = "bump"
    /\ \/ /\ version' = version + 1
          /\ editing' = [editing EXCEPT ![e] = IF @.table = "flags"
                                               THEN [@ EXCEPT !.phase = "store"]
                                               ELSE NoEdit]
          /\ UNCHANGED <<astray, faults>>
       \/ /\ Fault
          /\ astray' = astray \cup Everyone(editing[e].table)
          /\ editing' = [editing EXCEPT ![e] = NoEdit]
          /\ UNCHANGED version
    /\ UNCHANGED <<db, mem, life, seen, began, migrating, editCount, stops>>

\* ... and update_setting() changes the copy of its replica.
StoreSetting(e) ==
    LET edit == editing[e]
    IN  /\ edit.phase = "store"
        /\ mem' = [mem EXCEPT ![edit.at]["flags"] = edit.value]
        /\ astray' = IF edit.overtaken THEN astray \cup {<<edit.at, "flags">>}
                     ELSE astray
        /\ editing' = [editing EXCEPT ![e] = NoEdit]
        /\ UNCHANGED <<db, version, life, seen, began, migrating, editCount, faults,
                       stops>>

\* Discovery in handlers.rs: the replica's own copy comes first, ...
LearnMapping(e, r, m) ==
    /\ Begins(e) /\ Started(r) /\ m \notin mem[r]["mappings"]
    /\ mem' = [mem EXCEPT ![r]["mappings"] = @ \cup {m}]
    /\ editing' = [editing EXCEPT ![e] = Edit("upsert", r, "mappings", m, FALSE)]
    /\ UNCHANGED <<db, version, life, seen, began, migrating, astray, faults, stops>>

\* ... upsert_mapping() after it.
UpsertMapping(e) ==
    /\ editing[e].phase = "upsert"
    /\ \/ /\ db' = [db EXCEPT !["mappings"] = @ \cup {editing[e].value}]
          /\ editing' = [editing EXCEPT ![e].phase = "bump"]
          /\ UNCHANGED <<astray, faults>>
       \/ /\ Fault
          /\ astray' = astray \cup {<<editing[e].at, "mappings">>}
          /\ editing' = [editing EXCEPT ![e] = NoEdit]
          /\ UNCHANGED db
    /\ UNCHANGED <<version, mem, life, seen, began, migrating, editCount, stops>>

\* The row of an override has changed: the version follows, whose failure is not
\* reported; the replica's own copy waits for the poll loop.
ChangeAips(e, r, m, names) ==
    /\ Begins(e) /\ Started(r)
    /\ db' = [db EXCEPT !["aips"] = names]
    /\ editing' = [editing EXCEPT ![e] = Edit("bump", r, "aips", m, FALSE)]
    /\ UNCHANGED <<version, mem, life, seen, began, migrating, astray, faults, stops>>

\* create_aip_override(): a second row for the model is refused.
CreateAip(e, r, m) == m \notin db["aips"] /\ ChangeAips(e, r, m, db["aips"] \cup {m})

\* delete_aip_override()
DeleteAip(e, r, m) == m \in db["aips"] /\ ChangeAips(e, r, m, db["aips"] \ {m})

\* A handler that has changed an endpoint, whose increment came with the row,
\* loads the endpoints of its replica as the poll loop does, profiles included:
ChangeEndpoint(e, r) ==
    /\ Begins(e) /\ Started(r)
    /\ version' = version + 1
    /\ editing' = [editing EXCEPT ![e] = Edit("list", r, "aips", {}, FALSE)]
    /\ UNCHANGED <<db, mem, life, seen, began, migrating, astray, faults, stops>>

\* it reads them; a failed listing of the endpoints leaves the copies alone, ...
ReadClients(e) ==
    /\ editing[e].phase = "list"
    /\ \/ /\ editing' = [editing EXCEPT ![e].phase = "put", ![e].value = db["aips"]]
          /\ UNCHANGED faults
       \/ Fault /\ \/ editing' = [editing EXCEPT ![e].phase = "put"]
                   \/ editing' = [editing EXCEPT ![e] = NoEdit]
    /\ UNCHANGED <<db, version, mem, life, seen, began, migrating, astray, editCount,
                   stops>>

\* ... and puts the new clients in place of those that are there.
PutClients(e) ==
    LET edit == editing[e]
    IN  /\ edit.phase = "put"
        /\ mem' = [mem EXCEPT ![edit.at]["aips"] = edit.value]
        /\ astray' = IF edit.value = db["aips"] THEN astray
                     ELSE astray \cup {<<edit.at, "aips">>}
        /\ editing' = [editing EXCEPT ![e] = NoEdit]
        /\ UNCHANGED <<db, version, life, seen, began, migrating, editCount, faults,
                       stops>>

-----------------------------------------------------------------------------

ReplicaNext(r) ==
    \/ StartFlags(r) \/ StartVersion(r) \/ StartMappings(r)
    \/ Seed(r) \/ SeedBump(r) \/ StartAips(r) \/ Migrate(r) \/ Stop(r)
    \/ Poll(r) \/ ReloadMappings(r) \/ ReloadAips(r) \/ ReloadFlags(r)

EditorNext(e) ==
    \/ \E r \in Replicas :
          \/ ChangeEndpoint(e, r)
          \/ \E v \in SettingValues : WriteSetting(e, r, v)
          \/ \E m \in ModelNames :
                LearnMapping(e, r, m) \/ CreateAip(e, r, m) \/ DeleteAip(e, r, m)
    \/ Bump(e) \/ StoreSetting(e) \/ UpsertMapping(e) \/ ReadClients(e) \/ PutClients(e)

CatalogNext ==
    \/ \E r \in Replicas : ReplicaNext(r)
    \/ \E e \in Editors : EditorNext(e)

CatalogSpec == CatalogInit /\ [][CatalogNext]_catalogVars

-----------------------------------------------------------------------------

\* resolve_dispatch_target(): which model's profile serves a request for m, or
\* Nobody for the one that the mapping names.
Target(aips, m) == IF m \in aips THEN m
                   ELSE IF aips = {} THEN Legacy ELSE Nobody

\* No row is there whose increment is still to come.
Settled ==
    /\ \A e \in Editors : editing[e] = NoEdit
    /\ migrating = {}
    /\ \A r \in Replicas : life[r] # "seeded"

\* A replica that has seen the version, while nothing is under way, has the
\* settings and the mappings of the tables, and sends a request for a model to
\* the profile that the rows say; except for what is `astray`: a copy whose
\* query failed, whose increment failed or was lost in a crash, a setting stored
\* by an update that another overlapped or read by a start that a change
\* overtook, profiles put in place by an endpoint handler that had read them before
\* a change, and a row the migration inserted without an increment.
ReplicasAgree ==
    \A r \in Replicas :
        Settled /\ life[r] = "up" /\ seen[r] = version =>
            /\ <<r, "flags">> \notin astray => mem[r]["flags"] = db["flags"]
            /\ <<r, "mappings">> \notin astray => mem[r]["mappings"] = db["mappings"]
            /\ <<r, "aips">> \notin astray =>
                  \A m \in ModelNames :
                      Target(mem[r]["aips"], m) = Target(db["aips"], m)
=============================================================================
