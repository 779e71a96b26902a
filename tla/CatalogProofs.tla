---------------------------- MODULE CatalogProofs ----------------------------
(***************************************************************************)
(* Proofs about what administrators edit: the owners of keys and the       *)
(* default budget (Organisation), the providers of the web search          *)
(* (WebSearch), the copies that the replicas make of the tables (Catalog), *)
(* the prices of models (Pricing) and the figures of the dashboards        *)
(* (Analytics), for any number of requests, rows, replicas, lines of a     *)
(* price list and changes between two statements of a page.                *)
(***************************************************************************)
EXTENDS Catalog, Organisation, WebSearch, Pricing, Analytics, FiniteSetTheorems,
        WellFoundedInduction, TLAPS

-----------------------------------------------------------------------------
(* Owners of keys and the default budget *)

KeyRow == [user : Staff \cup {Null}, team : Teams \cup {Null}]
NewRow == [user : Staff \cup {Null, "absent"}, team : Teams \cup {Null, "absent"}]
Budgets == [Fields -> Sums \cup {Null}]

Creation == [kind : {"create"}, key : VirtualKeys, user : Staff \cup {Null},
             given : Teams \cup {Null, "absent"}, team : Teams \cup {Null}]
Update == [kind : {"update"}, key : VirtualKeys, new : NewRow, row : KeyRow]
DefaultUpdate == [kind : {"default"}, key : {Null}, new : Budgets,
                  left : SUBSET Fields]
Task == {NoTask} \cup Creation \cup Update \cup DefaultUpdate

HalfRead == [phase : {"policy"}, amount : Sums \cup {Null}, policy : {Null},
             failed : {{}}, disturbed : BOOLEAN]
FullyRead == [phase : {"done"}, amount : Sums \cup {Null}, policy : Sums \cup {Null},
            failed : SUBSET Fields, disturbed : BOOLEAN]
Reader == {NoReader} \cup HalfRead \cup FullyRead

OrganisationOK ==
    /\ staff \in [Staff -> [team : Teams \cup {Null}, limit : Sums \cup {Null}]]
    /\ keyRows \in [VirtualKeys -> KeyRow \cup {Null}]
    /\ default \in Budgets
    /\ managers \in [Managers -> Task]
    /\ readers \in [Readers -> Reader]
    /\ asked.keys = [k \in VirtualKeys |-> asked.keys[k]]
    /\ asked = [keys |-> asked.keys, default |-> asked.default]

\* Requests that are making key k
Creating(k) == {m \in Managers : managers[m].kind = "create" /\ managers[m].key = k}

\* A key that is being made is not there, and nobody else deals with it; the
\* team of its owner is what it was.  A key that is not mixed is as asked for,
\* and one request at most is about to write what it has read.
KeyKept(k) ==
    /\ k \notin mixed => keyRows[k] = asked.keys[k]
    /\ \A m \in Creating(k) :
          /\ keyRows[k] = Null
          /\ \A n \in Creating(k) \cup Updating(k) : n = m
          /\ k \notin mixed =>
                managers[m].team = Given(managers[m].given, TeamOf(managers[m].user))
    /\ \A m \in Updating(k) :
          keyRows[k] # Null /\ k \notin mixed =>
            /\ managers[m].row = FilledIn(managers[m].new, keyRows[k])
            /\ \A n \in Updating(k) : n = m

\* The default budget: of at most one request, or as asked for.
DefaultKept ==
    /\ \A m \in Setting : managers[m].left # {}
    /\ "default" \notin mixed =>
          /\ Setting = {} => default = asked.default
          /\ \A m \in Setting :
                /\ \A n \in Setting : n = m
                /\ asked.default = managers[m].new
                /\ \A f \in Fields \ managers[m].left : default[f] = managers[m].new[f]

\* What a reader has got so far, if no request came in between.
ReadKept(q) ==
    readers[q] # NoReader /\ ~readers[q].disturbed =>
      /\ Setting = {}
      /\ "default" \notin mixed =>
            /\ readers[q].amount =
                  IF "amount" \in readers[q].failed THEN Null ELSE default["amount"]
            /\ readers[q].phase = "done" /\ readers[q].amount # Null =>
                  readers[q].policy =
                    IF "policy" \in readers[q].failed THEN Null ELSE default["policy"]

\* The inductive invariant
OrganisationInv ==
    /\ OrganisationOK
    /\ \A k \in VirtualKeys : KeyKept(k)
    /\ DefaultKept
    /\ \A q \in Readers : ReadKept(q)

LEMMA KeptInit == OrganisationInit => OrganisationInv
  <1> SUFFICES ASSUME OrganisationInit PROVE OrganisationInv
    OBVIOUS
  <1>1. OrganisationOK
    BY DEF OrganisationInit, OrganisationOK, Task, Reader, Budgets
  <1>2. \A m \in Managers : managers[m].kind = "none"
    BY DEF OrganisationInit, NoTask
  <1>3. ASSUME NEW k \in VirtualKeys PROVE KeyKept(k)
    BY <1>2 DEF OrganisationInit, KeyKept, Creating, Updating
  <1>4. DefaultKept
    BY <1>2 DEF OrganisationInit, DefaultKept, Setting
  <1>5. ASSUME NEW q \in Readers PROVE ReadKept(q)
    BY DEF OrganisationInit, ReadKept
  <1> QED BY <1>1, <1>3, <1>4, <1>5 DEF OrganisationInv

\* The requests about the default budget, and what they read and write, are as
\* they were when a step is about something else.
LEMMA DefaultStill ==
    ASSUME OrganisationInv, UNCHANGED <<default, readers, asked.default>>,
           Setting' = Setting, \A m \in Setting : managers'[m] = managers[m],
           "default" \in mixed => "default" \in mixed'
    PROVE  DefaultKept' /\ \A q \in Readers : ReadKept(q)'
  <1>1. DefaultKept'
    BY DEF OrganisationInv, DefaultKept
  <1>2. ASSUME NEW q \in Readers PROVE ReadKept(q)'
    BY DEF OrganisationInv, ReadKept
  <1> QED BY <1>1, <1>2

\* The same of a key.
LEMMA KeyStill ==
    ASSUME NEW k \in VirtualKeys, KeyKept(k), keyRows'[k] = keyRows[k],
           asked'.keys[k] = asked.keys[k], k \in mixed => k \in mixed',
           Creating(k)' = Creating(k), Updating(k)' = Updating(k),
           \A m \in Creating(k) \cup Updating(k) : managers'[m] = managers[m],
           \A m \in Creating(k) :
              k \notin mixed' => TeamOf(managers[m].user)' = TeamOf(managers[m].user)
    PROVE  KeyKept(k)'
  BY DEF KeyKept

-----------------------------------------------------------------------------
(* Teams and users *)

LEMMA KeptTeams == OrganisationInv /\ TeamNext => OrganisationInv'
  <1> SUFFICES ASSUME OrganisationInv, TeamNext PROVE OrganisationInv'
    OBVIOUS
  <1>1. UNCHANGED <<keyRows, default, managers, readers, asked>>
    BY DEF TeamNext, CreateTeam, DeleteTeam, UpdateTeamBudget, UpdateSpendLimit,
           MoveUser
  <1>2. /\ Setting' = Setting
        /\ \A k : Creating(k)' = Creating(k) /\ Updating(k)' = Updating(k)
    BY <1>1 DEF Setting, Creating, Updating
  <1>3. /\ mixed \subseteq mixed'
        /\ staff' \in [Staff -> [team : Teams \cup {Null}, limit : Sums \cup {Null}]]
        /\ \A m \in Managers : managers[m].kind = "create" /\ managers[m].key \notin mixed' =>
              TeamOf(managers[m].user)' = TeamOf(managers[m].user)
    <2>1. CASE UNCHANGED <<staff, mixed>>
      BY <1>1, <2>1 DEF OrganisationInv, OrganisationOK, TeamOf
    <2>2. CASE \E u \in Staff, sum \in Sums \cup {Null} : UpdateSpendLimit(u, sum)
      BY <1>1, <2>2 DEF OrganisationInv, OrganisationOK, TeamOf, UpdateSpendLimit
    <2>3. CASE \E u \in Staff, t \in Teams \cup {Null} : MoveUser(u, t)
      <3> PICK u \in Staff, t \in Teams \cup {Null} : MoveUser(u, t)
        BY <2>3
      <3>1. staff' = [staff EXCEPT ![u].team = t] /\ mixed' = mixed \cup MadeFor(u)
        BY DEF MoveUser
      <3>2. \A v \in Staff : v # u => staff'[v] = staff[v]
        BY <3>1 DEF OrganisationInv, OrganisationOK
      <3>3. ASSUME NEW m \in Managers, managers[m].kind = "create",
                   managers[m].key \notin mixed'
            PROVE  TeamOf(managers[m].user)' = TeamOf(managers[m].user)
        <4>1. managers[m].user # u
          BY <3>1, <3>3 DEF MadeFor
        <4>2. managers[m].user \in Staff \cup {Null}
          BY <3>3 DEF OrganisationInv, OrganisationOK, Task, NoTask, Creation, Update,
                      DefaultUpdate
        <4> QED BY <1>1, <4>1, <4>2, <3>2 DEF TeamOf
      <3>4. staff' \in [Staff -> [team : Teams \cup {Null}, limit : Sums \cup {Null}]]
        BY <3>1 DEF OrganisationInv, OrganisationOK
      <3> QED BY <3>1, <3>3, <3>4
    <2> QED
      BY <2>1, <2>2, <2>3 DEF TeamNext, CreateTeam, DeleteTeam, UpdateTeamBudget
  <1>4. OrganisationOK'
    BY <1>1, <1>3 DEF OrganisationInv, OrganisationOK
  <1>5. DefaultKept' /\ \A q \in Readers : ReadKept(q)'
    BY <1>1, <1>2, <1>3, DefaultStill
  <1>6. ASSUME NEW k \in VirtualKeys PROVE KeyKept(k)'
    <2>1. \A m \in Creating(k) :
             k \notin mixed' => TeamOf(managers[m].user)' = TeamOf(managers[m].user)
      BY <1>3 DEF Creating
    <2> QED BY <1>1, <1>2, <1>3, <2>1, KeyStill DEF OrganisationInv
  <1> QED BY <1>4, <1>5, <1>6 DEF OrganisationInv

-----------------------------------------------------------------------------
(* Keys *)

LEMMA Tasks ==
    ASSUME OrganisationOK, NEW m \in Managers
    PROVE  /\ managers[m].kind = "none" => managers[m] = NoTask
           /\ managers[m].kind = "create" => managers[m] \in Creation
           /\ managers[m].kind = "update" => managers[m] \in Update
           /\ managers[m].kind = "default" => managers[m] \in DefaultUpdate
           /\ managers[m].kind \in {"none", "create", "update", "default"}
  BY DEF OrganisationOK, Task, NoTask, Creation, Update, DefaultUpdate

\* A request about keys begins or ends: those about others, and the default
\* budget, are as they were.
LEMMA OneTask ==
    ASSUME OrganisationInv, NEW m \in Managers, NEW task \in Task,
           managers' = [managers EXCEPT ![m] = task],
           managers[m].kind # "default", task.kind # "default",
           UNCHANGED <<staff, default, readers>>, UNCHANGED asked.default,
           mixed \subseteq mixed',
           keyRows' \in [VirtualKeys -> KeyRow \cup {Null}],
           asked'.keys = [k \in VirtualKeys |-> asked'.keys[k]],
           asked' = [keys |-> asked'.keys, default |-> asked'.default],
           NEW x \in VirtualKeys, KeyKept(x)',
           managers[m].kind = "none" \/ managers[m].key = x,
           task.kind = "none" \/ task.key = x,
           \A k \in VirtualKeys \ {x} : /\ keyRows'[k] = keyRows[k]
                                        /\ asked'.keys[k] = asked.keys[k]
    PROVE  OrganisationInv'
  <1>1. \A n \in Managers : n # m => managers'[n] = managers[n]
    BY DEF OrganisationInv, OrganisationOK
  <1>2. managers'[m] = task
    BY DEF OrganisationInv, OrganisationOK
  <1>3. OrganisationOK'
    BY DEF OrganisationInv, OrganisationOK
  <1>4. Setting' = Setting /\ m \notin Setting
    BY <1>1, <1>2 DEF Setting
  <1>5. DefaultKept' /\ \A q \in Readers : ReadKept(q)'
    BY <1>1, <1>4, DefaultStill DEF Setting
  <1>6. ASSUME NEW k \in VirtualKeys, k # x PROVE KeyKept(k)'
    <2>1. /\ Creating(k)' = Creating(k) /\ Updating(k)' = Updating(k)
          /\ m \notin Creating(k) \cup Updating(k)
      BY <1>1, <1>2, <1>6 DEF Creating, Updating
    <2>2. \A n \in Creating(k) \cup Updating(k) : managers'[n] = managers[n]
      BY <1>1, <2>1 DEF Creating, Updating
    <2>3. \A n \in Creating(k) : TeamOf(managers[n].user)' = TeamOf(managers[n].user)
      BY <2>2 DEF TeamOf
    <2> QED BY <1>6, <2>1, <2>2, <2>3, KeyStill DEF OrganisationInv
  <1> QED BY <1>3, <1>5, <1>6 DEF OrganisationInv

LEMMA KeptBeginCreate ==
    ASSUME OrganisationInv, NEW m \in Managers, NEW k \in VirtualKeys,
           NEW u \in Staff \cup {Null}, NEW t \in Teams \cup {Null, "absent"},
           BeginCreate(m, k, u, t)
    PROVE  OrganisationInv'
  <1> DEFINE New(team) == [kind |-> "create", key |-> k, user |-> u, given |-> t,
                           team |-> team]
  <1>1. PICK team : /\ managers' = [managers EXCEPT ![m] = New(team)]
                    /\ \/ team = Given(t, TeamOf(u)) /\ mixed' = mixed
                       \/ team = Null /\ mixed' = mixed \cup {k}
    BY DEF BeginCreate
  <1>2. UNCHANGED <<staff, keyRows, default, readers, asked>>
        /\ managers[m] = NoTask /\ keyRows[k] = Null
        /\ \A n \in Managers : managers[n].key # k
    BY DEF BeginCreate
  <1>3. TeamOf(u) \in Teams \cup {Null}
    BY DEF TeamOf, OrganisationInv, OrganisationOK
  <1>4. New(team) \in Creation
    BY <1>1, <1>3 DEF Creation, Given
  <1>5. managers'[m] = New(team) /\ \A n \in Managers : n # m => managers'[n] = managers[n]
    BY <1>1 DEF OrganisationInv, OrganisationOK
  <1>6. Creating(k)' = {m} /\ Updating(k)' = {}
    BY <1>2, <1>5 DEF Creating, Updating
  <1>7. KeyKept(k)'
    <2>1. k \notin mixed' => team = Given(t, TeamOf(u))
      BY <1>1
    <2>2. TeamOf(managers[m].user)' = TeamOf(u)
      BY <1>2, <1>5 DEF TeamOf
    <2>3. k \notin mixed' => keyRows'[k] = asked'.keys[k]
      BY <1>1, <1>2 DEF OrganisationInv, KeyKept
    <2> QED BY <1>2, <1>5, <1>6, <2>1, <2>2, <2>3 DEF KeyKept
  <1>8. New(team) \in Task /\ New(team).kind = "create" /\ New(team).key = k
    BY <1>4 DEF Task
  <1> HIDE DEF New
  <1>9. PICK task \in Task : /\ task = New(team)
                             /\ task.kind # "default" /\ task.key = k
    BY <1>8
  <1>10. managers' = [managers EXCEPT ![m] = task] /\ mixed \subseteq mixed'
         /\ managers[m].kind = "none"
    BY <1>1, <1>2, <1>9 DEF NoTask
  <1>11. /\ keyRows' \in [VirtualKeys -> KeyRow \cup {Null}]
         /\ asked'.keys = [j \in VirtualKeys |-> asked'.keys[j]]
         /\ asked' = [keys |-> asked'.keys, default |-> asked'.default]
    BY <1>2 DEF OrganisationInv, OrganisationOK
  <1> QED BY <1>2, <1>7, <1>9, <1>10, <1>11, OneTask

LEMMA KeptInsertKey ==
    ASSUME OrganisationInv, NEW m \in Managers, InsertKey(m)
    PROVE  OrganisationInv'
  <1>1. managers[m] \in Creation
    BY Tasks DEF InsertKey, OrganisationInv
  <1>2. PICK k \in VirtualKeys : k = managers[m].key
    BY <1>1 DEF Creation
  <1>3. PICK task \in Creation : task = managers[m]
    BY <1>1
  <1> DEFINE row == [user |-> task.user, team |-> task.team]
             wish == [user |-> task.user, team |-> Given(task.given, TeamOf(task.user))]
  <1>4. /\ UNCHANGED <<staff, default, readers, mixed>>
        /\ managers' = [managers EXCEPT ![m] = NoTask]
        /\ \/ UNCHANGED <<keyRows, asked>>
           \/ /\ keyRows' = [keyRows EXCEPT ![k] = row]
              /\ asked' = [asked EXCEPT !.keys[k] = wish]
    BY <1>2, <1>3 DEF InsertKey
  <1>5. row \in KeyRow
    BY <1>3 DEF Creation, KeyRow
  <1>6. k \notin mixed => row = wish
    BY <1>2, <1>3 DEF OrganisationInv, KeyKept, Creating, Creation
  <1> HIDE DEF row, wish
  <1>7. /\ keyRows' \in [VirtualKeys -> KeyRow \cup {Null}]
        /\ asked'.keys = [j \in VirtualKeys |-> asked'.keys[j]]
        /\ asked' = [keys |-> asked'.keys, default |-> asked'.default]
        /\ asked'.default = asked.default
        /\ \A j \in VirtualKeys \ {k} : /\ keyRows'[j] = keyRows[j]
                                        /\ asked'.keys[j] = asked.keys[j]
    BY <1>4, <1>5 DEF OrganisationInv, OrganisationOK
  <1>8. k \notin mixed => keyRows'[k] = asked'.keys[k]
    BY <1>4, <1>6 DEF OrganisationInv, OrganisationOK, KeyKept
  <1>9. Creating(k) = {m} /\ Updating(k) = {}
    <2>1. m \in Creating(k)
      BY <1>1, <1>2 DEF Creating, Creation
    <2>2. \A n \in Updating(k) : n \notin Creating(k)
      BY DEF Creating, Updating
    <2> QED BY <2>1, <2>2 DEF OrganisationInv, KeyKept
  <1>10. managers'[m] = NoTask /\ \A n \in Managers : n # m => managers'[n] = managers[n]
    BY <1>4 DEF OrganisationInv, OrganisationOK
  <1>11. Creating(k)' = {} /\ Updating(k)' = {}
    BY <1>9, <1>10 DEF Creating, Updating, NoTask
  <1>12. KeyKept(k)'
    BY <1>4, <1>8, <1>11 DEF KeyKept
  <1>13. NoTask \in Task /\ NoTask.kind = "none" /\ managers[m].kind = "create"
    BY <1>1 DEF Creation, Task, NoTask
  <1> QED BY <1>2, <1>4, <1>7, <1>12, <1>13, OneTask

LEMMA KeptReadKeyRow ==
    ASSUME OrganisationInv, NEW m \in Managers, NEW k \in VirtualKeys, NEW new \in NewRow,
           ReadKeyRow(m, k, new)
    PROVE  OrganisationInv'
  <1>1. PICK row : row = FilledIn(new, keyRows[k])
    OBVIOUS
  <1>2. PICK task : task = [kind |-> "update", key |-> k, new |-> new, row |-> row]
    OBVIOUS
  <1>3. /\ UNCHANGED <<staff, keyRows, default, readers, asked>>
        /\ managers[m] = NoTask /\ keyRows[k] # Null
        /\ managers' = [managers EXCEPT ![m] = task]
        /\ mixed \subseteq mixed' /\ (Updating(k) # {} => k \in mixed')
    BY <1>1, <1>2 DEF ReadKeyRow
  <1>4. row \in KeyRow
    BY <1>1, <1>3 DEF FilledIn, Given, KeyRow, NewRow, OrganisationInv, OrganisationOK
  <1>5. task \in Task /\ task.kind = "update" /\ task.key = k
        /\ task.new = new /\ task.row = row
    BY <1>2, <1>4 DEF Task, Update
  <1>6. managers'[m] = task /\ \A n \in Managers : n # m => managers'[n] = managers[n]
    BY <1>3 DEF OrganisationInv, OrganisationOK
  <1>7. Creating(k)' = Creating(k) /\ Creating(k) = {}
    BY <1>3, <1>5, <1>6 DEF Creating, NoTask, OrganisationInv, KeyKept
  <1>8. Updating(k)' = Updating(k) \cup {m}
    BY <1>3, <1>5, <1>6 DEF Updating
  <1>9. KeyKept(k)'
    <2>1. k \notin mixed' => keyRows'[k] = asked'.keys[k]
      BY <1>3 DEF OrganisationInv, KeyKept
    <2>2. managers'[m].row = FilledIn(managers'[m].new, keyRows'[k])
      BY <1>1, <1>3, <1>5, <1>6
    <2>3. k \notin mixed' => Updating(k)' = {m}
      BY <1>3, <1>8
    <2> QED BY <1>7, <2>1, <2>2, <2>3 DEF KeyKept
  <1>10. /\ keyRows' \in [VirtualKeys -> KeyRow \cup {Null}]
         /\ asked'.keys = [j \in VirtualKeys |-> asked'.keys[j]]
         /\ asked' = [keys |-> asked'.keys, default |-> asked'.default]
    BY <1>3 DEF OrganisationInv, OrganisationOK
  <1>11. managers[m].kind = "none"
    BY <1>3 DEF NoTask
  <1> QED BY <1>3, <1>5, <1>9, <1>10, <1>11, OneTask

LEMMA KeptWriteKeyRow ==
    ASSUME OrganisationInv, NEW m \in Managers, WriteKeyRow(m)
    PROVE  OrganisationInv'
  <1>1. managers[m] \in Update
    BY Tasks DEF WriteKeyRow, OrganisationInv
  <1>2. PICK k \in VirtualKeys : k = managers[m].key
    BY <1>1 DEF Update
  <1>3. PICK row \in KeyRow : row = managers[m].row
    BY <1>1 DEF Update
  <1>4. PICK new \in NewRow : new = managers[m].new
    BY <1>1 DEF Update
  <1>5. PICK wish : wish = FilledIn(new, asked.keys[k])
    OBVIOUS
  <1>6. /\ UNCHANGED <<staff, default, readers, mixed>>
        /\ managers' = [managers EXCEPT ![m] = NoTask]
        /\ \/ UNCHANGED <<keyRows, asked>>
           \/ /\ keyRows[k] # Null
              /\ keyRows' = [keyRows EXCEPT ![k] = row]
              /\ asked' = [asked EXCEPT !.keys[k] = wish]
    BY <1>2, <1>3, <1>4, <1>5 DEF WriteKeyRow, FilledIn, OrganisationInv, OrganisationOK
  <1>7. m \in Updating(k)
    BY <1>1, <1>2 DEF Updating, Update
  <1>8. k \notin mixed /\ keyRows[k] # Null => row = wish /\ Updating(k) = {m}
    BY <1>3, <1>4, <1>5, <1>7 DEF OrganisationInv, KeyKept
  <1>9. /\ keyRows' \in [VirtualKeys -> KeyRow \cup {Null}]
        /\ asked'.keys = [j \in VirtualKeys |-> asked'.keys[j]]
        /\ asked' = [keys |-> asked'.keys, default |-> asked'.default]
        /\ asked'.default = asked.default
        /\ \A j \in VirtualKeys \ {k} : /\ keyRows'[j] = keyRows[j]
                                        /\ asked'.keys[j] = asked.keys[j]
    BY <1>6 DEF OrganisationInv, OrganisationOK
  <1>10. k \notin mixed => keyRows'[k] = asked'.keys[k]
    BY <1>6, <1>8 DEF OrganisationInv, OrganisationOK, KeyKept
  <1>11. managers'[m] = NoTask /\ \A n \in Managers : n # m => managers'[n] = managers[n]
    BY <1>6 DEF OrganisationInv, OrganisationOK
  <1>12. Creating(k)' = Creating(k)
         /\ Updating(k)' = Updating(k) \ {m}
    BY <1>7, <1>11 DEF Creating, Updating, NoTask
  <1>13. Creating(k) = {}
    BY <1>7 DEF OrganisationInv, KeyKept, Creating, Updating
  <1>14. KeyKept(k)'
    <2>1. ASSUME NEW n \in Updating(k)', keyRows'[k] # Null, k \notin mixed'
          PROVE  /\ managers'[n].row = FilledIn(managers'[n].new, keyRows'[k])
                 /\ \A o \in Updating(k)' : o = n
      <3>1. UNCHANGED keyRows
        BY <1>6, <1>8, <1>12, <2>1
      <3>2. n \in Updating(k) /\ managers'[n] = managers[n]
        BY <1>11, <1>12, <2>1 DEF Updating
      <3> QED BY <1>6, <1>12, <2>1, <3>1, <3>2 DEF OrganisationInv, KeyKept
    <2> QED BY <1>6, <1>10, <1>12, <1>13, <2>1 DEF KeyKept
  <1>15. NoTask \in Task /\ NoTask.kind = "none" /\ managers[m].kind = "update"
    BY <1>1 DEF Update, Task, NoTask
  <1> QED BY <1>2, <1>6, <1>9, <1>14, <1>15, OneTask

LEMMA KeptDeleteKey ==
    ASSUME OrganisationInv, NEW k \in VirtualKeys, DeleteKey(k)
    PROVE  OrganisationInv'
  <1>1. /\ UNCHANGED <<staff, default, managers, readers>>
        /\ keyRows[k] # Null /\ keyRows' = [keyRows EXCEPT ![k] = Null]
        /\ asked' = [asked EXCEPT !.keys[k] = Null]
        /\ mixed' = mixed \ {k}
    BY DEF DeleteKey
  <1>2. OrganisationOK' /\ asked'.default = asked.default
        /\ keyRows'[k] = Null /\ asked'.keys[k] = Null
        /\ \A j \in VirtualKeys : j # k => /\ keyRows'[j] = keyRows[j]
                                           /\ asked'.keys[j] = asked.keys[j]
    BY <1>1 DEF OrganisationInv, OrganisationOK
  <1>3. /\ Setting' = Setting
        /\ \A j : Creating(j)' = Creating(j) /\ Updating(j)' = Updating(j)
        /\ \A m \in Managers : TeamOf(managers[m].user)' = TeamOf(managers[m].user)
    BY <1>1 DEF Setting, Creating, Updating, TeamOf
  <1>4. DefaultKept' /\ \A q \in Readers : ReadKept(q)'
    BY <1>1, <1>2, <1>3, DefaultStill, OrganisationAssumption
  <1>5. KeyKept(k)'
    <2>1. Creating(k) = {}
      BY <1>1 DEF OrganisationInv, KeyKept
    <2> QED BY <1>2, <1>3, <2>1 DEF KeyKept
  <1>6. ASSUME NEW j \in VirtualKeys, j # k PROVE KeyKept(j)'
    <2>1. \A m \in Creating(j) : TeamOf(managers[m].user)' = TeamOf(managers[m].user)
      BY <1>3 DEF Creating
    <2> QED BY <1>1, <1>2, <1>3, <1>6, <2>1, KeyStill DEF OrganisationInv
  <1> QED BY <1>2, <1>4, <1>5, <1>6 DEF OrganisationInv

-----------------------------------------------------------------------------
(* The default budget *)

\* Only requests about the default budget, their readers, and what is asked for
\* change: nothing about keys does.
LEMMA KeysStill ==
    ASSUME OrganisationInv, UNCHANGED <<staff, keyRows, asked.keys>>,
           \A k \in VirtualKeys : Creating(k)' = Creating(k) /\ Updating(k)' = Updating(k),
           \A m \in Managers : \/ managers'[m] = managers[m]
                               \/ managers[m].kind \notin {"create", "update"},
           \A k \in VirtualKeys : k \in mixed => k \in mixed'
    PROVE  \A k \in VirtualKeys : KeyKept(k)'
  <1> TAKE k \in VirtualKeys
  <1>1. \A m \in Creating(k) \cup Updating(k) : managers'[m] = managers[m]
    BY DEF Creating, Updating
  <1>2. \A m \in Creating(k) : TeamOf(managers[m].user)' = TeamOf(managers[m].user)
    BY <1>1 DEF TeamOf
  <1> QED BY <1>1, <1>2, KeyStill DEF OrganisationInv

LEMMA ReadersDisturbed ==
    ASSUME OrganisationInv, NEW q \in Readers
    PROVE  Disturb[q] \in Reader /\ (Disturb[q] # NoReader => Disturb[q].disturbed)
  <1>1. PICK old \in Reader : old = readers[q]
    BY DEF OrganisationInv, OrganisationOK
  <1>2. CASE old = NoReader
    BY <1>1, <1>2 DEF Disturb, Reader
  <1>3. CASE old # NoReader
    <2>1. PICK new : new = [old EXCEPT !.disturbed = TRUE]
      OBVIOUS
    <2>2. Disturb[q] = new
      BY <1>1, <1>3, <2>1 DEF Disturb
    <2>3. old \in HalfRead => new \in HalfRead /\ new.disturbed = TRUE
      BY <2>1 DEF HalfRead
    <2>4. old \in FullyRead => new \in FullyRead /\ new.disturbed = TRUE
      BY <2>1 DEF FullyRead
    <2> QED BY <1>1, <1>3, <2>2, <2>3, <2>4 DEF Reader
  <1> QED BY <1>2, <1>3

LEMMA KeptBeginDefault ==
    ASSUME OrganisationInv, NEW m \in Managers, NEW new \in Budgets, BeginDefault(m, new)
    PROVE  OrganisationInv'
  <1>1. PICK task : task = [kind |-> "default", key |-> Null, new |-> new, left |-> Fields]
    OBVIOUS
  <1>2. /\ UNCHANGED <<staff, keyRows, default>>
        /\ managers[m] = NoTask /\ managers' = [managers EXCEPT ![m] = task]
        /\ asked' = [asked EXCEPT !.default = new]
        /\ mixed' = IF Setting = {} THEN mixed \ {"default"} ELSE mixed \cup {"default"}
        /\ readers' = Disturb
    BY <1>1 DEF BeginDefault
  <1>3. task \in Task /\ task.kind = "default" /\ task.new = new /\ task.left = Fields
    BY <1>1 DEF Task, DefaultUpdate
  <1>4. managers'[m] = task /\ \A n \in Managers : n # m => managers'[n] = managers[n]
    BY <1>2 DEF OrganisationInv, OrganisationOK
  <1>5. \A q \in Readers : /\ readers'[q] \in Reader
                           /\ readers'[q] # NoReader => readers'[q].disturbed
    BY <1>2, ReadersDisturbed
  <1>6. readers' \in [Readers -> Reader]
    BY <1>2, <1>5 DEF Disturb
  <1>7. asked'.keys = asked.keys /\ asked'.default = new
        /\ asked' = [keys |-> asked'.keys, default |-> asked'.default]
    BY <1>2 DEF OrganisationInv, OrganisationOK
  <1>8. OrganisationOK'
    BY <1>2, <1>3, <1>6, <1>7 DEF OrganisationInv, OrganisationOK
  <1>9. Setting' = Setting \cup {m}
        /\ \A k \in VirtualKeys : Creating(k)' = Creating(k) /\ Updating(k)' = Updating(k)
    BY <1>2, <1>3, <1>4 DEF Setting, Creating, Updating, NoTask
  <1>10. \A k \in VirtualKeys : KeyKept(k)'
    <2>1. managers[m].kind = "none"
      BY <1>2 DEF NoTask
    <2>2. \A k \in VirtualKeys : k \in mixed => k \in mixed'
      BY <1>2, OrganisationAssumption
    <2> QED BY <1>2, <1>4, <1>7, <1>9, <2>1, <2>2, KeysStill
  <1>11. DefaultKept'
    <2>1. \A n \in Setting' : managers'[n].left # {}
      <3>1. \A n \in Setting : n # m => managers[n].left # {}
        BY DEF OrganisationInv, DefaultKept
      <3> QED BY <1>3, <1>4, <1>9, <3>1 DEF Fields, Setting
    <2>2. "default" \notin mixed' => Setting' = {m}
      BY <1>2, <1>9
    <2> QED BY <1>3, <1>4, <1>7, <2>1, <2>2 DEF DefaultKept
  <1>12. \A q \in Readers : ReadKept(q)'
    BY <1>5 DEF ReadKept
  <1> QED BY <1>8, <1>10, <1>11, <1>12 DEF OrganisationInv

LEMMA KeptWriteField ==
    ASSUME OrganisationInv, NEW m \in Managers, NEW f \in Fields, WriteField(m, f)
    PROVE  OrganisationInv'
  <1>1. managers[m] \in DefaultUpdate /\ f \in managers[m].left
    BY Tasks DEF WriteField, OrganisationInv
  <1>2. PICK old \in DefaultUpdate : old = managers[m]
    BY <1>1
  <1>3. PICK rest \in SUBSET Fields : rest = old.left \ {f}
    BY <1>1, <1>2 DEF DefaultUpdate
  <1>4. PICK task : task = IF rest = {} THEN NoTask ELSE [old EXCEPT !.left = rest]
    OBVIOUS
  <1>5. /\ UNCHANGED <<staff, keyRows, asked>>
        /\ \/ default' = [default EXCEPT ![f] = old.new[f]] /\ mixed' = mixed
           \/ default' = default /\ mixed' = mixed \cup {"default"}
        /\ readers' = Disturb
    BY <1>2 DEF WriteField
  <1>6. managers' = [managers EXCEPT ![m] = task]
    <2>1. managers' = IF old.left = {f} THEN [managers EXCEPT ![m] = NoTask]
                      ELSE [managers EXCEPT ![m] = [old EXCEPT !.left = old.left \ {f}]]
      BY <1>2 DEF WriteField, OrganisationInv, OrganisationOK
    <2>2. old.left = {f} <=> rest = {}
      BY <1>1, <1>2, <1>3
    <2> QED BY <1>3, <1>4, <2>1, <2>2
  <1>7. /\ task \in Task
        /\ rest = {} => task = NoTask
        /\ rest # {} => task.kind = "default" /\ task.new = old.new /\ task.left = rest
    BY <1>4 DEF Task, DefaultUpdate
  <1>8. managers'[m] = task /\ \A n \in Managers : n # m => managers'[n] = managers[n]
    BY <1>6 DEF OrganisationInv, OrganisationOK
  <1>9. old.kind = "default" /\ old.new \in Budgets
    BY <1>2 DEF DefaultUpdate
  <1>10. \A q \in Readers : /\ readers'[q] \in Reader
                            /\ readers'[q] # NoReader => readers'[q].disturbed
    BY <1>5, ReadersDisturbed
  <1>11. readers' \in [Readers -> Reader]
    BY <1>5, <1>10 DEF Disturb
  <1>12. default' \in Budgets
    BY <1>5, <1>9 DEF Budgets, OrganisationInv, OrganisationOK
  <1>13. OrganisationOK'
    BY <1>5, <1>6, <1>7, <1>11, <1>12 DEF OrganisationInv, OrganisationOK
  <1>14. m \in Setting /\ Setting' = IF rest = {} THEN Setting \ {m} ELSE Setting
    BY <1>2, <1>7, <1>8, <1>9 DEF Setting, NoTask
  <1>15. \A k \in VirtualKeys : Creating(k)' = Creating(k) /\ Updating(k)' = Updating(k)
    BY <1>2, <1>7, <1>8, <1>9 DEF Creating, Updating, NoTask
  <1>16. \A k \in VirtualKeys : KeyKept(k)'
    <2>1. \A k \in VirtualKeys : k \in mixed => k \in mixed'
      BY <1>5
    <2> QED BY <1>2, <1>5, <1>8, <1>9, <1>15, <2>1, KeysStill
  <1>17. DefaultKept'
    <2>1. \A n \in Setting' : managers'[n].left # {}
      BY <1>7, <1>8, <1>14 DEF OrganisationInv, DefaultKept, Setting
    <2>2. ASSUME "default" \notin mixed'
          PROVE  /\ Setting = {m} /\ asked.default = old.new
                 /\ \A g \in Fields \ rest : default'[g] = old.new[g]
      <3>1. /\ Setting = {m} /\ asked.default = old.new
            /\ \A g \in Fields \ old.left : default[g] = old.new[g]
        BY <1>2, <1>5, <1>14, <2>2 DEF OrganisationInv, DefaultKept
      <3>2. default' = [default EXCEPT ![f] = old.new[f]]
        BY <1>5, <2>2
      <3> QED BY <1>3, <3>1, <3>2 DEF OrganisationInv, OrganisationOK, Budgets
    <2>3. ASSUME "default" \notin mixed', rest = {} PROVE default' = asked'.default
      BY <1>5, <1>9, <1>12, <2>2, <2>3 DEF Budgets
    <2> QED BY <1>5, <1>7, <1>8, <1>14, <2>1, <2>2, <2>3 DEF DefaultKept
  <1>18. \A q \in Readers : ReadKept(q)'
    BY <1>10 DEF ReadKept
  <1> QED BY <1>13, <1>16, <1>17, <1>18 DEF OrganisationInv

\* A reader goes on.
LEMMA OneReader ==
    ASSUME OrganisationInv, NEW q \in Readers, NEW r \in Reader,
           readers' = [readers EXCEPT ![q] = r], ReadKept(q)',
           UNCHANGED <<staff, keyRows, default, managers, asked, mixed>>
    PROVE  OrganisationInv'
  <1>1. OrganisationOK'
    BY DEF OrganisationInv, OrganisationOK
  <1>2. Setting' = Setting
        /\ \A k \in VirtualKeys : Creating(k)' = Creating(k) /\ Updating(k)' = Updating(k)
    BY DEF Setting, Creating, Updating
  <1>3. \A k \in VirtualKeys : KeyKept(k)'
    BY <1>2, KeysStill
  <1>4. DefaultKept'
    BY <1>2 DEF DefaultKept, OrganisationInv
  <1>5. ASSUME NEW p \in Readers, p # q PROVE ReadKept(p)'
    BY <1>2, <1>5 DEF ReadKept, OrganisationInv, OrganisationOK
  <1> QED BY <1>1, <1>3, <1>4, <1>5 DEF OrganisationInv

LEMMA KeptReaders ==
    ASSUME OrganisationInv, NEW q \in Readers, NEW ok \in BOOLEAN,
           ReadAmount(q, ok) \/ ReadPolicy(q, ok) \/ EndRead(q)
    PROVE  OrganisationInv'
  <1>1. UNCHANGED <<staff, keyRows, default, managers, asked, mixed>>
        /\ Setting' = Setting
    BY DEF ReadAmount, ReadPolicy, EndRead, Setting
  <1>2. \A f \in Fields : default[f] \in Sums \cup {Null}
    BY DEF OrganisationInv, OrganisationOK, Budgets
  <1>3. CASE ReadAmount(q, ok)
    <2>0. PICK d \in BOOLEAN : d = (Setting # {})
      BY Zenon
    <2>a. PICK a \in Sums \cup {Null} : a = IF ok THEN default["amount"] ELSE Null
      BY <1>2 DEF Fields
    <2>b. PICK lost \in SUBSET Fields : lost = IF ok THEN {} ELSE {"amount"}
      BY DEF Fields
    <2> DEFINE r == [phase |-> IF a = Null THEN "done" ELSE "policy",
                     amount |-> a, policy |-> Null, failed |-> lost, disturbed |-> d]
    <2>1. readers' = [readers EXCEPT ![q] = r] /\ r \in Reader
      <3>1. r \in Reader
        BY <2>a, <2>b DEF Reader, HalfRead, FullyRead
      <3>2. readers' = [readers EXCEPT ![q] = r]
        BY <1>3, <2>0, <2>a, <2>b, Zenon DEF ReadAmount
      <3> QED BY <3>1, <3>2
    <2>2. readers'[q] = r
      BY <2>1 DEF OrganisationInv, OrganisationOK
    <2>3. ASSUME Setting # {} PROVE ReadKept(q)'
      <3>1. d = TRUE
        BY <2>0, <2>3, Zenon
      <3>2. readers'[q].disturbed = TRUE
        BY <2>2, <3>1
      <3> QED BY <3>2 DEF ReadKept
    <2>4. ASSUME Setting = {} PROVE ReadKept(q)'
      <3>1. /\ readers'[q].amount =
                 IF "amount" \in readers'[q].failed THEN Null ELSE default["amount"]
            /\ readers'[q].phase = "done" => readers'[q].amount = Null
        BY <2>2, <2>a, <2>b
      <3> QED BY <1>1, <2>4, <3>1 DEF ReadKept
    <2>5. ReadKept(q)'
      BY <2>3, <2>4
    <2> QED BY <1>1, <2>1, <2>5, OneReader
  <1>4. CASE ReadPolicy(q, ok)
    <2>1. PICK old \in HalfRead : old = readers[q] /\ old # NoReader
      BY <1>4 DEF ReadPolicy, OrganisationInv, OrganisationOK, Reader, HalfRead, FullyRead,
                  NoReader
    <2>a. PICK b \in Sums \cup {Null} : b = IF ok THEN default["policy"] ELSE Null
      BY <1>2 DEF Fields
    <2>b. old.phase = "policy" /\ old.failed = {}
      BY <2>1 DEF HalfRead
    <2>c. PICK lost \in SUBSET Fields : lost = IF ok THEN {} ELSE {"policy"}
      BY DEF Fields
    <2>d. PICK new : new = [old EXCEPT !.phase = "done", !.policy = b, !.failed = lost]
      OBVIOUS
    <2>e. /\ new \in FullyRead /\ new.phase = "done" /\ new.amount = old.amount
          /\ new.policy = b /\ new.failed = lost /\ new.disturbed = old.disturbed
      BY <2>1, <2>d DEF HalfRead, FullyRead
    <2>f. readers' = [readers EXCEPT ![q] = new]
      <3>1. readers' = [readers EXCEPT ![q] =
              [old EXCEPT !.phase = "done",
                          !.policy = IF ok THEN default["policy"] ELSE Null,
                          !.failed = IF ok THEN @ ELSE @ \cup {"policy"}]]
        BY <1>4, <2>1 DEF ReadPolicy
      <3>2. [old EXCEPT !.phase = "done",
                        !.policy = IF ok THEN default["policy"] ELSE Null,
                        !.failed = IF ok THEN @ ELSE @ \cup {"policy"}] = new
        BY <2>1, <2>a, <2>b, <2>c, <2>d DEF HalfRead
      <3> QED BY <3>1, <3>2
    <2>2. PICK r \in Reader : /\ r.phase = "done" /\ r.amount = old.amount
                              /\ r.policy = b /\ r.failed = lost
                              /\ r.disturbed = old.disturbed
                              /\ readers' = [readers EXCEPT ![q] = r]
      BY <2>e, <2>f DEF Reader
    <2>3. readers'[q] = r
      BY <2>2 DEF OrganisationInv, OrganisationOK
    <2>4. ReadKept(q)'
      <3>1. "amount" \notin lost /\ "amount" \notin old.failed
        BY <2>b, <2>c
      <3>2. b = IF "policy" \in lost THEN Null ELSE default["policy"]
        BY <2>a, <2>c
      <3> SUFFICES ASSUME ~old.disturbed
                   PROVE  /\ Setting' = {}
                          /\ "default" \notin mixed =>
                                r.amount = default["amount"]
        BY <1>1, <2>2, <2>3, <3>1, <3>2 DEF ReadKept
      <3>3. ReadKept(q) /\ readers[q] = old /\ old # NoReader /\ r.amount = old.amount
        BY <2>1, <2>2 DEF OrganisationInv
      <3>4. Setting = {} /\ ("default" \notin mixed => r.amount = default["amount"])
        BY <3>1, <3>3 DEF ReadKept
      <3> QED BY <1>1, <3>4
    <2> QED BY <1>1, <2>2, <2>4, OneReader
  <1>5. CASE EndRead(q)
    <2>1. readers' = [readers EXCEPT ![q] = NoReader] /\ NoReader \in Reader
      BY <1>5 DEF EndRead, Reader
    <2>2. ReadKept(q)'
      BY <2>1 DEF ReadKept, OrganisationInv, OrganisationOK
    <2> QED BY <1>1, <2>1, <2>2, OneReader
  <1> QED BY <1>3, <1>4, <1>5

\* The keys and the default budget are those that the requests have asked for,
\* but for the ones whose requests overlapped or failed half way
\* (api/admin.rs, db/teams.rs); for any number of keys, of requests and readers.
THEOREM EditsStay == OrganisationSpec => []EditsAreKept
  <1>1. OrganisationInv /\ [OrganisationNext]_orgVars => OrganisationInv'
    <2> SUFFICES ASSUME OrganisationInv, [OrganisationNext]_orgVars PROVE OrganisationInv'
      OBVIOUS
    <2>1. CASE TeamNext
      BY <2>1, KeptTeams
    <2>2. CASE KeyNext
      <3>1. ASSUME NEW k \in VirtualKeys, NEW m \in Managers,
                   NEW u \in Staff \cup {Null, "absent"},
                   NEW t \in Teams \cup {Null, "absent"}
            PROVE  /\ u # "absent" /\ BeginCreate(m, k, u, t) => OrganisationInv'
                   /\ ReadKeyRow(m, k, [user |-> u, team |-> t]) => OrganisationInv'
        <4>1. [user |-> u, team |-> t] \in NewRow
          BY DEF NewRow
        <4>2. u # "absent" => u \in Staff \cup {Null}
          OBVIOUS
        <4> QED BY <4>1, <4>2, KeptBeginCreate, KeptReadKeyRow
      <3> QED BY <2>2, <3>1, KeptInsertKey, KeptWriteKeyRow, KeptDeleteKey DEF KeyNext
    <2>3. CASE DefaultNext
      BY <2>3, KeptBeginDefault, KeptWriteField, KeptReaders DEF DefaultNext, Budgets
    <2>4. CASE UNCHANGED orgVars
      <3>1. /\ OrganisationOK' /\ Setting' = Setting
            /\ \A k \in VirtualKeys : Creating(k)' = Creating(k) /\ Updating(k)' = Updating(k)
        BY <2>4 DEF orgVars, OrganisationInv, OrganisationOK, Setting, Creating, Updating
      <3>2. DefaultKept' /\ \A q \in Readers : ReadKept(q)'
        BY <2>4, <3>1, DefaultStill DEF orgVars
      <3>3. \A k \in VirtualKeys : KeyKept(k)'
        BY <2>4, <3>1, KeysStill DEF orgVars
      <3> QED BY <3>1, <3>2, <3>3 DEF OrganisationInv
    <2> QED BY <2>1, <2>2, <2>3, <2>4 DEF OrganisationNext
  <1>2. OrganisationInv => EditsAreKept
    <2> SUFFICES ASSUME OrganisationInv PROVE EditsAreKept
      OBVIOUS
    <2>1. \A k \in VirtualKeys \ mixed : keyRows[k] = asked.keys[k]
      BY DEF OrganisationInv, KeyKept
    <2>2. ASSUME NEW q \in Readers, readers[q].phase = "done", ~readers[q].disturbed,
                 "default" \notin mixed
          PROVE  /\ readers[q].amount =
                       IF "amount" \in readers[q].failed THEN Null ELSE asked.default["amount"]
                 /\ readers[q].amount # Null =>
                       readers[q].policy =
                         IF "policy" \in readers[q].failed THEN Null ELSE asked.default["policy"]
      BY <2>2 DEF OrganisationInv, ReadKept, DefaultKept, NoReader
    <2> QED BY <2>1, <2>2 DEF EditsAreKept
  <1> QED BY <1>1, <1>2, KeptInit, PTL DEF OrganisationSpec

-----------------------------------------------------------------------------
(* Searches of the web *)

Pending == [mode : {"global"}, provider : Provider, overlapped : BOOLEAN]
Running == [phase : {"asked", "done"}, user : Searchers, mode : Modes,
            to : Services \cup {NoService}, disturbed : BOOLEAN]
Search == {NoSearch} \cup Running
Configs == [Services -> Config \cup {NoService}]

WebSearchOK ==
    /\ configs \in [Searchers -> Configs]
    /\ searchMode \in Modes
    /\ global \in Provider \cup {NoService}
    /\ modeEdits \in [ModeEditors -> Pending \cup {NoService}]
    /\ searches \in [Searches -> Search]
    /\ chosen \in [Searchers -> Services \cup {NoService}]

\* What a change of the mode has stored on its own is there; one that is to
\* store its provider is the only one, or has been overlapped.
ModeKept ==
    /\ intended # NoService =>
          /\ searchMode = intended.mode
          /\ intended.mode = "global" => global # NoService /\ global = intended.provider
          /\ \A a \in ModeEditors : modeEdits[a] = NoService
    /\ \A a \in ModeEditors :
          modeEdits[a] # NoService /\ ~modeEdits[a].overlapped =>
            /\ searchMode = "global"
            /\ \A b \in ModeEditors : b # a => modeEdits[b] = NoService

\* Of the providers that u has, t is the one that is enabled.
OnlyEnabled(rows, t) ==
    /\ rows[t] # NoService /\ rows[t].enabled
    /\ \A s \in Services : s # t /\ rows[s] # NoService => ~rows[s].enabled

ChosenKept ==
    \A u \in Searchers : chosen[u] # NoService => OnlyEnabled(configs[u], chosen[u])

\* An undisturbed request has the mode, and has gone where it resolves to.
SearchKept(q) ==
    searches[q] # NoSearch /\ ~searches[q].disturbed =>
      /\ searches[q].mode = searchMode
      /\ searches[q].phase = "asked" => searches[q].mode # "disabled"
      /\ searches[q].phase = "done" /\ searches[q].mode = "disabled" =>
            searches[q].to = NoService
      /\ searches[q].phase = "done" /\ searches[q].mode # "disabled" =>
            searches[q].to \in Resolved(q)

\* The inductive invariant
WebSearchInv ==
    /\ WebSearchOK /\ ModeKept /\ ChosenKept
    /\ \A q \in Searches : SearchKept(q)

\* A change disturbs every request.
LEMMA DisturbedKept ==
    ASSUME WebSearchOK, searches' = Disturbed
    PROVE  searches' \in [Searches -> Search] /\ \A q \in Searches : SearchKept(q)'
  <1>1. ASSUME NEW q \in Searches
        PROVE  searches'[q] \in Search /\ (searches'[q] # NoSearch => searches'[q].disturbed)
    BY DEF Disturbed, WebSearchOK, Search, Running, NoSearch
  <1>2. searches' \in [Searches -> Search]
    BY <1>1 DEF Disturbed
  <1>3. ASSUME NEW q \in Searches PROVE SearchKept(q)'
    BY <1>1 DEF SearchKept
  <1> QED BY <1>2, <1>3

-----------------------------------------------------------------------------
(* The user and the administrators *)

LEMMA KeptConfigs ==
    ASSUME WebSearchInv, NEW u \in Searchers, NEW rows \in Configs,
           NEW t \in Services \cup {NoService}, t # NoService => OnlyEnabled(rows, t),
           configs' = [configs EXCEPT ![u] = rows], chosen' = [chosen EXCEPT ![u] = t],
           searches' = Disturbed, UNCHANGED <<searchMode, global, modeEdits, intended>>
    PROVE  WebSearchInv'
  <1>1. WebSearchOK'
    BY DisturbedKept DEF WebSearchInv, WebSearchOK
  <1>2. ModeKept'
    BY DEF WebSearchInv, ModeKept
  <1>3. ChosenKept'
    BY DEF WebSearchInv, WebSearchOK, ChosenKept
  <1> QED BY <1>1, <1>2, <1>3, DisturbedKept DEF WebSearchInv

LEMMA KeptUser ==
    ASSUME WebSearchInv, NEW u \in Searchers, NEW t \in Services,
           \/ \E complete, enabled \in BOOLEAN : SaveProvider(u, t, complete, enabled)
           \/ ActivateProvider(u, t)
           \/ DeleteProvider(u, t)
    PROVE  WebSearchInv'
  <1>1. configs[u] \in Configs
    BY DEF WebSearchInv, WebSearchOK
  <1>2. ASSUME NEW complete \in BOOLEAN, NEW enabled \in BOOLEAN,
               SaveProvider(u, t, complete, enabled)
        PROVE  WebSearchInv'
    <2>1. PICK row \in Config : row = [complete |-> complete, enabled |-> enabled]
      BY DEF Config
    <2>2. PICK rows \in Configs : rows = [configs[u] EXCEPT ![t] = row]
      BY <1>1, <2>1 DEF Configs
    <2>3. configs' = [configs EXCEPT ![u] = rows] /\ chosen' = [chosen EXCEPT ![u] = NoService]
          /\ searches' = Disturbed /\ UNCHANGED <<searchMode, global, modeEdits, intended>>
      BY <1>2, <2>1, <2>2 DEF SaveProvider
    <2> QED BY <2>3, KeptConfigs
  <1>3. CASE ActivateProvider(u, t)
    <2>1. PICK rows : rows = Activated(u, t)
      OBVIOUS
    <2>2. ASSUME NEW s \in Services
          PROVE  /\ configs[u][s] = NoService => rows[s] = NoService
                 /\ configs[u][s] # NoService => /\ rows[s] \in Config
                                                 /\ rows[s].enabled = (s = t)
      <3>1. configs[u][s] # NoService => configs[u][s] \in Config
        BY <1>1 DEF Configs
      <3>2. PICK d \in BOOLEAN : d = (s = t)
        BY Zenon
      <3>3. rows[s] = IF configs[u][s] = NoService THEN NoService
                      ELSE [configs[u][s] EXCEPT !.enabled = d]
        BY <2>1, <3>2, Zenon DEF Activated
      <3>4. configs[u][s] # NoService => rows[s] \in Config /\ rows[s].enabled = d
        BY <3>1, <3>3 DEF Config
      <3> QED BY <3>2, <3>3, <3>4, Zenon
    <2>3. rows \in Configs
      BY <1>1, <2>1, <2>2 DEF Activated, Configs
    <2>4. configs[u][t] # NoService => OnlyEnabled(rows, t)
      <3>1. ASSUME configs[u][t] # NoService PROVE rows[t] # NoService /\ rows[t].enabled
        <4>1. rows[t].enabled = (t = t) /\ rows[t] \in Config
          BY <2>2, <3>1
        <4>2. (t = t) = TRUE
          OBVIOUS
        <4> QED BY <4>1, <4>2, WebSearchAssumption
      <3>2. ASSUME NEW s \in Services, s # t, rows[s] # NoService PROVE ~rows[s].enabled
        <4>1. rows[s].enabled = (s = t)
          BY <2>2, <3>2
        <4>2. (s = t) = FALSE
          BY <3>2
        <4> QED BY <4>1, <4>2, Zenon
      <3> QED BY <3>1, <3>2 DEF OnlyEnabled
    <2>5. PICK v \in Services \cup {NoService} :
             v = IF configs[u][t] = NoService THEN NoService ELSE t
      OBVIOUS
    <2>6. /\ configs' = [configs EXCEPT ![u] = rows] /\ chosen' = [chosen EXCEPT ![u] = v]
          /\ searches' = Disturbed /\ UNCHANGED <<searchMode, global, modeEdits, intended>>
      BY <1>3, <2>1, <2>5 DEF ActivateProvider
    <2>7. v # NoService => OnlyEnabled(rows, v)
      BY <2>4, <2>5
    <2> QED BY <2>3, <2>6, <2>7, KeptConfigs
  <1>4. CASE DeleteProvider(u, t)
    <2>1. PICK rows \in Configs : rows = [configs[u] EXCEPT ![t] = NoService]
      BY <1>1 DEF Configs
    <2>2. configs' = [configs EXCEPT ![u] = rows] /\ chosen' = [chosen EXCEPT ![u] = NoService]
          /\ searches' = Disturbed /\ UNCHANGED <<searchMode, global, modeEdits, intended>>
      BY <1>4, <2>1 DEF DeleteProvider
    <2> QED BY <2>2, KeptConfigs
  <1> QED BY <1>2, <1>3, <1>4

LEMMA KeptAdministrators ==
    ASSUME WebSearchInv, NEW a \in ModeEditors,
           \/ \E mode \in Modes, p \in Provider \cup {NoService} : SetMode(a, mode, p)
           \/ SetGlobal(a)
    PROVE  WebSearchInv'
  <1>1. ASSUME NEW mode \in Modes, NEW p \in Provider \cup {NoService}, SetMode(a, mode, p)
        PROVE  WebSearchInv'
    <2>1. /\ modeEdits[a] = NoService /\ (mode = "global" <=> p # NoService)
          /\ searchMode' = mode /\ searches' = Disturbed
          /\ UNCHANGED <<configs, global, chosen>>
      BY <1>1 DEF SetMode
    <2>2. PICK late \in BOOLEAN : late = ~(\A b \in ModeEditors : modeEdits[b] = NoService)
      BY Zenon
    <2>3. PICK edit : edit = [mode |-> mode, provider |-> p, overlapped |-> late]
      OBVIOUS
    <2>4. /\ modeEdits' = IF mode = "global" THEN [Overlap EXCEPT ![a] = edit] ELSE Overlap
          /\ mode = "global" \/ late => intended' = NoService
          /\ mode # "global" /\ ~late =>
                intended' = [mode |-> mode, provider |-> NoService]
      BY <1>1, <2>2, <2>3, Zenon DEF SetMode
    <2>5. ASSUME NEW b \in ModeEditors
          PROVE  /\ Overlap[b] \in Pending \cup {NoService}
                 /\ Overlap[b] # NoService => Overlap[b].overlapped
                 /\ modeEdits[b] = NoService => Overlap[b] = NoService
      BY DEF Overlap, WebSearchInv, WebSearchOK, Pending
    <2>6. mode = "global" => edit \in Pending
      BY <2>1, <2>3 DEF Pending
    <2>7. /\ modeEdits' \in [ModeEditors -> Pending \cup {NoService}]
          /\ \A b \in ModeEditors : \/ modeEdits'[b] = Overlap[b]
                                    \/ b = a /\ mode = "global" /\ modeEdits'[b] = edit
      <3>1. Overlap \in [ModeEditors -> Pending \cup {NoService}]
        BY <2>5 DEF Overlap
      <3>2. \/ modeEdits' = Overlap
            \/ mode = "global" /\ modeEdits' = [Overlap EXCEPT ![a] = edit]
        BY <2>4
      <3> QED BY <2>6, <3>1, <3>2
    <2>8. ~late => \A b \in ModeEditors : Overlap[b] = NoService
      BY <2>2, <2>5, Zenon
    <2>9. late => edit.overlapped
      BY <2>3
    <2>10. ModeKept'
      <3>1. ASSUME intended' # NoService
            PROVE  /\ searchMode' = intended'.mode /\ intended'.mode # "global"
                   /\ \A b \in ModeEditors : modeEdits'[b] = NoService
        BY <2>1, <2>4, <2>7, <2>8, <3>1
      <3>2. ASSUME NEW b \in ModeEditors, modeEdits'[b] # NoService,
                   ~modeEdits'[b].overlapped
            PROVE  /\ searchMode' = "global"
                   /\ \A c \in ModeEditors : c # b => modeEdits'[c] = NoService
        <4>1. b = a /\ mode = "global" /\ modeEdits'[b] = edit
          BY <2>5, <2>7, <3>2
        <4>2. ~late
          BY <2>9, <3>2, <4>1
        <4> QED BY <2>1, <2>7, <2>8, <4>1, <4>2
      <3> QED BY <3>1, <3>2 DEF ModeKept
    <2>11. WebSearchOK'
      BY <2>1, <2>7, DisturbedKept DEF WebSearchInv, WebSearchOK
    <2>12. ChosenKept'
      BY <2>1 DEF WebSearchInv, ChosenKept
    <2> QED BY <2>1, <2>10, <2>11, <2>12, DisturbedKept DEF WebSearchInv
  <1>2. CASE SetGlobal(a)
    <2>1. PICK edit \in Pending : edit = modeEdits[a]
      BY <1>2 DEF SetGlobal, WebSearchInv, WebSearchOK
    <2>2. /\ modeEdits[a] # NoService /\ modeEdits' = [modeEdits EXCEPT ![a] = NoService]
          /\ \/ /\ global' = edit.provider
                /\ intended' = IF edit.overlapped THEN NoService
                               ELSE [mode |-> edit.mode, provider |-> edit.provider]
             \/ UNCHANGED <<global, intended>>
          /\ searches' = Disturbed /\ UNCHANGED <<configs, searchMode, chosen>>
      BY <1>2, <2>1 DEF SetGlobal
    <2>3. edit.provider \in Provider /\ edit.mode = "global"
      BY <2>1 DEF Pending
    <2>4. WebSearchOK'
      BY <2>2, <2>3, DisturbedKept DEF WebSearchInv, WebSearchOK
    <2>5. ChosenKept'
      BY <2>2 DEF WebSearchInv, ChosenKept
    <2>6. intended = NoService
      BY <2>2 DEF WebSearchInv, ModeKept
    <2>7. modeEdits'[a] = NoService
          /\ \A b \in ModeEditors : b # a => modeEdits'[b] = modeEdits[b]
      BY <2>2 DEF WebSearchInv, WebSearchOK
    <2>8. ModeKept'
      <3>1. ASSUME intended' # NoService
            PROVE  /\ searchMode' = intended'.mode
                   /\ intended'.mode = "global" => global' # NoService
                                                   /\ global' = intended'.provider
                   /\ \A b \in ModeEditors : modeEdits'[b] = NoService
        <4>1. /\ ~edit.overlapped /\ global' = edit.provider
              /\ intended' = [mode |-> edit.mode, provider |-> edit.provider]
          BY <2>2, <2>6, <3>1
        <4>2. searchMode = "global" /\ \A b \in ModeEditors : b # a => modeEdits[b] = NoService
          BY <2>1, <2>2, <4>1 DEF WebSearchInv, ModeKept
        <4> QED BY <2>2, <2>3, <2>7, <4>1, <4>2, WebSearchAssumption
      <3>2. ASSUME NEW b \in ModeEditors, modeEdits'[b] # NoService,
                   ~modeEdits'[b].overlapped
            PROVE  FALSE
        BY <2>2, <2>7, <3>2 DEF WebSearchInv, ModeKept
      <3> QED BY <3>1, <3>2 DEF ModeKept
    <2> QED BY <2>2, <2>4, <2>5, <2>8, DisturbedKept DEF WebSearchInv
  <1> QED BY <1>1, <1>2

-----------------------------------------------------------------------------
(* Requests *)

LEMMA OneSearch ==
    ASSUME WebSearchInv, NEW q \in Searches, NEW r \in Search,
           searches' = [searches EXCEPT ![q] = r], SearchKept(q)',
           UNCHANGED <<configs, searchMode, global, modeEdits, chosen, intended>>
    PROVE  WebSearchInv'
  <1>1. WebSearchOK'
    BY DEF WebSearchInv, WebSearchOK
  <1>2. ModeKept' /\ ChosenKept'
    BY DEF WebSearchInv, ModeKept, ChosenKept
  <1>3. ASSUME NEW p \in Searches, p # q PROVE SearchKept(p)'
    <2>1. searches'[p] = searches[p]
      BY <1>3 DEF WebSearchInv, WebSearchOK
    <2>2. Resolved(p)' = Resolved(p)
      BY <2>1 DEF Resolved, ListedProviders
    <2> QED BY <2>1, <2>2 DEF WebSearchInv, SearchKept
  <1> QED BY <1>1, <1>2, <1>3 DEF WebSearchInv

LEMMA KeptSearches ==
    ASSUME WebSearchInv, NEW q \in Searches,
           \/ \E u \in Searchers : BeginSearch(q, u)
           \/ SendSearch(q)
           \/ EndSearch(q)
    PROVE  WebSearchInv'
  <1>1. UNCHANGED <<configs, searchMode, global, modeEdits, chosen, intended>>
    BY DEF BeginSearch, SendSearch, EndSearch
  <1>2. searchMode \in Modes
    BY DEF WebSearchInv, WebSearchOK
  <1>3. ASSUME NEW u \in Searchers, BeginSearch(q, u) PROVE WebSearchInv'
    <2> DEFINE Begun(mode, disturbed) ==
                 [phase |-> IF mode = "disabled" THEN "done" ELSE "asked", user |-> u,
                  mode |-> mode, to |-> NoService, disturbed |-> disturbed]
    <2>1. PICK mode \in Modes, disturbed \in BOOLEAN :
             /\ searches' = [searches EXCEPT ![q] = Begun(mode, disturbed)]
             /\ ~disturbed => mode = searchMode
      BY <1>2, <1>3 DEF BeginSearch, Modes
    <2>2. PICK r \in Running : r = Begun(mode, disturbed)
      <3>1. PICK phase \in {"asked", "done"} :
               phase = IF mode = "disabled" THEN "done" ELSE "asked"
        OBVIOUS
      <3>2. [phase |-> phase, user |-> u, mode |-> mode, to |-> NoService,
             disturbed |-> disturbed] \in Running
        BY DEF Running
      <3> QED BY <3>1, <3>2
    <2>3. searches'[q] = r /\ searches' = [searches EXCEPT ![q] = r] /\ r \in Search
      BY <2>1, <2>2 DEF WebSearchInv, WebSearchOK, Search
    <2>4. /\ r.mode = mode /\ r.disturbed = disturbed /\ r.to = NoService
          /\ r.phase = "done" <=> mode = "disabled"
      BY <2>2
    <2>5. SearchKept(q)'
      BY <1>1, <2>1, <2>3, <2>4 DEF SearchKept
    <2> QED BY <1>1, <2>3, <2>5, OneSearch
  <1>4. CASE SendSearch(q)
    <2>1. PICK old \in Running : old = searches[q] /\ old.phase = "asked" /\ old # NoSearch
      <3>1. searches[q] \in Search
        BY DEF WebSearchInv, WebSearchOK
      <3>2. searches[q].phase = "asked"
        BY <1>4 DEF SendSearch
      <3>3. searches[q] # NoSearch
        BY <3>2 DEF NoSearch
      <3> QED BY <3>1, <3>2, <3>3 DEF Search
    <2>2. PICK to \in Resolved(q) \cup {DuckDuckGo} :
             searches' = [searches EXCEPT ![q].phase = "done", ![q].to = to,
                            ![q].disturbed = @ \/ to \notin Resolved(q)]
      BY <1>4 DEF SendSearch
    <2>3. to \in Services
      <3>1. \A t \in Services : \A c : Usable(t, c) \in Services
        BY WebSearchAssumption DEF Usable
      <3>2. global # NoService => global.type \in Services
        BY DEF WebSearchInv, WebSearchOK, Provider
      <3>3. Resolved(q) \subseteq Services
        BY ZenonT(40), <3>1, <3>2, WebSearchAssumption DEF Resolved, ListedProviders
      <3> QED BY <3>3, WebSearchAssumption
    <2>4. PICK d \in BOOLEAN : d = (old.disturbed \/ to \notin Resolved(q))
      BY Zenon
    <2>5. PICK r : r = [[[old EXCEPT !.phase = "done"] EXCEPT !.to = to] EXCEPT !.disturbed = d]
      OBVIOUS
    <2>6. searches' = [searches EXCEPT ![q] = r]
      <3>1. searches' = [searches EXCEPT ![q].phase = "done", ![q].to = to,
                           ![q].disturbed = d]
        BY <2>1, <2>2, <2>4
      <3> QED BY <2>1, <2>5, <3>1 DEF WebSearchInv, WebSearchOK
    <2>7. /\ r \in Search /\ r.phase = "done" /\ r.to = to /\ r.disturbed = d
          /\ r.mode = old.mode /\ r.user = old.user
      BY <2>3, <2>5 DEF Search, Running
    <2>8. searches'[q] = r
      BY <2>6 DEF WebSearchInv, WebSearchOK
    <2>9. Resolved(q)' = Resolved(q)
      BY <1>1, <2>1, <2>7, <2>8 DEF Resolved, ListedProviders
    <2>10. ~d => ~old.disturbed /\ to \in Resolved(q)
      BY <2>4, Zenon
    <2>11. SearchKept(q)'
      BY <1>1, <2>1, <2>7, <2>8, <2>9, <2>10 DEF SearchKept, WebSearchInv
    <2> QED BY <1>1, <2>6, <2>7, <2>11, OneSearch
  <1>5. CASE EndSearch(q)
    <2>1. searches' = [searches EXCEPT ![q] = NoSearch] /\ NoSearch \in Search
      BY <1>5 DEF EndSearch, Search
    <2>2. SearchKept(q)'
      BY <2>1 DEF SearchKept, WebSearchInv, WebSearchOK
    <2> QED BY <1>1, <2>1, <2>2, OneSearch
  <1> QED BY <1>3, <1>4, <1>5

\* A search goes where the administrators' mode, or the provider that the user
\* has activated, says (handlers.rs, db/search_providers.rs, api/admin.rs); for
\* any number of users, of providers and of requests.
THEOREM SearchesStay == WebSearchSpec => []SearchGoesWhereChosen
  <1>1. WebSearchInit => WebSearchInv
    <2> SUFFICES ASSUME WebSearchInit PROVE WebSearchInv
      OBVIOUS
    <2>1. WebSearchOK
      BY DEF WebSearchInit, WebSearchOK, Search, Configs, Modes
    <2>2. ModeKept /\ ChosenKept
      BY DEF WebSearchInit, ModeKept, ChosenKept
    <2>3. ASSUME NEW q \in Searches PROVE SearchKept(q)
      BY DEF WebSearchInit, SearchKept
    <2> QED BY <2>1, <2>2, <2>3 DEF WebSearchInv
  <1>2. WebSearchInv /\ [WebSearchNext]_searchVars => WebSearchInv'
    <2> SUFFICES ASSUME WebSearchInv, [WebSearchNext]_searchVars PROVE WebSearchInv'
      OBVIOUS
    <2>1. CASE WebSearchNext
      BY <2>1, KeptUser, KeptAdministrators, KeptSearches DEF WebSearchNext
    <2>2. CASE UNCHANGED searchVars
      <3>1. WebSearchOK' /\ ModeKept' /\ ChosenKept'
        BY <2>2 DEF searchVars, WebSearchInv, WebSearchOK, ModeKept, ChosenKept
      <3>2. ASSUME NEW q \in Searches PROVE SearchKept(q)'
        <4>1. Resolved(q)' = Resolved(q)
          BY <2>2 DEF searchVars, Resolved, ListedProviders
        <4> QED BY <2>2, <4>1 DEF searchVars, WebSearchInv, SearchKept
      <3> QED BY <3>1, <3>2 DEF WebSearchInv
    <2> QED BY <2>1, <2>2
  <1>3. WebSearchInv => SearchGoesWhereChosen
    <2> SUFFICES ASSUME WebSearchInv, NEW q \in Searches, searches[q].phase = "done",
                        ~searches[q].disturbed, intended # NoService
                 PROVE  /\ intended.mode = "disabled" => searches[q].to = NoService
                        /\ intended.mode = "global" =>
                              searches[q].to = Usable(intended.provider.type,
                                                      intended.provider.complete)
                        /\ intended.mode = "enabled" /\ chosen[searches[q].user] # NoService =>
                              LET u == searches[q].user
                              IN  searches[q].to =
                                    Usable(chosen[u], configs[u][chosen[u]].complete)
      BY DEF SearchGoesWhereChosen
    <2>1. searches[q] \in Running /\ searches[q] # NoSearch
      BY DEF WebSearchInv, WebSearchOK, Search, NoSearch
    <2>2. PICK u \in Searchers : u = searches[q].user
      BY <2>1 DEF Running
    <2>3. searches[q].mode = intended.mode
      BY <2>1 DEF WebSearchInv, SearchKept, ModeKept
    <2>4. CASE intended.mode = "disabled"
      BY <2>1, <2>3, <2>4 DEF WebSearchInv, SearchKept
    <2>5. CASE intended.mode = "global"
      <3>1. searches[q].to \in Resolved(q)
        BY <2>1, <2>3, <2>5 DEF WebSearchInv, SearchKept
      <3>2. global # NoService /\ global = intended.provider
        BY <2>5 DEF WebSearchInv, ModeKept
      <3> QED BY <2>3, <2>5, <3>1, <3>2 DEF Resolved
    <2>6. CASE intended.mode = "enabled" /\ chosen[u] # NoService
      <3>1. searches[q].to \in Resolved(q)
        BY <2>1, <2>3, <2>6 DEF WebSearchInv, SearchKept
      <3>2. chosen[u] \in Services /\ OnlyEnabled(configs[u], chosen[u])
        BY <2>6 DEF WebSearchInv, WebSearchOK, ChosenKept
      <3>3. {t \in ListedProviders(u) : configs[u][t].enabled} = {chosen[u]}
        BY <3>2 DEF ListedProviders, OnlyEnabled
      <3>4. Resolved(q) = {Usable(chosen[u], configs[u][chosen[u]].complete)}
        BY <2>2, <2>3, <2>6, <3>3 DEF Resolved
      <3> QED BY <2>2, <2>6, <3>1, <3>4
    <2> QED BY <2>2, <2>4, <2>5, <2>6
  <1> QED BY <1>1, <1>2, <1>3, PTL DEF WebSearchSpec

-----------------------------------------------------------------------------
(* The copies of the replicas *)

Lives == {"down", "version", "mappings", "seed", "seeded", "aips", "up",
          "reload mappings", "reload aips", "reload flags"}

ProfileRows == SUBSET (ModelNames \cup {Nobody})

EditRec == [phase : {"bump", "store", "upsert", "list", "put"}, at : Replicas,
            table : Tables, value : SettingValues \cup ModelNames \cup ProfileRows,
            overtaken : BOOLEAN]
EditTask ==
    {NoEdit} \cup {x \in EditRec : /\ x.phase = "store" => x.table = "flags"
                                   /\ x.phase = "upsert" => x.table = "mappings"
                                   /\ x.phase \in {"list", "put"} => x.table = "aips"
                                   /\ x.phase = "list" => x.value = {}}

\* A copy of each table
IsCopy(x) == x = [t \in Tables |-> x[t]]

CatalogOK ==
    /\ IsCopy(db) /\ db["aips"] \in ProfileRows /\ mem = [r \in Replicas |-> mem[r]]
    /\ \A r \in Replicas : IsCopy(mem[r])
    /\ version \in Nat \ {0}
    /\ life \in [Replicas -> Lives]
    /\ seen \in [Replicas -> Nat] /\ began \in [Replicas -> Nat]
    /\ \A r \in Replicas : /\ seen[r] <= version /\ began[r] <= version
                           /\ life[r] \in {"down", "version"} => seen[r] = 0
    /\ editing \in [Editors -> EditTask]

\* What a replica has read since the version it goes by, at each step of its life
HasRead(l, t) ==
    \/ l = "up"
    \/ t = "flags" /\ l \in {"version", "mappings", "seed", "seeded", "aips"}
    \/ t = "mappings" /\ l \in {"seed", "seeded", "aips", "reload aips", "reload flags"}
    \/ t = "aips" /\ l = "reload flags"

AsOf(r) == IF life[r] = "version" THEN began[r] ELSE seen[r]

\* A row of t without its increment yet, or r's copy without its row.
AwaitedBy(x, r, t) ==
    /\ x # NoEdit /\ x.table = t
    /\ x.phase = "bump" \/ (x.phase = "upsert" /\ x.at = r)

Awaited(r, t) ==
    \/ \E e \in Editors : AwaitedBy(editing[e], r, t)
    \/ t = "mappings" /\ \E q \in Replicas : life[q] = "seeded"

Agrees(r, t) ==
    HasRead(life[r], t) /\ AsOf(r) = version /\ <<r, t>> \notin astray /\ ~Awaited(r, t) =>
      mem[r][t] = db[t]

\* An update that none has overtaken will store what is in the table.
Current(x) == x # NoEdit /\ x.table = "flags" /\ ~x.overtaken => x.value = db["flags"]

\* The inductive invariant
CatalogInv ==
    /\ CatalogOK
    /\ \A r \in Replicas, t \in Tables : Agrees(r, t)
    /\ \A e \in Editors : Current(editing[e])

LEMMA EditTasks ==
    ASSUME CatalogOK, NEW e \in Editors, editing[e].phase # "none"
    PROVE  /\ editing[e] \in EditRec /\ editing[e] # NoEdit
           /\ editing[e].phase = "store" => editing[e].table = "flags"
           /\ editing[e].phase = "upsert" => editing[e].table = "mappings"
           /\ editing[e].phase \in {"list", "put"} => editing[e].table = "aips"
           /\ editing[e].phase = "list" => editing[e].value = {}
  BY DEF CatalogOK, EditTask, NoEdit

LEMMA CatalogInits == CatalogInit \/ CatalogInitUp => CatalogInv
  <1> SUFFICES ASSUME CatalogInit \/ CatalogInitUp PROVE CatalogInv
    OBVIOUS
  <1>1. IsCopy(Empty)
    <2>1. Empty \in [Tables -> {Default, {}}]
      BY DEF Empty, Tables
    <2> QED BY <2>1 DEF IsCopy
  <1>2. \A M, N : IsCopy([flags |-> Default, mappings |-> M, aips |-> N])
    <2> TAKE M, N
    <2>1. [flags |-> Default, mappings |-> M, aips |-> N] \in [Tables -> {Default, M, N}]
      BY DEF Tables
    <2> QED BY <2>1 DEF IsCopy
  <1>3. IsCopy(db) /\ mem = [r \in Replicas |-> mem[r]]
        /\ \A r \in Replicas : IsCopy(mem[r])
    BY <1>1, <1>2 DEF CatalogInit, CatalogInitUp
  <1>7. db["aips"] \in ProfileRows
    BY CatalogAssumption DEF CatalogInit, CatalogInitUp, ProfileRows
  <1>4. \A e \in Editors : editing[e] = NoEdit
    BY DEF CatalogInit, CatalogInitUp
  <1>5. CatalogOK
    <2>1. /\ version \in Nat \ {0} /\ life \in [Replicas -> Lives]
          /\ editing \in [Editors -> EditTask]
      <3>1. CASE CatalogInit
        BY <3>1 DEF CatalogInit, EditTask, Lives
      <3>2. CASE CatalogInitUp
        BY <3>2 DEF CatalogInitUp, EditTask, Lives
      <3> QED BY <3>1, <3>2
    <2>2. seen \in [Replicas -> Nat] /\ began \in [Replicas -> Nat]
      BY DEF CatalogInit, CatalogInitUp
    <2>3. \A r \in Replicas : /\ seen[r] <= version /\ began[r] <= version
                              /\ life[r] \in {"down", "version"} => seen[r] = 0
      BY DEF CatalogInit, CatalogInitUp
    <2> QED BY <1>3, <1>7, <2>1, <2>2, <2>3 DEF CatalogOK
  <1>6. \A r \in Replicas, t \in Tables : Agrees(r, t)
    BY DEF CatalogInit, CatalogInitUp, Agrees, HasRead
  <1> QED BY <1>4, <1>5, <1>6 DEF CatalogInv, Current

\* After an increment every copy is out of date.
LEMMA Outdated ==
    ASSUME CatalogOK, version' = version + 1, UNCHANGED <<seen, began>>
    PROVE  \A r \in Replicas, t \in Tables : Agrees(r, t)'
  BY DEF CatalogOK, Agrees, AsOf

\* What awaits an increment when editing changes nowhere
LEMMA SameAwaited ==
    ASSUME UNCHANGED editing,
           \A q \in Replicas : life[q] = "seeded" => life'[q] = "seeded"
    PROVE  \A r \in Replicas, t \in Tables : Awaited(r, t) => Awaited(r, t)'
  BY DEF Awaited

\* A copy that nothing has touched
LEMMA AgreesStill ==
    ASSUME NEW r \in Replicas, NEW t \in Tables, Agrees(r, t),
           mem'[r][t] = mem[r][t], db'[t] = db[t], version' = version,
           HasRead(life'[r], t) => HasRead(life[r], t) /\ AsOf(r)' = AsOf(r),
           <<r, t>> \in astray => <<r, t>> \in astray',
           Awaited(r, t) => Awaited(r, t)' \/ <<r, t>> \in astray'
    PROVE  Agrees(r, t)'
  BY DEF Agrees

-----------------------------------------------------------------------------
(* Replicas read *)

\* What reading a table does to the copies
LEMMA LoadCopies ==
    ASSUME CatalogOK, NEW r \in Replicas, NEW t \in Tables, Load(r, t)
    PROVE  /\ \A q \in Replicas : q # r => mem'[q] = mem[q]
           /\ \A s \in Tables : s # t => mem'[r][s] = mem[r][s]
           /\ mem' = [q \in Replicas |-> mem'[q]] /\ \A q \in Replicas : IsCopy(mem'[q])
           /\ mem'[r][t] = db[t] \/ <<r, t>> \in astray'
           /\ astray \subseteq astray'
  <1>1. PICK x : mem' = [mem EXCEPT ![r][t] = x]
    <2>1. UNCHANGED mem => mem' = [mem EXCEPT ![r][t] = mem[r][t]]
      BY DEF CatalogOK, IsCopy
    <2> QED BY <2>1 DEF Load
  <1>2. mem[r] = [s \in Tables |-> mem[r][s]] /\ mem = [q \in Replicas |-> mem[q]]
    BY DEF CatalogOK, IsCopy
  <1>3. PICK new : new = [mem[r] EXCEPT ![t] = x]
    OBVIOUS
  <1>4. mem' = [mem EXCEPT ![r] = new]
    BY <1>1, <1>3
  <1>5. mem'[r] = new /\ (\A q \in Replicas : q # r => mem'[q] = mem[q])
        /\ mem' = [q \in Replicas |-> mem'[q]]
    BY <1>2, <1>4
  <1>6. IsCopy(new) /\ new[t] = x /\ \A s \in Tables : s # t => new[s] = mem[r][s]
    BY <1>2, <1>3 DEF IsCopy
  <1>7. \A q \in Replicas : IsCopy(mem'[q])
    BY <1>5, <1>6 DEF CatalogOK
  <1>8. (mem'[r][t] = db[t] \/ <<r, t>> \in astray') /\ astray \subseteq astray'
    <2>1. CASE mem' = [mem EXCEPT ![r][t] = db[t]] /\ UNCHANGED astray
      BY <1>2, <2>1
    <2>2. CASE astray' = astray \cup {<<r, t>>}
      BY <2>2
    <2> QED BY <2>1, <2>2 DEF Load
  <1> QED BY <1>5, <1>6, <1>7, <1>8

\* r reads a table, and goes on to step l.
LEMMA LoadKept ==
    ASSUME CatalogInv, NEW r \in Replicas, NEW t \in Tables, NEW l \in Lives,
           Load(r, t), life' = [life EXCEPT ![r] = l],
           UNCHANGED <<db, version, seen, editing>>,
           began' \in {began, [began EXCEPT ![r] = version]},
           l = "version" => life[r] = "down", life[r] # "seeded", l # "down",
           \A s \in Tables : s # t /\ HasRead(l, s) =>
              HasRead(life[r], s) /\ life[r] # "version" /\ l # "version"
    PROVE  CatalogInv'
  <1>1. /\ \A q \in Replicas : q # r => mem'[q] = mem[q]
        /\ \A s \in Tables : s # t => mem'[r][s] = mem[r][s]
        /\ mem' = [q \in Replicas |-> mem'[q]] /\ \A q \in Replicas : IsCopy(mem'[q])
        /\ mem'[r][t] = db[t] \/ <<r, t>> \in astray'
        /\ astray \subseteq astray'
    BY LoadCopies DEF CatalogInv
  <1>2. life'[r] = l /\ \A q \in Replicas : q # r => life'[q] = life[q] /\ began'[q] = began[q]
    BY DEF CatalogInv, CatalogOK
  <1>3. CatalogOK'
    <2>2. began' \in [Replicas -> Nat] /\ \A q \in Replicas : began'[q] <= version
      BY DEF CatalogInv, CatalogOK
    <2>3. \A q \in Replicas : life'[q] \in {"down", "version"} => seen'[q] = 0
      BY <1>2 DEF CatalogInv, CatalogOK
    <2> QED BY <1>1, <2>2, <2>3 DEF CatalogInv, CatalogOK
  <1>4. \A q \in Replicas, s \in Tables : Awaited(q, s) => Awaited(q, s)'
    BY <1>2, SameAwaited
  <1>5. ASSUME NEW q \in Replicas, NEW s \in Tables, <<q, s>> # <<r, t>>
        PROVE  Agrees(q, s)'
    <2>1. Agrees(q, s)
      BY DEF CatalogInv
    <2>2. mem'[q][s] = mem[q][s]
      BY <1>1, <1>5
    <2>3. HasRead(life'[q], s) => HasRead(life[q], s) /\ AsOf(q)' = AsOf(q)
      <3>1. CASE q = r
        BY <1>2, <1>5, <3>1 DEF AsOf
      <3>2. CASE q # r
        BY <1>2, <3>2 DEF AsOf
      <3> QED BY <3>1, <3>2
    <2> QED BY <1>1, <1>4, <2>1, <2>2, <2>3, AgreesStill
  <1>6. Agrees(r, t)'
    BY <1>1 DEF Agrees
  <1>7. \A e \in Editors : Current(editing[e])'
    BY DEF CatalogInv, Current
  <1> QED BY <1>3, <1>5, <1>6, <1>7 DEF CatalogInv

LEMMA KeptLoads ==
    ASSUME CatalogInv, NEW r \in Replicas,
           \/ StartFlags(r) \/ StartMappings(r) \/ StartAips(r)
           \/ ReloadMappings(r) \/ ReloadAips(r) \/ ReloadFlags(r)
    PROVE  CatalogInv'
  <1>1. CASE StartFlags(r)
    BY <1>1, LoadKept DEF StartFlags, Lives, Tables, HasRead
  <1>2. CASE StartMappings(r)
    BY <1>2, LoadKept DEF StartMappings, Lives, Tables, HasRead
  <1>3. CASE StartAips(r)
    BY <1>3, LoadKept DEF StartAips, Lives, Tables, HasRead
  <1>4. CASE ReloadMappings(r)
    BY <1>4, LoadKept DEF ReloadMappings, Lives, Tables, HasRead
  <1>5. CASE ReloadAips(r)
    BY <1>5, LoadKept DEF ReloadAips, Lives, Tables, HasRead
  <1>6. CASE ReloadFlags(r)
    BY <1>6, LoadKept DEF ReloadFlags, Lives, Tables, HasRead
  <1> QED BY <1>1, <1>2, <1>3, <1>4, <1>5, <1>6

\* The version that r goes by, and with it what r has read of it, change; the
\* tables, the copies and the edits do not.
LEMMA LifeKept ==
    ASSUME CatalogInv, NEW r \in Replicas, NEW l \in Lives,
           life' = [life EXCEPT ![r] = l], life[r] # "seeded", l # "down",
           UNCHANGED <<db, version, mem, began, editing>>,
           seen' \in {seen, [seen EXCEPT ![r] = version]},
           l # "version",
           \A q \in Replicas, t \in Tables : q # r /\ <<q, t>> \in astray => <<q, t>> \in astray',
           \A t \in Tables : Agrees(r, t)'
    PROVE  CatalogInv'
  <1>1. life'[r] = l /\ \A q \in Replicas : q # r => life'[q] = life[q] /\ seen'[q] = seen[q]
    BY DEF CatalogInv, CatalogOK
  <1>2. CatalogOK'
    <2>1. seen' \in [Replicas -> Nat] /\ \A q \in Replicas : seen'[q] <= version
      BY DEF CatalogInv, CatalogOK
    <2>2. \A q \in Replicas : life'[q] \in {"down", "version"} => seen'[q] = 0
      BY <1>1 DEF CatalogInv, CatalogOK
    <2> QED BY <2>1, <2>2 DEF CatalogInv, CatalogOK
  <1>3. \A q \in Replicas, s \in Tables : Awaited(q, s) => Awaited(q, s)'
    BY <1>1, SameAwaited
  <1>4. ASSUME NEW q \in Replicas, NEW s \in Tables, q # r PROVE Agrees(q, s)'
    <2>1. Agrees(q, s)
      BY DEF CatalogInv
    <2>2. HasRead(life'[q], s) => HasRead(life[q], s) /\ AsOf(q)' = AsOf(q)
      BY <1>1, <1>4 DEF AsOf
    <2> QED BY <1>3, <1>4, <2>1, <2>2, AgreesStill
  <1>5. \A e \in Editors : Current(editing[e])'
    BY DEF CatalogInv, Current
  <1> QED BY <1>2, <1>4, <1>5 DEF CatalogInv

LEMMA KeptStartVersion ==
    ASSUME CatalogInv, NEW r \in Replicas, StartVersion(r)
    PROVE  CatalogInv'
  <1>1. /\ life[r] = "version" /\ life' = [life EXCEPT ![r] = "mappings"]
        /\ UNCHANGED <<db, version, mem, began, editing>>
        /\ \/ /\ seen' = [seen EXCEPT ![r] = version]
              /\ astray' = IF version = began[r] THEN astray
                           ELSE astray \cup {<<r, "flags">>}
           \/ UNCHANGED <<seen, astray>>
    BY DEF StartVersion
  <1>2. life'[r] = "mappings" /\ seen[r] = 0 /\ version \in Nat \ {0}
        /\ \A q \in Replicas : q # r => life'[q] = life[q]
    BY <1>1 DEF CatalogInv, CatalogOK
  <1>3. ASSUME NEW t \in Tables PROVE Agrees(r, t)'
    <2>1. CASE UNCHANGED <<seen, astray>>
      BY <1>1, <1>2, <2>1 DEF Agrees, AsOf
    <2>2. CASE t # "flags"
      BY <1>2, <2>2 DEF Agrees, HasRead
    <2>3. CASE t = "flags" /\ seen' = [seen EXCEPT ![r] = version]
      <3>1. Agrees(r, t)
        BY DEF CatalogInv
      <3>2. Awaited(r, t) => Awaited(r, t)'
        BY <1>1, <1>2, SameAwaited
      <3>3. CASE version = began[r]
        <4>1. HasRead(life[r], t) /\ AsOf(r) = version
          BY <1>1, <2>3, <3>3 DEF HasRead, AsOf
        <4> QED BY <1>1, <2>3, <3>1, <3>2, <3>3, <4>1 DEF Agrees
      <3>4. CASE version # began[r]
        <4>1. <<r, t>> \in astray'
          BY <1>1, <1>2, <2>3, <3>4 DEF CatalogInv, CatalogOK
        <4> QED BY <4>1 DEF Agrees
      <3> QED BY <3>3, <3>4
    <2> QED BY <1>1, <2>1, <2>2, <2>3
  <1>4. astray \subseteq astray'
    BY <1>1
  <1> QED BY <1>1, <1>3, <1>4, LifeKept DEF Lives

LEMMA KeptPoll ==
    ASSUME CatalogInv, NEW r \in Replicas, Poll(r)
    PROVE  CatalogInv'
  <1>1. /\ life[r] = "up" /\ life' = [life EXCEPT ![r] = "reload mappings"]
        /\ seen' = [seen EXCEPT ![r] = version]
        /\ astray' = {a \in astray : a[1] # r}
        /\ UNCHANGED <<db, version, mem, began, editing>>
    BY DEF Poll
  <1>2. ASSUME NEW t \in Tables PROVE Agrees(r, t)'
    <2>1. life'[r] = "reload mappings"
      BY <1>1 DEF CatalogInv, CatalogOK
    <2> QED BY <2>1 DEF Agrees, HasRead
  <1>3. \A q \in Replicas, t \in Tables : q # r /\ <<q, t>> \in astray => <<q, t>> \in astray'
    BY <1>1
  <1> QED BY <1>1, <1>2, <1>3, LifeKept DEF Lives

-----------------------------------------------------------------------------
(* Replicas seed, migrate and stop *)

LEMMA KeptSeed ==
    ASSUME CatalogInv, NEW r \in Replicas, Seed(r)
    PROVE  CatalogInv'
  <1>1. PICK l \in {"aips", "seeded"} :
           /\ life' = [life EXCEPT ![r] = l]
           /\ l = "aips" => db' = db
           /\ db' = db \/ db' = [db EXCEPT !["mappings"] = @ \cup Seeds]
    <2>1. CASE Seeds \subseteq db["mappings"] /\ db' = [db EXCEPT !["mappings"] = @ \cup Seeds]
      <3>1. db["mappings"] \cup Seeds = db["mappings"]
        BY <2>1
      <3>2. db' = db
        BY <2>1, <3>1 DEF CatalogInv, CatalogOK, IsCopy
      <3> QED BY <2>1, <3>2 DEF Seed
    <2> QED BY <2>1 DEF Seed
  <1>2. life[r] = "seed" /\ UNCHANGED <<version, mem, seen, began, editing, astray>>
    BY DEF Seed
  <1>3. life'[r] = l /\ \A q \in Replicas : q # r => life'[q] = life[q]
    BY <1>1 DEF CatalogInv, CatalogOK
  <1>4. \A t \in Tables : t # "mappings" => db'[t] = db[t]
    BY <1>1 DEF CatalogInv, CatalogOK, IsCopy
  <1>5. IsCopy(db')
    BY <1>1 DEF CatalogInv, CatalogOK, IsCopy
  <1>6. CatalogOK'
    <2>1. l \in Lives
      BY DEF Lives
    <2>2. db'["aips"] \in ProfileRows
      BY <1>4 DEF CatalogInv, CatalogOK, Tables
    <2> QED BY <1>1, <1>2, <1>3, <1>5, <2>1, <2>2 DEF CatalogInv, CatalogOK
  <1>7. \A q \in Replicas, t \in Tables : Awaited(q, t) => Awaited(q, t)'
    BY <1>2, <1>3, SameAwaited
  <1>8. ASSUME NEW q \in Replicas, NEW t \in Tables PROVE Agrees(q, t)'
    <2>1. Agrees(q, t)
      BY DEF CatalogInv
    <2>2. HasRead(life'[q], t) => HasRead(life[q], t) /\ AsOf(q)' = AsOf(q)
      BY <1>2, <1>3 DEF AsOf, HasRead
    <2>3. CASE db'[t] = db[t]
      BY <1>2, <1>7, <2>1, <2>2, <2>3, AgreesStill
    <2>4. CASE db'[t] # db[t]
      <3>1. t = "mappings" /\ l = "seeded"
        BY <1>1, <1>4, <2>4
      <3>2. Awaited(q, t)'
        BY <1>3, <3>1 DEF Awaited
      <3> QED BY <3>2 DEF Agrees
    <2> QED BY <2>3, <2>4
  <1>9. \A e \in Editors : Current(editing[e])'
    BY <1>2, <1>4 DEF CatalogInv, Current, Tables
  <1> QED BY <1>6, <1>8, <1>9 DEF CatalogInv

LEMMA KeptSeedBump ==
    ASSUME CatalogInv, NEW r \in Replicas, SeedBump(r)
    PROVE  CatalogInv'
  <1>1. /\ life[r] = "seeded" /\ life' = [life EXCEPT ![r] = "aips"]
        /\ UNCHANGED <<db, seen, began, editing>>
        /\ \/ version' = version + 1 /\ Load(r, "mappings")
           \/ /\ astray' = astray \cup Everyone("mappings")
              /\ UNCHANGED <<version, mem>>
    BY DEF SeedBump
  <1>2. life'[r] = "aips" /\ \A q \in Replicas : q # r => life'[q] = life[q]
    BY <1>1 DEF CatalogInv, CatalogOK
  <1>3. CatalogOK'
    <2>1. mem' = [q \in Replicas |-> mem'[q]] /\ \A q \in Replicas : IsCopy(mem'[q])
      <3>1. CASE Load(r, "mappings")
        BY <3>1, LoadCopies DEF CatalogInv, Tables
      <3>2. CASE UNCHANGED mem
        BY <3>2 DEF CatalogInv, CatalogOK
      <3> QED BY <1>1, <3>1, <3>2
    <2>2. version' \in Nat \ {0} /\ version <= version'
      BY <1>1 DEF CatalogInv, CatalogOK
    <2>3. \A q \in Replicas : /\ seen'[q] <= version' /\ began'[q] <= version'
                              /\ life'[q] \in {"down", "version"} => seen'[q] = 0
      BY <1>1, <1>2, <2>2 DEF CatalogInv, CatalogOK
    <2>4. life' \in [Replicas -> Lives]
      BY <1>1 DEF CatalogInv, CatalogOK, Lives
    <2> QED BY <1>1, <2>1, <2>2, <2>3, <2>4 DEF CatalogInv, CatalogOK
  <1>4. \A q \in Replicas, t \in Tables : Agrees(q, t)'
    <2>1. CASE version' = version + 1
      BY <1>1, <2>1, Outdated DEF CatalogInv
    <2>2. ASSUME astray' = astray \cup Everyone("mappings"), UNCHANGED <<version, mem>>,
                 NEW q \in Replicas, NEW t \in Tables
          PROVE  Agrees(q, t)'
      <3>1. CASE t = "mappings"
        BY <2>2, <3>1 DEF Agrees, Everyone
      <3>2. CASE t # "mappings"
        <4>1. Awaited(q, t) => Awaited(q, t)'
          BY <1>1, <3>2 DEF Awaited
        <4>2. HasRead(life'[q], t) => HasRead(life[q], t) /\ AsOf(q)' = AsOf(q)
          BY <1>1, <1>2, <3>2 DEF HasRead, AsOf
        <4> QED BY <1>1, <2>2, <4>1, <4>2, AgreesStill DEF CatalogInv
      <3> QED BY <3>1, <3>2
    <2> QED BY <1>1, <2>1, <2>2
  <1>5. \A e \in Editors : Current(editing[e])'
    BY <1>1 DEF CatalogInv, Current
  <1> QED BY <1>3, <1>4, <1>5 DEF CatalogInv

LEMMA KeptMigrate ==
    ASSUME CatalogInv, NEW r \in Replicas, Migrate(r)
    PROVE  CatalogInv'
  <1>1. /\ UNCHANGED <<version, mem, life, seen, began, editing>>
        /\ \/ /\ db' = [db EXCEPT !["aips"] = @ \cup {Legacy}]
              /\ astray' = IF Legacy \in db["aips"] THEN astray
                           ELSE astray \cup Everyone("aips")
           \/ UNCHANGED <<db, astray>>
    BY DEF Migrate
  <1>2. IsCopy(db') /\ \A t \in Tables : t # "aips" => db'[t] = db[t]
    BY <1>1 DEF CatalogInv, CatalogOK, IsCopy
  <1>3. CatalogOK'
    <2>1. db'["aips"] \in ProfileRows
      BY <1>1, CatalogAssumption DEF CatalogInv, CatalogOK, IsCopy, Tables, ProfileRows
    <2> QED BY <1>1, <1>2, <2>1 DEF CatalogInv, CatalogOK
  <1>4. astray \subseteq astray'
        /\ (db'["aips"] = db["aips"] \/ Everyone("aips") \subseteq astray')
    <2>1. CASE UNCHANGED <<db, astray>>
      BY <2>1
    <2>2. CASE /\ db' = [db EXCEPT !["aips"] = @ \cup {Legacy}]
               /\ astray' = IF Legacy \in db["aips"] THEN astray
                            ELSE astray \cup Everyone("aips")
      <3>1. "aips" \in Tables
        BY DEF Tables
      <3>2. db'["aips"] = db["aips"] \cup {Legacy}
        BY <2>2, <3>1 DEF CatalogInv, CatalogOK, IsCopy
      <3> QED BY <2>2, <3>2
    <2> QED BY <1>1, <2>1, <2>2
  <1>5. ASSUME NEW q \in Replicas, NEW t \in Tables PROVE Agrees(q, t)'
    <2>1. Agrees(q, t) /\ AsOf(q)' = AsOf(q) /\ (Awaited(q, t) => Awaited(q, t)')
      BY <1>1, SameAwaited DEF CatalogInv, AsOf
    <2>2. CASE db'[t] = db[t]
      BY <1>1, <1>4, <2>1, <2>2, AgreesStill
    <2>3. CASE db'[t] # db[t]
      <3>1. <<q, t>> \in astray'
        BY <1>2, <1>4, <2>3 DEF Everyone
      <3> QED BY <3>1 DEF Agrees
    <2> QED BY <2>2, <2>3
  <1>6. \A e \in Editors : Current(editing[e])'
    BY <1>1, <1>2 DEF CatalogInv, Current, Tables
  <1> QED BY <1>3, <1>5, <1>6 DEF CatalogInv

LEMMA KeptStop ==
    ASSUME CatalogInv, NEW r \in Replicas, Stop(r)
    PROVE  CatalogInv'
  <1>1. /\ life' = [life EXCEPT ![r] = "down"]
        /\ mem' = [mem EXCEPT ![r] = Empty]
        /\ seen' = [seen EXCEPT ![r] = 0]
        /\ editing' = [e \in Editors |-> IF editing[e].phase # "none" /\ editing[e].at = r
                                         THEN NoEdit ELSE editing[e]]
        /\ UNCHANGED <<db, version, began>>
    BY DEF Stop
  <1>2. /\ \A q \in Replicas, t \in Tables :
              q # r /\ <<q, t>> \in astray => <<q, t>> \in astray'
        /\ \A e \in Unannounced(r) : Everyone(editing[e].table) \subseteq astray'
        /\ life[r] = "seeded" => Everyone("mappings") \subseteq astray'
    <2>1. ASSUME NEW a
          PROVE  a \in astray' <=> \/ a \in astray /\ a[1] # r
                                   \/ \E e \in Unannounced(r) :
                                         a \in Everyone(editing[e].table)
                                   \/ life[r] = "seeded" /\ a \in Everyone("mappings")
      BY DEF Stop
    <2>2. \A q \in Replicas, t \in Tables :
             q # r /\ <<q, t>> \in astray => <<q, t>> \in astray'
      BY <2>1
    <2>3. ASSUME NEW e \in Unannounced(r) PROVE Everyone(editing[e].table) \subseteq astray'
      BY <2>1
    <2>4. life[r] = "seeded" => Everyone("mappings") \subseteq astray'
      BY <2>1
    <2> QED BY <2>2, <2>3, <2>4
  <1>3. life'[r] = "down"
        /\ \A q \in Replicas : q # r => /\ life'[q] = life[q] /\ seen'[q] = seen[q]
                                        /\ mem'[q] = mem[q]
    BY <1>1 DEF CatalogInv, CatalogOK
  <1>4. CatalogOK'
    <2>1. IsCopy(Empty)
      <3>1. Empty \in [Tables -> {Default, {}}]
        BY DEF Empty, Tables
      <3> QED BY <3>1 DEF IsCopy
    <2>2. mem' = [q \in Replicas |-> mem'[q]] /\ \A q \in Replicas : IsCopy(mem'[q])
      BY <1>1, <2>1 DEF CatalogInv, CatalogOK
    <2>3. editing' \in [Editors -> EditTask]
      BY <1>1 DEF CatalogInv, CatalogOK, EditTask
    <2>4. life' \in [Replicas -> Lives] /\ seen' \in [Replicas -> Nat]
      BY <1>1 DEF CatalogInv, CatalogOK, Lives
    <2>5. \A q \in Replicas : /\ seen'[q] <= version /\ began[q] <= version
                              /\ life'[q] \in {"down", "version"} => seen'[q] = 0
      BY <1>1, <1>3 DEF CatalogInv, CatalogOK
    <2> QED BY <1>1, <2>2, <2>3, <2>4, <2>5 DEF CatalogInv, CatalogOK
  <1>5. ASSUME NEW q \in Replicas, NEW t \in Tables PROVE Agrees(q, t)'
    <2>1. CASE q = r
      BY <1>3, <2>1 DEF Agrees, HasRead
    <2>2. CASE q # r
      <3>1. ASSUME NEW e \in Editors, AwaitedBy(editing[e], q, t)
            PROVE  Awaited(q, t)' \/ <<q, t>> \in astray'
        <4>1. CASE editing[e].phase # "none" /\ editing[e].at = r
          <5>1. e \in Unannounced(r) /\ editing[e].table = t
            BY <2>2, <3>1, <4>1 DEF AwaitedBy, Unannounced
          <5> QED BY <1>2, <5>1 DEF Everyone
        <4>2. CASE ~(editing[e].phase # "none" /\ editing[e].at = r)
          <5>1. editing'[e] = editing[e]
            BY <1>1, <4>2
          <5> QED BY <3>1, <5>1 DEF Awaited, AwaitedBy
        <4> QED BY <4>1, <4>2
      <3>2. ASSUME NEW p \in Replicas, t = "mappings", life[p] = "seeded"
            PROVE  Awaited(q, t)' \/ <<q, t>> \in astray'
        <4>1. CASE p = r
          BY <1>2, <3>2, <4>1 DEF Everyone
        <4>2. CASE p # r
          BY <1>3, <3>2, <4>2 DEF Awaited
        <4> QED BY <4>1, <4>2
      <3>3. Awaited(q, t) => Awaited(q, t)' \/ <<q, t>> \in astray'
        BY <3>1, <3>2 DEF Awaited
      <3>4. HasRead(life'[q], t) => HasRead(life[q], t) /\ AsOf(q)' = AsOf(q)
        BY <1>1, <1>3, <2>2 DEF AsOf
      <3> QED BY <1>1, <1>2, <1>3, <2>2, <3>3, <3>4, AgreesStill DEF CatalogInv
    <2> QED BY <2>1, <2>2
  <1>6. \A e \in Editors : Current(editing[e])'
    BY <1>1 DEF CatalogInv, Current
  <1> QED BY <1>4, <1>5, <1>6 DEF CatalogInv

-----------------------------------------------------------------------------
(* Changes *)

\* Edits, the tables and the copies change; no replica moves.
LEMMA EditsOK ==
    ASSUME CatalogOK, editing' \in [Editors -> EditTask],
           IsCopy(db'), db'["aips"] \in ProfileRows,
           mem' = [q \in Replicas |-> mem'[q]], \A q \in Replicas : IsCopy(mem'[q]),
           version' \in {version, version + 1}, UNCHANGED <<life, seen, began>>
    PROVE  CatalogOK'
  <1>1. version' \in Nat \ {0} /\ version <= version'
    BY DEF CatalogOK
  <1>2. \A r \in Replicas : seen'[r] <= version' /\ began'[r] <= version'
    BY <1>1 DEF CatalogOK
  <1> QED BY <1>1, <1>2 DEF CatalogOK

\* What others than e wait for they still wait for.
LEMMA AwaitedStill ==
    ASSUME NEW e \in Editors, NEW q \in Replicas, NEW t \in Tables, UNCHANGED life,
           \A d \in Editors : d # e /\ AwaitedBy(editing[d], q, t) =>
              AwaitedBy(editing[d], q, t)'
    PROVE  Awaited(q, t) /\ ~AwaitedBy(editing[e], q, t) => Awaited(q, t)'
  BY DEF Awaited

LEMMA KeptWriteSetting ==
    ASSUME CatalogInv, NEW e \in Editors, NEW r \in Replicas, NEW v \in SettingValues,
           WriteSetting(e, r, v)
    PROVE  CatalogInv'
  <1>1. PICK late \in BOOLEAN : late = (SettingEdits # {})
    BY Zenon
  <1>2. PICK x : x = Edit("bump", r, "flags", v, late)
    OBVIOUS
  <1>3. /\ editing[e] = NoEdit
        /\ db' = [db EXCEPT !["flags"] = v]
        /\ editing' = [Overtaken EXCEPT ![e] = x]
        /\ UNCHANGED <<version, mem, life, seen, began, astray>>
    BY <1>1, <1>2 DEF WriteSetting, Begins
  <1>4. x \in EditTask /\ x # NoEdit /\ x.table = "flags" /\ x.phase = "bump" /\ x.value = v
    BY <1>2 DEF Edit, EditTask, EditRec, NoEdit, Tables
  <1>5. ASSUME NEW d \in Editors
        PROVE  /\ Overtaken[d] \in EditTask
               /\ d \notin SettingEdits => Overtaken[d] = editing[d]
               /\ d \in SettingEdits => /\ Overtaken[d].overtaken = TRUE
                                        /\ Overtaken[d] # NoEdit
                                        /\ Overtaken[d].phase = editing[d].phase
                                        /\ Overtaken[d].table = editing[d].table
                                        /\ Overtaken[d].at = editing[d].at
    <2>1. CASE d \in SettingEdits
      <3>1. editing[d] \in EditRec /\ editing[d] # NoEdit /\ editing[d].phase # "none"
        BY <2>1, EditTasks DEF SettingEdits, CatalogInv
      <3>2. Overtaken[d] = [editing[d] EXCEPT !.overtaken = TRUE]
        BY <2>1 DEF Overtaken
      <3> QED BY <2>1, <3>1, <3>2, EditTasks DEF EditRec, EditTask, NoEdit, CatalogInv
    <2>2. CASE d \notin SettingEdits
      BY <2>2 DEF Overtaken, CatalogInv, CatalogOK
    <2> QED BY <2>1, <2>2
  <1>6. /\ editing' \in [Editors -> EditTask] /\ editing'[e] = x
        /\ \A d \in Editors : d # e => editing'[d] = Overtaken[d]
    <2>1. Overtaken \in [Editors -> EditTask]
      BY <1>5 DEF Overtaken
    <2> QED BY <1>3, <1>4, <2>1
  <1>7. IsCopy(db') /\ db'["flags"] = v /\ \A t \in Tables : t # "flags" => db'[t] = db[t]
    BY <1>3 DEF CatalogInv, CatalogOK, IsCopy, Tables
  <1>8. CatalogOK'
    BY <1>3, <1>6, <1>7, EditsOK DEF CatalogInv, CatalogOK, Tables
  <1>9. ASSUME NEW q \in Replicas, NEW t \in Tables PROVE Agrees(q, t)'
    <2>1. CASE t = "flags"
      <3>1. Awaited(q, t)'
        BY <1>4, <1>6, <2>1 DEF Awaited, AwaitedBy
      <3> QED BY <3>1 DEF Agrees
    <2>2. CASE t # "flags"
      <3>1. \A d \in Editors : d # e /\ AwaitedBy(editing[d], q, t) =>
                                 AwaitedBy(editing[d], q, t)'
        BY ZenonT(40), <1>5, <1>6 DEF AwaitedBy
      <3>2. ~AwaitedBy(editing[e], q, t)
        BY <1>3 DEF AwaitedBy
      <3>3. Awaited(q, t) => Awaited(q, t)'
        BY <1>3, <3>1, <3>2, AwaitedStill
      <3>4. AsOf(q)' = AsOf(q)
        BY <1>3 DEF AsOf
      <3> QED BY <1>3, <1>7, <2>2, <3>3, <3>4, AgreesStill DEF CatalogInv
    <2> QED BY <2>1, <2>2
  <1>10. ASSUME NEW d \in Editors PROVE Current(editing[d])'
    <2>1. CASE d = e
      BY <1>4, <1>6, <1>7, <2>1 DEF Current
    <2>2. CASE d # e /\ d \in SettingEdits
      BY <1>5, <1>6, <2>2 DEF Current
    <2>3. CASE d # e /\ d \notin SettingEdits
      <3>1. editing'[d] = NoEdit \/ editing'[d].table # "flags"
        BY <1>5, <1>6, <2>3 DEF SettingEdits, CatalogInv, CatalogOK, EditTask, EditRec
      <3> QED BY <3>1 DEF Current
    <2> QED BY <2>1, <2>2, <2>3
  <1> QED BY <1>8, <1>9, <1>10 DEF CatalogInv

\* One edit begins, goes on or ends, as x; the settings' row is as it was.
LEMMA EditKept ==
    ASSUME CatalogInv, NEW e \in Editors, NEW x \in EditTask,
           editing' = [editing EXCEPT ![e] = x],
           UNCHANGED <<version, life, seen, began>>, astray \subseteq astray',
           IsCopy(db'), db'["flags"] = db["flags"], db'["aips"] \in ProfileRows,
           mem' = [q \in Replicas |-> mem'[q]], \A q \in Replicas : IsCopy(mem'[q]),
           Current(x),
           \A q \in Replicas, t \in Tables :
              \/ AwaitedBy(x, q, t) \/ <<q, t>> \in astray' \/ mem'[q][t] = db'[t]
              \/ /\ mem'[q][t] = mem[q][t] /\ db'[t] = db[t]
                 /\ ~AwaitedBy(editing[e], q, t)
    PROVE  CatalogInv'
  <1>1. /\ editing' \in [Editors -> EditTask] /\ editing'[e] = x
        /\ \A d \in Editors : d # e => editing'[d] = editing[d]
    BY DEF CatalogInv, CatalogOK
  <1>2. CatalogOK'
    BY <1>1, EditsOK DEF CatalogInv
  <1>3. ASSUME NEW q \in Replicas, NEW t \in Tables PROVE Agrees(q, t)'
    <2>1. CASE AwaitedBy(x, q, t)
      <3>1. Awaited(q, t)'
        BY <1>1, <2>1 DEF Awaited, AwaitedBy
      <3> QED BY <3>1 DEF Agrees
    <2>2. CASE <<q, t>> \in astray' \/ mem'[q][t] = db'[t]
      BY <2>2 DEF Agrees
    <2>3. CASE /\ mem'[q][t] = mem[q][t] /\ db'[t] = db[t]
               /\ ~AwaitedBy(editing[e], q, t)
      <3>1. \A d \in Editors : d # e /\ AwaitedBy(editing[d], q, t) =>
                                 AwaitedBy(editing[d], q, t)'
        BY <1>1 DEF AwaitedBy
      <3>2. Awaited(q, t) => Awaited(q, t)'
        BY <2>3, <3>1, AwaitedStill
      <3>3. AsOf(q)' = AsOf(q)
        BY DEF AsOf
      <3> QED BY <2>3, <3>2, <3>3, AgreesStill DEF CatalogInv
    <2> QED BY <2>1, <2>2, <2>3
  <1>4. ASSUME NEW d \in Editors PROVE Current(editing[d])'
    BY <1>1 DEF CatalogInv, Current
  <1> QED BY <1>2, <1>3, <1>4 DEF CatalogInv

LEMMA KeptBump ==
    ASSUME CatalogInv, NEW e \in Editors, Bump(e)
    PROVE  CatalogInv'
  <1>1. /\ editing[e].phase = "bump" /\ UNCHANGED <<db, mem, life, seen, began>>
        /\ \/ /\ version' = version + 1
              /\ editing' = [editing EXCEPT ![e] = IF editing[e].table = "flags"
                                                   THEN [editing[e] EXCEPT !.phase = "store"]
                                                   ELSE NoEdit]
           \/ /\ astray' = astray \cup Everyone(editing[e].table)
              /\ editing' = [editing EXCEPT ![e] = NoEdit]
              /\ UNCHANGED version
    BY DEF Bump
  <1>2. editing[e] \in EditRec /\ editing[e] # NoEdit
    BY <1>1, EditTasks DEF CatalogInv
  <1>3. NoEdit \in EditTask /\ Current(NoEdit) /\ \A q, t : ~AwaitedBy(NoEdit, q, t)
    BY DEF EditTask, Current, AwaitedBy
  <1>4. CASE version' = version + 1
    <2>1. PICK x : x = IF editing[e].table = "flags"
                       THEN [editing[e] EXCEPT !.phase = "store"] ELSE NoEdit
      OBVIOUS
    <2>2. editing' = [editing EXCEPT ![e] = x]
      <3>1. version' # version
        BY <1>4 DEF CatalogInv, CatalogOK
      <3> QED BY <1>1, <2>1, <3>1
    <2>3. x \in EditTask
      BY <1>2, <2>1 DEF EditTask, EditRec
    <2>4. Current(x)
      <3>1. CASE editing[e].table = "flags"
        <4>1. x.value = editing[e].value /\ x.overtaken = editing[e].overtaken
          BY <1>2, <2>1, <3>1 DEF EditRec
        <4>2. Current(editing[e])
          BY DEF CatalogInv
        <4> QED BY <1>2, <3>1, <4>1, <4>2 DEF Current
      <3>2. CASE editing[e].table # "flags"
        BY <1>3, <2>1, <3>2
      <3> QED BY <3>1, <3>2
    <2>5. CatalogOK'
      <3>1. editing' \in [Editors -> EditTask]
        BY <2>2, <2>3 DEF CatalogInv, CatalogOK
      <3> QED BY <1>1, <1>4, <3>1, EditsOK DEF CatalogInv, CatalogOK
    <2>6. \A r \in Replicas, t \in Tables : Agrees(r, t)'
      BY <1>1, <1>4, Outdated DEF CatalogInv
    <2>7. ASSUME NEW d \in Editors PROVE Current(editing[d])'
      <3>1. editing'[d] = IF d = e THEN x ELSE editing[d]
        BY <2>2 DEF CatalogInv, CatalogOK
      <3> QED BY <1>1, <2>4, <3>1 DEF CatalogInv, Current
    <2> QED BY <2>5, <2>6, <2>7 DEF CatalogInv
  <1>5. CASE /\ astray' = astray \cup Everyone(editing[e].table)
             /\ editing' = [editing EXCEPT ![e] = NoEdit]
             /\ UNCHANGED version
    <2>1. ASSUME NEW q \in Replicas, NEW t \in Tables
          PROVE  <<q, t>> \in astray' \/ ~AwaitedBy(editing[e], q, t)
      BY <1>5 DEF AwaitedBy, Everyone
    <2>2. astray \subseteq astray'
      BY <1>5
    <2>3. /\ IsCopy(db') /\ db'["flags"] = db["flags"] /\ db'["aips"] \in ProfileRows
          /\ mem' = [q \in Replicas |-> mem'[q]] /\ \A q \in Replicas : IsCopy(mem'[q])
      BY <1>1 DEF CatalogInv, CatalogOK
    <2> QED BY <1>1, <1>3, <1>5, <2>1, <2>2, <2>3, EditKept
  <1> QED BY <1>1, <1>4, <1>5

LEMMA KeptStoreSetting ==
    ASSUME CatalogInv, NEW e \in Editors, StoreSetting(e)
    PROVE  CatalogInv'
  <1>1. /\ editing[e] \in EditRec /\ editing[e] # NoEdit /\ editing[e].table = "flags"
        /\ editing[e].phase = "store"
    BY EditTasks DEF StoreSetting, CatalogInv
  <1>2. PICK r \in Replicas : r = editing[e].at
    BY <1>1 DEF EditRec
  <1>3. /\ mem' = [mem EXCEPT ![r]["flags"] = editing[e].value]
        /\ astray' = IF editing[e].overtaken THEN astray \cup {<<r, "flags">>} ELSE astray
        /\ editing' = [editing EXCEPT ![e] = NoEdit]
        /\ UNCHANGED <<db, version, life, seen, began>>
    BY <1>2 DEF StoreSetting
  <1>4. /\ \A q \in Replicas : q # r => mem'[q] = mem[q]
        /\ \A t \in Tables : t # "flags" => mem'[r][t] = mem[r][t]
        /\ mem'[r]["flags"] = editing[e].value
        /\ mem' = [q \in Replicas |-> mem'[q]] /\ \A q \in Replicas : IsCopy(mem'[q])
    BY <1>3 DEF CatalogInv, CatalogOK, IsCopy, Tables
  <1>5. <<r, "flags">> \in astray' \/ mem'[r]["flags"] = db'["flags"]
    BY <1>1, <1>3, <1>4 DEF CatalogInv, Current
  <1>6. NoEdit \in EditTask /\ Current(NoEdit)
        /\ \A q, t : ~AwaitedBy(editing[e], q, t)
    BY <1>1 DEF EditTask, Current, AwaitedBy
  <1>7. astray \subseteq astray' /\ IsCopy(db') /\ db'["aips"] \in ProfileRows
    BY <1>3 DEF CatalogInv, CatalogOK
  <1>8. \A q \in Replicas, t \in Tables :
           \/ <<q, t>> \in astray' \/ mem'[q][t] = db'[t]
           \/ mem'[q][t] = mem[q][t] /\ db'[t] = db[t] /\ ~AwaitedBy(editing[e], q, t)
    BY <1>3, <1>4, <1>5, <1>6
  <1> QED BY <1>3, <1>4, <1>6, <1>7, <1>8, EditKept

LEMMA KeptLearnMapping ==
    ASSUME CatalogInv, NEW e \in Editors, NEW r \in Replicas, NEW m \in ModelNames,
           LearnMapping(e, r, m)
    PROVE  CatalogInv'
  <1>1. PICK x : x = Edit("upsert", r, "mappings", m, FALSE)
    OBVIOUS
  <1>2. /\ editing[e] = NoEdit /\ editing' = [editing EXCEPT ![e] = x]
        /\ mem' = [mem EXCEPT ![r]["mappings"] = @ \cup {m}]
        /\ UNCHANGED <<db, version, life, seen, began, astray>>
    BY <1>1 DEF LearnMapping, Begins
  <1>3. /\ x \in EditTask /\ x # NoEdit /\ x.phase = "upsert" /\ x.at = r
        /\ x.table = "mappings"
    BY <1>1 DEF Edit, EditTask, EditRec, NoEdit, Tables
  <1>4. /\ \A q \in Replicas : q # r => mem'[q] = mem[q]
        /\ \A t \in Tables : t # "mappings" => mem'[r][t] = mem[r][t]
        /\ mem' = [q \in Replicas |-> mem'[q]] /\ \A q \in Replicas : IsCopy(mem'[q])
    BY <1>2 DEF CatalogInv, CatalogOK, IsCopy
  <1>5. Current(x) /\ AwaitedBy(x, r, "mappings")
        /\ \A q, t : ~AwaitedBy(editing[e], q, t)
    BY <1>2, <1>3 DEF Current, AwaitedBy
  <1>6. IsCopy(db') /\ astray \subseteq astray' /\ db'["aips"] \in ProfileRows
    BY <1>2 DEF CatalogInv, CatalogOK
  <1>7. \A q \in Replicas, t \in Tables :
           \/ AwaitedBy(x, q, t)
           \/ mem'[q][t] = mem[q][t] /\ db'[t] = db[t] /\ ~AwaitedBy(editing[e], q, t)
    BY <1>2, <1>4, <1>5
  <1> QED BY <1>2, <1>3, <1>4, <1>5, <1>6, <1>7, EditKept

LEMMA KeptUpsertMapping ==
    ASSUME CatalogInv, NEW e \in Editors, UpsertMapping(e)
    PROVE  CatalogInv'
  <1>1. /\ editing[e] \in EditRec /\ editing[e] # NoEdit /\ editing[e].table = "mappings"
        /\ editing[e].phase = "upsert"
    BY EditTasks DEF UpsertMapping, CatalogInv
  <1>2. /\ UNCHANGED <<version, mem, life, seen, began>>
        /\ \/ /\ db' = [db EXCEPT !["mappings"] = @ \cup {editing[e].value}]
              /\ editing' = [editing EXCEPT ![e].phase = "bump"]
              /\ UNCHANGED astray
           \/ /\ astray' = astray \cup {<<editing[e].at, "mappings">>}
              /\ editing' = [editing EXCEPT ![e] = NoEdit]
              /\ UNCHANGED db
    BY DEF UpsertMapping
  <1>3. mem' = [q \in Replicas |-> mem'[q]] /\ \A q \in Replicas : IsCopy(mem'[q])
    BY <1>2 DEF CatalogInv, CatalogOK
  <1>4. \A q, t : t # "mappings" \/ q # editing[e].at => ~AwaitedBy(editing[e], q, t)
    BY <1>1 DEF AwaitedBy
  <1>5. CASE /\ db' = [db EXCEPT !["mappings"] = @ \cup {editing[e].value}]
             /\ editing' = [editing EXCEPT ![e].phase = "bump"]
             /\ UNCHANGED astray
    <2>1. PICK x : x = [editing[e] EXCEPT !.phase = "bump"]
      OBVIOUS
    <2>2. editing' = [editing EXCEPT ![e] = x]
      BY <1>5, <2>1 DEF CatalogInv, CatalogOK
    <2>3. x \in EditTask /\ x # NoEdit /\ x.phase = "bump" /\ x.table = "mappings"
      BY <1>1, <2>1 DEF EditTask, EditRec, NoEdit
    <2>4. Current(x) /\ \A q : AwaitedBy(x, q, "mappings")
      BY <2>3 DEF Current, AwaitedBy
    <2>5. IsCopy(db') /\ \A t \in Tables : t # "mappings" => db'[t] = db[t]
      BY <1>5 DEF CatalogInv, CatalogOK, IsCopy
    <2>6. db'["flags"] = db["flags"] /\ db'["aips"] \in ProfileRows
      BY <2>5 DEF Tables, CatalogInv, CatalogOK
    <2>7. \A q \in Replicas, t \in Tables :
             \/ AwaitedBy(x, q, t)
             \/ mem'[q][t] = mem[q][t] /\ db'[t] = db[t] /\ ~AwaitedBy(editing[e], q, t)
      BY <1>2, <1>4, <2>4, <2>5
    <2> QED BY <1>2, <1>3, <1>5, <2>2, <2>3, <2>4, <2>5, <2>6, <2>7, EditKept
  <1>6. CASE /\ astray' = astray \cup {<<editing[e].at, "mappings">>}
             /\ editing' = [editing EXCEPT ![e] = NoEdit]
             /\ UNCHANGED db
    <2>1. NoEdit \in EditTask /\ Current(NoEdit)
      BY DEF EditTask, Current
    <2>2. IsCopy(db') /\ astray \subseteq astray' /\ db'["aips"] \in ProfileRows
      BY <1>6 DEF CatalogInv, CatalogOK
    <2>3. \A q \in Replicas, t \in Tables :
             \/ <<q, t>> \in astray'
             \/ mem'[q][t] = mem[q][t] /\ db'[t] = db[t] /\ ~AwaitedBy(editing[e], q, t)
      BY <1>2, <1>4, <1>6
    <2> QED BY <1>2, <1>3, <1>6, <2>1, <2>2, <2>3, EditKept
  <1> QED BY <1>2, <1>5, <1>6

LEMMA KeptChangeAips ==
    ASSUME CatalogInv, NEW e \in Editors, NEW r \in Replicas, NEW m \in ModelNames,
           NEW names \in ProfileRows, ChangeAips(e, r, m, names)
    PROVE  CatalogInv'
  <1>1. PICK x : x = Edit("bump", r, "aips", m, FALSE)
    OBVIOUS
  <1>2. /\ editing[e] = NoEdit /\ editing' = [editing EXCEPT ![e] = x]
        /\ db' = [db EXCEPT !["aips"] = names]
        /\ UNCHANGED <<version, mem, life, seen, began, astray>>
    BY <1>1 DEF ChangeAips, Begins
  <1>3. x \in EditTask /\ x # NoEdit /\ x.phase = "bump" /\ x.table = "aips"
    BY <1>1 DEF Edit, EditTask, EditRec, NoEdit, Tables
  <1>4. /\ mem' = [q \in Replicas |-> mem'[q]] /\ \A q \in Replicas : IsCopy(mem'[q])
        /\ astray \subseteq astray'
    BY <1>2 DEF CatalogInv, CatalogOK
  <1>5. IsCopy(db') /\ \A t \in Tables : t # "aips" => db'[t] = db[t]
    BY <1>2 DEF CatalogInv, CatalogOK, IsCopy
  <1>6. Current(x) /\ (\A q : AwaitedBy(x, q, "aips"))
        /\ \A q, t : ~AwaitedBy(editing[e], q, t)
    BY <1>2, <1>3 DEF Current, AwaitedBy
  <1>7. db'["flags"] = db["flags"] /\ db'["aips"] \in ProfileRows
    BY <1>2, <1>5 DEF Tables, CatalogInv, CatalogOK, IsCopy
  <1>8. \A q \in Replicas, t \in Tables :
           \/ AwaitedBy(x, q, t)
           \/ mem'[q][t] = mem[q][t] /\ db'[t] = db[t] /\ ~AwaitedBy(editing[e], q, t)
    BY <1>2, <1>5, <1>6
  <1> QED BY <1>2, <1>3, <1>4, <1>5, <1>6, <1>7, <1>8, EditKept

LEMMA KeptChangeEndpoint ==
    ASSUME CatalogInv, NEW e \in Editors, NEW r \in Replicas, ChangeEndpoint(e, r)
    PROVE  CatalogInv'
  <1>1. PICK x : x = Edit("list", r, "aips", {}, FALSE)
    OBVIOUS
  <1>2. /\ editing' = [editing EXCEPT ![e] = x] /\ version' = version + 1
        /\ UNCHANGED <<db, mem, life, seen, began, astray>>
    BY <1>1 DEF ChangeEndpoint
  <1>3. x \in EditTask /\ Current(x)
    BY <1>1 DEF Edit, EditTask, EditRec, NoEdit, Tables, Current, ProfileRows
  <1>4. /\ editing' \in [Editors -> EditTask] /\ editing'[e] = x
        /\ \A d \in Editors : d # e => editing'[d] = editing[d]
    BY <1>2, <1>3 DEF CatalogInv, CatalogOK
  <1>5. CatalogOK'
    BY <1>2, <1>4, EditsOK DEF CatalogInv, CatalogOK
  <1>6. \A q \in Replicas, t \in Tables : Agrees(q, t)'
    BY <1>2, Outdated DEF CatalogInv
  <1>7. \A d \in Editors : Current(editing[d])'
    BY <1>2, <1>3, <1>4 DEF CatalogInv, Current
  <1> QED BY <1>5, <1>6, <1>7 DEF CatalogInv

LEMMA KeptReadClients ==
    ASSUME CatalogInv, NEW e \in Editors, ReadClients(e)
    PROVE  CatalogInv'
  <1>1. /\ editing[e] \in EditRec /\ editing[e].table = "aips"
        /\ editing[e].phase = "list" /\ editing[e].value = {}
    BY EditTasks DEF ReadClients, CatalogInv
  <1>2. PICK x \in {NoEdit} \cup {[editing[e] EXCEPT !.phase = "put", !.value = rows] :
                                    rows \in {{}, db["aips"]}} :
           editing' = [editing EXCEPT ![e] = x]
    <2>1. CASE editing' = [editing EXCEPT ![e].phase = "put", ![e].value = db["aips"]]
      <3>1. editing' = [editing EXCEPT ![e] = [editing[e] EXCEPT !.phase = "put",
                                                                 !.value = db["aips"]]]
        BY <2>1 DEF CatalogInv, CatalogOK
      <3> QED BY <3>1
    <2>2. CASE editing' = [editing EXCEPT ![e].phase = "put"]
      <3>1. [editing[e] EXCEPT !.phase = "put"]
            = [editing[e] EXCEPT !.phase = "put", !.value = {}]
        BY <1>1 DEF EditRec
      <3>2. editing' = [editing EXCEPT ![e] = [editing[e] EXCEPT !.phase = "put",
                                                                 !.value = {}]]
        BY <2>2, <3>1 DEF CatalogInv, CatalogOK
      <3> QED BY <3>2
    <2>3. CASE editing' = [editing EXCEPT ![e] = NoEdit]
      BY <2>3
    <2> QED BY <2>1, <2>2, <2>3 DEF ReadClients
  <1>3. UNCHANGED <<db, version, mem, life, seen, began, astray>>
    BY DEF ReadClients
  <1>4. x \in EditTask /\ (x = NoEdit \/ x.table = "aips")
    <2>1. CASE x = NoEdit
      BY <2>1 DEF EditTask
    <2>2. CASE x # NoEdit
      <3>1. PICK rows \in ProfileRows :
               x = [editing[e] EXCEPT !.phase = "put", !.value = rows]
        BY <1>2, <2>2 DEF CatalogInv, CatalogOK, ProfileRows
      <3>2. x \in EditRec /\ x.phase = "put" /\ x.table = "aips"
        BY <1>1, <3>1 DEF EditRec
      <3> QED BY <3>2 DEF EditTask
    <2> QED BY <2>1, <2>2
  <1>5. Current(x) /\ \A q, t : ~AwaitedBy(editing[e], q, t)
    BY <1>1, <1>4 DEF Current, AwaitedBy
  <1>6. /\ IsCopy(db') /\ db'["flags"] = db["flags"] /\ db'["aips"] \in ProfileRows
        /\ mem' = [q \in Replicas |-> mem'[q]] /\ \A q \in Replicas : IsCopy(mem'[q])
        /\ astray \subseteq astray'
    BY <1>3 DEF CatalogInv, CatalogOK
  <1>7. \A q \in Replicas, t \in Tables :
           mem'[q][t] = mem[q][t] /\ db'[t] = db[t] /\ ~AwaitedBy(editing[e], q, t)
    BY <1>3, <1>5
  <1> QED BY <1>2, <1>3, <1>4, <1>5, <1>6, <1>7, EditKept

LEMMA KeptPutClients ==
    ASSUME CatalogInv, NEW e \in Editors, PutClients(e)
    PROVE  CatalogInv'
  <1>1. editing[e] \in EditRec /\ editing[e].phase = "put"
    BY EditTasks DEF PutClients, CatalogInv
  <1>2. PICK r \in Replicas : r = editing[e].at
    BY <1>1 DEF EditRec
  <1>3. /\ mem' = [mem EXCEPT ![r]["aips"] = editing[e].value]
        /\ astray' = IF editing[e].value = db["aips"] THEN astray
                     ELSE astray \cup {<<r, "aips">>}
        /\ editing' = [editing EXCEPT ![e] = NoEdit]
        /\ UNCHANGED <<db, version, life, seen, began>>
    BY <1>2 DEF PutClients
  <1>4. /\ \A q \in Replicas : q # r => mem'[q] = mem[q]
        /\ \A t \in Tables : t # "aips" => mem'[r][t] = mem[r][t]
        /\ mem'[r]["aips"] = editing[e].value
        /\ mem' = [q \in Replicas |-> mem'[q]] /\ \A q \in Replicas : IsCopy(mem'[q])
    BY <1>3 DEF CatalogInv, CatalogOK, IsCopy, Tables
  <1>5. <<r, "aips">> \in astray' \/ mem'[r]["aips"] = db'["aips"]
    BY <1>3, <1>4
  <1>6. NoEdit \in EditTask /\ Current(NoEdit)
        /\ \A q, t : ~AwaitedBy(editing[e], q, t)
    BY <1>1 DEF EditTask, Current, AwaitedBy
  <1>7. astray \subseteq astray' /\ IsCopy(db') /\ db'["aips"] \in ProfileRows
    BY <1>3 DEF CatalogInv, CatalogOK
  <1>8. \A q \in Replicas, t \in Tables :
           \/ <<q, t>> \in astray' \/ mem'[q][t] = db'[t]
           \/ mem'[q][t] = mem[q][t] /\ db'[t] = db[t] /\ ~AwaitedBy(editing[e], q, t)
    BY <1>3, <1>4, <1>5, <1>6
  <1> QED BY <1>3, <1>4, <1>6, <1>7, <1>8, EditKept

\* The copies of the replicas are those of the tables, but for what has gone
\* astray (main.rs, db/settings.rs, endpoint/mod.rs, handlers.rs); for any number
\* of replicas that start, stop and reload, and of edits at a time, whether the
\* replicas start now or have long been up.
THEOREM CopiesAgree ==
    (CatalogInit \/ CatalogInitUp) /\ [][CatalogNext]_catalogVars => []ReplicasAgree
  <1>1. CatalogInv /\ [CatalogNext]_catalogVars => CatalogInv'
    <2> SUFFICES ASSUME CatalogInv, [CatalogNext]_catalogVars PROVE CatalogInv'
      OBVIOUS
    <2>1. CASE \E r \in Replicas : ReplicaNext(r)
      BY <2>1, KeptLoads, KeptStartVersion, KeptPoll, KeptSeed, KeptSeedBump, KeptMigrate,
         KeptStop DEF ReplicaNext
    <2>2. CASE \E e \in Editors : EditorNext(e)
      <3>1. ASSUME NEW e \in Editors, NEW r \in Replicas, NEW m \in ModelNames,
                   CreateAip(e, r, m) \/ DeleteAip(e, r, m)
            PROVE  CatalogInv'
        <4>1. db["aips"] \cup {m} \in ProfileRows /\ db["aips"] \ {m} \in ProfileRows
          BY DEF CatalogInv, CatalogOK, ProfileRows
        <4> QED BY <3>1, <4>1, KeptChangeAips DEF CreateAip, DeleteAip
      <3> QED BY <2>2, <3>1, KeptWriteSetting, KeptLearnMapping, KeptBump,
                 KeptStoreSetting, KeptUpsertMapping, KeptChangeEndpoint, KeptReadClients,
                 KeptPutClients DEF EditorNext
    <2>3. CASE UNCHANGED catalogVars
      <3>1. CatalogOK'
        BY <2>3 DEF catalogVars, CatalogInv, CatalogOK
      <3>2. \A q \in Replicas, t \in Tables : Awaited(q, t)' = Awaited(q, t)
        BY <2>3 DEF catalogVars, Awaited
      <3>3. \A q \in Replicas, t \in Tables : Agrees(q, t)'
        BY <2>3, <3>2 DEF catalogVars, CatalogInv, Agrees, AsOf
      <3>4. \A e \in Editors : Current(editing[e])'
        BY <2>3 DEF catalogVars, CatalogInv, Current
      <3> QED BY <3>1, <3>3, <3>4 DEF CatalogInv
    <2> QED BY <2>1, <2>2, <2>3 DEF CatalogNext
  <1>2. CatalogInv => ReplicasAgree
    <2> SUFFICES ASSUME CatalogInv, NEW r \in Replicas, Settled, life[r] = "up",
                        seen[r] = version
                 PROVE  \A t \in Tables : <<r, t>> \notin astray => mem[r][t] = db[t]
      BY DEF ReplicasAgree, Tables
    <2> TAKE t \in Tables
    <2>1. ~Awaited(r, t)
      BY DEF Settled, Awaited, AwaitedBy
    <2>2. HasRead(life[r], t) /\ AsOf(r) = version
      BY DEF HasRead, AsOf
    <2> QED BY <2>1, <2>2 DEF CatalogInv, Agrees
  <1> QED BY <1>1, <1>2, CatalogInits, PTL

-----------------------------------------------------------------------------
(* Prices *)

\* Induction over the numbers, for a set of them.
LEMMA Induction ==
    ASSUME NEW A, 0 \in A, \A n \in Nat : n \in A => n + 1 \in A
    PROVE  Nat \subseteq A
  <1> DEFINE R == OpToRel(<, Nat)
             T == Nat \ A
  <1> SUFFICES ASSUME T # {} PROVE FALSE
    OBVIOUS
  <1>1. PICK n \in T : \A m \in T : ~ (<<m, n>> \in R)
    <2>1. T \subseteq Nat
      OBVIOUS
    <2>2. IsWellFoundedOn(R, Nat)
      BY NatLessThanWellFounded
    <2> HIDE DEF R, T
    <2> QED BY <2>1, <2>2, WFMin
  <1>2. n # 0 /\ n - 1 \in Nat /\ n \in Nat
    OBVIOUS
  <1>3. n - 1 \notin A
    BY <1>2
  <1>4. <<n - 1, n>> \in R
    BY <1>2 DEF OpToRel
  <1> QED BY <1>1, <1>2, <1>3, <1>4

IsList(list) == Len(list) \in Nat /\ DOMAIN list = 1..Len(list)

\* What has been read of the first n lines of a list.
ReadsTo(f, list, n) ==
    f = [k \in 0..n |-> IF k = 0 THEN NothingKnown ELSE Accumulate(f[k - 1], list[k])]

\* Every list can be read line by line to its end, and KnownAfter does so.
LEMMA KnownIsRead ==
    ASSUME NEW list, IsList(list)
    PROVE  ReadsTo(KnownAfter(list), list, Len(list))
  <1> DEFINE A == {n \in Nat : \E f : ReadsTo(f, list, n)}
  <1>1. 0 \in A
    <2>1. PICK f : f = [k \in 0..0 |-> NothingKnown]
      OBVIOUS
    <2>2. f = [k \in 0..0 |-> IF k = 0 THEN NothingKnown ELSE Accumulate(f[k - 1], list[k])]
      BY <2>1
    <2> QED BY <2>2 DEF ReadsTo
  <1>2. ASSUME NEW n \in Nat, n \in A PROVE n + 1 \in A
    <2>1. PICK f : ReadsTo(f, list, n)
      BY <1>2
    <2>2. PICK g : g = [k \in 0..(n + 1) |->
                          IF k = n + 1 THEN Accumulate(f[n], list[n + 1]) ELSE f[k]]
      OBVIOUS
    <2>3. \A k \in 0..n : g[k] = f[k]
      BY <2>2
    <2>4. \A k \in 0..(n + 1) :
            g[k] = IF k = 0 THEN NothingKnown ELSE Accumulate(g[k - 1], list[k])
      <3> SUFFICES ASSUME NEW k \in 0..(n + 1)
                   PROVE  g[k] = IF k = 0 THEN NothingKnown
                                 ELSE Accumulate(g[k - 1], list[k])
        OBVIOUS
      <3>1. CASE k = n + 1
        <4>1. g[k] = Accumulate(f[n], list[n + 1])
          BY <2>2, <3>1
        <4>2. g[k - 1] = f[n] /\ k # 0
          BY <2>3, <3>1
        <4> QED BY <3>1, <4>1, <4>2
      <3>2. CASE k \in 0..n
        <4>1. f[k] = IF k = 0 THEN NothingKnown ELSE Accumulate(f[k - 1], list[k])
          BY <2>1, <3>2 DEF ReadsTo
        <4>2. g[k] = f[k] /\ (k # 0 => g[k - 1] = f[k - 1])
          BY <2>3, <3>2
        <4> QED BY <4>1, <4>2
      <3> QED BY <3>1, <3>2
    <2>5. g = [k \in 0..(n + 1) |-> g[k]]
      BY <2>2
    <2>6. ReadsTo(g, list, n + 1)
      BY <2>4, <2>5 DEF ReadsTo
    <2> QED BY <2>6
  <1>3. Len(list) \in A
    <2> HIDE DEF A
    <2> QED BY <1>1, <1>2, Induction DEF IsList
  <1>4. \E f : ReadsTo(f, list, Len(list))
    BY <1>3
  <1>5. KnownAfter(list) = CHOOSE f : ReadsTo(f, list, Len(list))
    BY DEF KnownAfter, ReadsTo
  <1> QED BY <1>4, <1>5

\* Lines of the first n that give the price of a model in a dimension.
LinesOf(list, n, p, d) == {k \in 1..n : list[k].model = p /\ list[k].dimension = d}

\* What is known of a model is what its lines say, the last of each dimension.
Knows(m, list, n, p) ==
    /\ m = [rates |-> m.rates, broken |-> m.broken]
    /\ m.rates = [d \in Dimensions |-> m.rates[d]]
    /\ m.broken \in BOOLEAN
    /\ ~m.broken =>
         \A d \in Dimensions :
            \/ LinesOf(list, n, p, d) = {} /\ m.rates[d] = Unpriced
            \/ \E k \in LinesOf(list, n, p, d) :
                  /\ \A j \in LinesOf(list, n, p, d) : j <= k
                  /\ m.rates[d] = list[k].price
    /\ ~m.broken =>
         \A d \in Dimensions : \A k \in LinesOf(list, n, p, d) : list[k].price # Unreadable

KnowsAll(acc, list, n) ==
    /\ acc = [p \in Priced |-> acc[p]]
    /\ \A p \in Priced : Knows(acc[p], list, n, p)

\* A line that says nothing new of a model leaves what is known of it.
LEMMA KnowsOn ==
    ASSUME NEW m, NEW list, NEW n \in Nat, NEW p, Knows(m, list, n, p),
           \A d \in Dimensions : LinesOf(list, n + 1, p, d) = LinesOf(list, n, p, d)
    PROVE  Knows(m, list, n + 1, p)
  BY DEF Knows

LEMMA AccumulateFact ==
    ASSUME NEW acc, NEW list, NEW n \in Nat, KnowsAll(acc, list, n)
    PROVE  KnowsAll(Accumulate(acc, list[n + 1]), list, n + 1)
  <1> DEFINE line == list[n + 1]
  <1>1. \A p, d :
          /\ line.model = p /\ line.dimension = d
               => LinesOf(list, n + 1, p, d) = LinesOf(list, n, p, d) \cup {n + 1}
          /\ line.model # p \/ line.dimension # d
               => LinesOf(list, n + 1, p, d) = LinesOf(list, n, p, d)
    BY DEF LinesOf
  <1>2. CASE ~Classified(line)
    <2>1. \A p : \A d \in Dimensions : LinesOf(list, n + 1, p, d) = LinesOf(list, n, p, d)
      BY <1>1, <1>2 DEF Classified
    <2>2. Accumulate(acc, line) = acc
      BY <1>2 DEF Accumulate
    <2> QED BY <2>1, <2>2, KnowsOn DEF KnowsAll
  <1>3. CASE Classified(line) /\ line.price = Unreadable
    <2>1. PICK new : new = [acc EXCEPT ![line.model].broken = TRUE]
      OBVIOUS
    <2>2. Accumulate(acc, line) = new
      BY <1>3, <2>1 DEF Accumulate
    <2>3. new = [p \in Priced |-> new[p]]
      BY <2>1 DEF KnowsAll
    <2>4. ASSUME NEW p \in Priced PROVE Knows(new[p], list, n + 1, p)
      <3>1. CASE p = line.model
        <4>1. PICK o, m : o = acc[p] /\ m = [o EXCEPT !.broken = TRUE]
          OBVIOUS
        <4>2. new[p] = m
          BY <2>1, <3>1, <4>1 DEF KnowsAll
        <4>3. /\ o = [rates |-> o.rates, broken |-> o.broken]
              /\ o.rates = [d \in Dimensions |-> o.rates[d]]
          BY <4>1 DEF KnowsAll, Knows
        <4>4. m = [rates |-> o.rates, broken |-> TRUE]
          BY <4>1, <4>3
        <4> QED BY <4>2, <4>3, <4>4 DEF Knows
      <3>2. CASE p # line.model
        <4>1. new[p] = acc[p]
          BY <2>1, <3>2 DEF KnowsAll
        <4>2. \A d \in Dimensions : LinesOf(list, n + 1, p, d) = LinesOf(list, n, p, d)
          BY <1>1, <3>2
        <4> QED BY <4>1, <4>2, KnowsOn DEF KnowsAll
      <3> QED BY <3>1, <3>2
    <2> QED BY <2>2, <2>3, <2>4 DEF KnowsAll
  <1>4. CASE Classified(line) /\ line.price # Unreadable
    <2>1. PICK new : new = [acc EXCEPT ![line.model].rates[line.dimension] = line.price]
      OBVIOUS
    <2>2. Accumulate(acc, line) = new
      BY <1>4, <2>1 DEF Accumulate
    <2>3. new = [p \in Priced |-> new[p]]
      BY <2>1 DEF KnowsAll
    <2>4. ASSUME NEW p \in Priced PROVE Knows(new[p], list, n + 1, p)
      <3>1. CASE p = line.model
        <4>1. PICK r : r = [acc[p].rates EXCEPT ![line.dimension] = line.price]
          OBVIOUS
        <4>2. PICK b : b = acc[p].broken
          OBVIOUS
        <4>3. new[p] = [rates |-> r, broken |-> b]
          <5>1. new[p] = [acc[p] EXCEPT !.rates = r]
            BY <2>1, <3>1, <4>1 DEF KnowsAll
          <5> QED BY <4>2, <5>1 DEF KnowsAll, Knows
        <4>4. /\ r = [d \in Dimensions |-> r[d]]
              /\ r[line.dimension] = line.price
              /\ \A d \in Dimensions \ {line.dimension} : r[d] = acc[p].rates[d]
          BY <1>4, <4>1 DEF KnowsAll, Knows, Classified
        <4>5. b \in BOOLEAN
          BY <4>2 DEF KnowsAll, Knows
        <4>6. ASSUME ~b, NEW d \in Dimensions
              PROVE  /\ \/ LinesOf(list, n + 1, p, d) = {} /\ r[d] = Unpriced
                        \/ \E k \in LinesOf(list, n + 1, p, d) :
                              /\ \A j \in LinesOf(list, n + 1, p, d) : j <= k
                              /\ r[d] = list[k].price
                     /\ \A k \in LinesOf(list, n + 1, p, d) : list[k].price # Unreadable
          <5>1. /\ \/ LinesOf(list, n, p, d) = {} /\ acc[p].rates[d] = Unpriced
                   \/ \E k \in LinesOf(list, n, p, d) :
                         /\ \A j \in LinesOf(list, n, p, d) : j <= k
                         /\ acc[p].rates[d] = list[k].price
                /\ \A k \in LinesOf(list, n, p, d) : list[k].price # Unreadable
            BY <4>2, <4>6 DEF KnowsAll, Knows
          <5>2. CASE d = line.dimension
            <6>1. LinesOf(list, n + 1, p, d) = LinesOf(list, n, p, d) \cup {n + 1}
              BY <1>1, <3>1, <5>2
            <6>2. \A j \in LinesOf(list, n, p, d) : j <= n + 1
              BY DEF LinesOf
            <6> QED BY <1>4, <4>4, <5>1, <5>2, <6>1, <6>2
          <5>3. CASE d # line.dimension
            <6>1. LinesOf(list, n + 1, p, d) = LinesOf(list, n, p, d)
              BY <1>1, <5>3
            <6> QED BY <4>4, <5>1, <5>3, <6>1
          <5> QED BY <5>2, <5>3
        <4> QED BY <4>3, <4>4, <4>5, <4>6 DEF Knows
      <3>2. CASE p # line.model
        <4>1. new[p] = acc[p]
          BY <2>1, <3>2 DEF KnowsAll
        <4>2. \A d \in Dimensions : LinesOf(list, n + 1, p, d) = LinesOf(list, n, p, d)
          BY <1>1, <3>2
        <4> QED BY <4>1, <4>2, KnowsOn DEF KnowsAll
      <3> QED BY <3>1, <3>2
    <2> QED BY <2>2, <2>3, <2>4 DEF KnowsAll
  <1> QED BY <1>2, <1>3, <1>4

\* parse_price_list_csv() against what a list says, for lists of any length.
LEMMA ParsedSays ==
    ASSUME NEW list, IsList(list), NEW row \in Parsed(list)
    PROVE  row.model \in Priced /\ Says(list, row.model, row.rates)
  <1> DEFINE f == KnownAfter(list)
             A == {n \in Nat : n <= Len(list) => KnowsAll(f[n], list, n)}
  <1>1. ReadsTo(f, list, Len(list))
    BY KnownIsRead
  <1>2. 0 \in A
    <2>1. f[0] = NothingKnown
      BY <1>1 DEF ReadsTo, IsList
    <2>2. PICK z : z = [rates |-> NoRates, broken |-> FALSE]
      OBVIOUS
    <2>3. ASSUME NEW p \in Priced PROVE Knows(z, list, 0, p)
      <3>1. \A d \in Dimensions : LinesOf(list, 0, p, d) = {}
        BY DEF LinesOf
      <3>2. z.rates = NoRates /\ z.broken = FALSE
        BY <2>2
      <3>3. NoRates = [d \in Dimensions |-> NoRates[d]] /\ \A d \in Dimensions : NoRates[d] = Unpriced
        BY DEF NoRates
      <3> QED BY <2>2, <3>1, <3>2, <3>3 DEF Knows
    <2>4. NothingKnown = [p \in Priced |-> z]
      BY <2>2 DEF NothingKnown
    <2>5. KnowsAll(NothingKnown, list, 0)
      BY <2>3, <2>4 DEF KnowsAll
    <2> QED BY <2>1, <2>5
  <1>3. ASSUME NEW n \in Nat, n \in A PROVE n + 1 \in A
    <2> SUFFICES ASSUME n + 1 <= Len(list) PROVE KnowsAll(f[n + 1], list, n + 1)
      OBVIOUS
    <2>1. f[n + 1] = Accumulate(f[n], list[n + 1])
      BY <1>1 DEF ReadsTo, IsList
    <2>2. KnowsAll(f[n], list, n)
      BY <1>3 DEF IsList
    <2> QED BY <2>1, <2>2, AccumulateFact
  <1>4. KnowsAll(f[Len(list)], list, Len(list))
    <2>1. Nat \subseteq A
      <3> HIDE DEF A
      <3> QED BY <1>2, <1>3, Induction
    <2> QED BY <2>1 DEF IsList
  <1>5. PICK acc : acc = f[Len(list)]
    OBVIOUS
  <1>6. PICK p \in Priced : row = [model |-> p, rates |-> acc[p].rates] /\ Whole(acc[p])
    BY <1>5 DEF Parsed
  <1>7. Knows(acc[p], list, Len(list), p)
    BY <1>4, <1>5 DEF KnowsAll
  <1>8. \A d \in Dimensions :
          LinesOf(list, Len(list), p, d)
            = {k \in DOMAIN list : list[k].model = p /\ list[k].dimension = d}
    BY DEF IsList, LinesOf
  <1>9. row.model = p /\ row.rates = acc[p].rates
    BY <1>6
  <1> QED BY <1>6, <1>7, <1>8, <1>9 DEF Says, Knows, Whole

\* What has been read, but is not written yet, is what a published list says,
\* and a row says who wrote it.
PriceInv ==
    /\ listsOut \in 1..Len(PriceLists)
    /\ prices = [p \in Priced |-> prices[p]]
    /\ ruled = [p \in Priced |-> ruled[p]]
    /\ refreshes = [f \in Refreshes |-> refreshes[f]]
    /\ \A f \in Refreshes : refreshes[f] # Unpriced =>
         \A row \in refreshes[f] :
           /\ row.model \in Priced
           /\ \E k \in 1..listsOut : Says(PriceLists[k], row.model, row.rates)
    /\ \A p \in Priced :
         \/ prices[p] = Unpriced /\ ruled[p] = Unpriced
         \/ /\ ruled[p] # Unpriced /\ prices[p] # Unpriced
            /\ prices[p] = [source |-> "admin_manual", rates |-> ruled[p]]
         \/ /\ ruled[p] = Unpriced
            /\ prices[p] = [source |-> "price_list_api", rates |-> prices[p].rates]
            /\ \E k \in 1..listsOut : Says(PriceLists[k], p, prices[p].rates)
         \/ ruled[p] = Unpriced /\ p \in DOMAIN SeededRates /\ prices[p] = AsSeeded(p)

LEMMA PriceStep == PricingAssumption /\ PriceInv /\ [PricingNext]_pricingVars => PriceInv'
  <1> SUFFICES ASSUME PricingAssumption, PriceInv, [PricingNext]_pricingVars
               PROVE  PriceInv'
    OBVIOUS
  <1>0. Len(PriceLists) \in Nat /\ listsOut \in Nat /\ listsOut >= 1
    BY DEF PricingAssumption, PriceInv
  <1>1. CASE NextList
    <2>1. listsOut' = listsOut + 1 /\ listsOut' \in 1..Len(PriceLists)
      BY <1>0, <1>1 DEF NextList
    <2>2. 1..listsOut \subseteq 1..listsOut'
      BY <1>0, <2>1
    <2> QED BY <1>1, <2>1, <2>2 DEF NextList, PriceInv
  <1>2. ASSUME NEW f \in Refreshes, Download(f) PROVE PriceInv'
    <2>1. IsList(PriceLists[listsOut])
      BY DEF PricingAssumption, PriceInv, IsList
    <2>2. PICK rows : rows = Parsed(PriceLists[listsOut])
      OBVIOUS
    <2>3. \A row \in rows :
            /\ row.model \in Priced
            /\ \E k \in 1..listsOut : Says(PriceLists[k], row.model, row.rates)
      BY <1>0, <2>1, <2>2, ParsedSays
    <2>4. refreshes' = [refreshes EXCEPT ![f] = rows]
      BY <1>2, <2>2 DEF Download
    <2> QED BY <1>2, <2>3, <2>4 DEF Download, PriceInv
  <1>3. ASSUME NEW f \in Refreshes, Report(f) PROVE PriceInv'
    BY <1>3 DEF Report, PriceInv
  <1>4. ASSUME NEW f \in Refreshes, refreshes[f] # Unpriced,
               NEW row \in refreshes[f], NEW fails \in BOOLEAN,
               WriteRow(f, row, fails)
        PROVE  PriceInv'
    <2>1. /\ row.model \in Priced
          /\ \E k \in 1..listsOut : Says(PriceLists[k], row.model, row.rates)
      BY <1>4 DEF PriceInv
    <2>2. PICK p : p = row.model
      OBVIOUS
    <2>3. prices' = prices \/ prices' = [prices EXCEPT ![p] = Upserted(row)]
      BY <1>4, <2>2 DEF WriteRow
    <2>4. PICK new : new = prices'[p]
      OBVIOUS
    <2>5. \/ new = prices[p]
          \/ /\ prices[p] = Unpriced \/ prices[p].source # "admin_manual"
             /\ new = [source |-> "price_list_api", rates |-> row.rates]
      BY <2>1, <2>2, <2>3, <2>4 DEF Upserted, PriceInv
    <2>6. /\ prices' = [q \in Priced |-> prices'[q]]
          /\ \A q \in Priced \ {p} : prices'[q] = prices[q]
      BY <2>3 DEF PriceInv
    <2>7. \/ new = Unpriced /\ ruled[p] = Unpriced
          \/ /\ ruled[p] # Unpriced /\ new # Unpriced
             /\ new = [source |-> "admin_manual", rates |-> ruled[p]]
          \/ /\ ruled[p] = Unpriced
             /\ new = [source |-> "price_list_api", rates |-> new.rates]
             /\ \E k \in 1..listsOut : Says(PriceLists[k], p, new.rates)
          \/ ruled[p] = Unpriced /\ p \in DOMAIN SeededRates /\ new = AsSeeded(p)
      <3>1. CASE new = prices[p]
        BY <2>1, <2>2, <3>1 DEF PriceInv
      <3>2. CASE /\ prices[p] = Unpriced \/ prices[p].source # "admin_manual"
                 /\ new = [source |-> "price_list_api", rates |-> row.rates]
        <4>1. /\ ruled[p] # Unpriced => prices[p] # Unpriced
              /\ ruled[p] # Unpriced =>
                   prices[p] = [source |-> "admin_manual", rates |-> ruled[p]]
          BY <2>1, <2>2 DEF PriceInv
        <4>2. ruled[p] # Unpriced => prices[p].source = "admin_manual"
          BY <4>1
        <4>3. ruled[p] = Unpriced
          BY <3>2, <4>1, <4>2
        <4> QED BY <2>1, <2>2, <3>2, <4>3
      <3> QED BY <2>5, <3>1, <3>2
    <2>8. /\ refreshes' = [g \in Refreshes |-> refreshes'[g]]
          /\ refreshes'[f] = refreshes[f] \ {row}
          /\ \A g \in Refreshes \ {f} : refreshes'[g] = refreshes[g]
      BY <1>4 DEF WriteRow, PriceInv
    <2>9. ruled' = ruled /\ listsOut' = listsOut
      BY <1>4 DEF WriteRow
    <2>10. \A g \in Refreshes : refreshes'[g] # Unpriced =>
             \A r \in refreshes'[g] :
               /\ r.model \in Priced
               /\ \E k \in 1..listsOut : Says(PriceLists[k], r.model, r.rates)
      BY <1>4, <2>8 DEF PriceInv
    <2> QED BY <2>2, <2>4, <2>6, <2>7, <2>8, <2>9, <2>10 DEF PriceInv
  <1>5. ASSUME NEW p \in Priced, NEW a \in Amounts, SetPrice(p, [d \in Dimensions |-> a])
        PROVE  PriceInv'
    <2>1. PICK row : row = [d \in Dimensions |-> a]
      OBVIOUS
    <2>2. row # Unpriced /\ [source |-> "admin_manual", rates |-> row] # Unpriced
      BY <2>1 DEF PricingAssumption
    <2>3. /\ prices' = [prices EXCEPT ![p] = [source |-> "admin_manual", rates |-> row]]
          /\ ruled' = [ruled EXCEPT ![p] = row]
          /\ UNCHANGED <<listsOut, refreshes>>
      BY <1>5, <2>1 DEF SetPrice
    <2> QED BY <2>2, <2>3 DEF PriceInv
  <1>6. ASSUME NEW p \in Priced, DeletePrice(p) PROVE PriceInv'
    BY <1>6 DEF DeletePrice, PriceInv
  <1>7. CASE UNCHANGED pricingVars
    BY <1>7 DEF pricingVars, PriceInv
  <1> QED BY <1>1, <1>2, <1>3, <1>4, <1>5, <1>6, <1>7 DEF PricingNext

\* Whatever lists are published and however refreshes overlap with the
\* changes of administrators: upsert_from_api() leaves their prices alone, and
\* parse_price_list_csv() gives whole rows of one list.
THEOREM PricesAreSound == PricingSpec => []PricesSound
  <1>1. PricingInit => PriceInv
    BY PricingAssumption DEF PricingInit, PriceInv, PricingAssumption, AsSeeded
  <1>2. PriceInv => PricesSound
    <2> SUFFICES ASSUME PriceInv, NEW p \in Priced, prices[p] # Unpriced
                 PROVE  IF ruled[p] # Unpriced
                        THEN prices[p] = [source |-> "admin_manual", rates |-> ruled[p]]
                        ELSE \/ /\ prices[p].source = "price_list_api"
                                /\ \E k \in 1..listsOut : Says(PriceLists[k], p, prices[p].rates)
                             \/ p \in DOMAIN SeededRates /\ prices[p] = AsSeeded(p)
      BY DEF PricesSound, ListedPrices
    <2>1. CASE ruled[p] # Unpriced
      BY <2>1 DEF PriceInv
    <2>2. CASE ruled[p] = Unpriced
      <3>1. \/ /\ prices[p] = [source |-> "price_list_api", rates |-> prices[p].rates]
               /\ \E k \in 1..listsOut : Says(PriceLists[k], p, prices[p].rates)
            \/ p \in DOMAIN SeededRates /\ prices[p] = AsSeeded(p)
        BY <2>2 DEF PriceInv
      <3>2. \/ prices[p].source = "price_list_api"
            \/ p \in DOMAIN SeededRates /\ prices[p] = AsSeeded(p)
        BY <3>1
      <3> QED BY <2>2, <3>1, <3>2
    <2> QED BY <2>1, <2>2
  <1> QED BY <1>1, <1>2, PriceStep, PricingAssumption, PTL DEF PricingSpec

-----------------------------------------------------------------------------
(* Sums *)

\* Induction over the subsets of a finite set: what holds of the empty one, and
\* of each from which any member may be left out, holds of all.
LEMMA SubsetInduction ==
    ASSUME NEW S, IsFiniteSet(S), NEW G, {} \in G,
           \A T \in SUBSET S : T # {} /\ (\A x \in T : T \ {x} \in G) => T \in G
    PROVE  \A T \in SUBSET S : T \in G
  <1> DEFINE A == {n \in Nat : \A T \in SUBSET S : Cardinality(T) = n => T \in G}
  <1>1. 0 \in A
    BY FS_EmptySet, FS_Subset
  <1>2. ASSUME NEW n \in Nat, n \in A PROVE n + 1 \in A
    <2> SUFFICES ASSUME NEW T \in SUBSET S, Cardinality(T) = n + 1 PROVE T \in G
      OBVIOUS
    <2>1. IsFiniteSet(T)
      BY FS_Subset
    <2>2. T # {}
      <3>1. Cardinality({}) = 0
        BY FS_EmptySet
      <3> QED BY <3>1
    <2>3. ASSUME NEW x \in T PROVE T \ {x} \in G
      <3>1. Cardinality(T \ {x}) = Cardinality(T) - 1
        BY <2>1, FS_RemoveElement
      <3> QED BY <1>2, <3>1
    <2> QED BY <2>2, <2>3
  <1>3. Nat \subseteq A
    <2> HIDE DEF A
    <2> QED BY <1>1, <1>2, Induction
  <1> SUFFICES ASSUME NEW T \in SUBSET S PROVE T \in G
    OBVIOUS
  <1>4. Cardinality(T) \in Nat
    BY FS_Subset, FS_CardinalityType
  <1> QED BY <1>3, <1>4

First(T) == CHOOSE x \in T : TRUE

\* The sums over the sets in D, which are closed under leaving out a member.
SumsUp(sum, f, D) ==
    sum = [T \in D |-> IF T = {} THEN 0 ELSE f[First(T)] + sum[T \ {First(T)}]]

UpTo(n, S) == {T \in SUBSET S : Cardinality(T) <= n}

LEMMA SumsExist ==
    ASSUME NEW f, NEW S, IsFiniteSet(S)
    PROVE  SumsUp(SumsWithin(f, S), f, SUBSET S)
  <1> DEFINE A == {n \in Nat : \E sum : SumsUp(sum, f, UpTo(n, S))}
  <1>1. 0 \in A
    <2>1. ASSUME NEW T \in UpTo(0, S) PROVE T = {}
      <3>1. IsFiniteSet(T) /\ Cardinality(T) \in Nat /\ Cardinality(T) <= 0
        BY FS_Subset, FS_CardinalityType DEF UpTo
      <3> QED BY <3>1, FS_EmptySet
    <2>2. PICK sum : sum = [T \in UpTo(0, S) |-> 0]
      OBVIOUS
    <2>3. SumsUp(sum, f, UpTo(0, S))
      BY <2>1, <2>2 DEF SumsUp
    <2> QED BY <2>3
  <1>2. ASSUME NEW n \in Nat, n \in A PROVE n + 1 \in A
    <2>1. PICK g : SumsUp(g, f, UpTo(n, S))
      BY <1>2
    <2>2. PICK h : h = [T \in UpTo(n + 1, S) |->
                          IF T \in UpTo(n, S) THEN g[T]
                          ELSE f[First(T)] + g[T \ {First(T)}]]
      OBVIOUS
    <2>3. ASSUME NEW T \in UpTo(n + 1, S)
          PROVE  /\ T = {} => T \in UpTo(n, S)
                 /\ T # {} => /\ T \ {First(T)} \in UpTo(n, S)
                              /\ T \ {First(T)} \in UpTo(n + 1, S)
      <3>1. IsFiniteSet(T) /\ Cardinality(T) \in Nat /\ Cardinality(T) <= n + 1
        BY FS_Subset, FS_CardinalityType DEF UpTo
      <3>2. CASE T = {}
        BY <3>2, FS_EmptySet DEF UpTo
      <3>3. CASE T # {}
        <4>1. First(T) \in T
          BY <3>3 DEF First
        <4>2. Cardinality(T \ {First(T)}) = Cardinality(T) - 1
          BY <3>1, <4>1, FS_RemoveElement
        <4>3. Cardinality(T \ {First(T)}) <= n /\ Cardinality(T \ {First(T)}) <= n + 1
          BY <3>1, <4>2
        <4>4. T \ {First(T)} \in SUBSET S
          BY DEF UpTo
        <4> QED BY <3>3, <4>3, <4>4 DEF UpTo
      <3> QED BY <3>2, <3>3
    <2>4. ASSUME NEW T \in UpTo(n + 1, S)
          PROVE  h[T] = IF T = {} THEN 0 ELSE f[First(T)] + h[T \ {First(T)}]
      <3>1. CASE T \in UpTo(n, S)
        <4>1. h[T] = g[T]
          BY <2>2, <3>1
        <4>2. g[T] = IF T = {} THEN 0 ELSE f[First(T)] + g[T \ {First(T)}]
          BY <2>1, <3>1 DEF SumsUp
        <4>3. T # {} => h[T \ {First(T)}] = g[T \ {First(T)}]
          BY <2>2, <2>3
        <4> QED BY <4>1, <4>2, <4>3
      <3>2. CASE T \notin UpTo(n, S)
        BY <2>2, <2>3, <3>2
      <3> QED BY <3>1, <3>2
    <2>5. SumsUp(h, f, UpTo(n + 1, S))
      <3>1. h = [T \in UpTo(n + 1, S) |-> h[T]]
        BY <2>2
      <3> QED BY <2>4, <3>1 DEF SumsUp
    <2> QED BY <2>5
  <1>3. Cardinality(S) \in Nat
    BY FS_CardinalityType
  <1>4. Cardinality(S) \in A
    <2> HIDE DEF A
    <2> QED BY <1>1, <1>2, <1>3, Induction
  <1>5. UpTo(Cardinality(S), S) = SUBSET S
    BY FS_Subset DEF UpTo
  <1>6. \E sum : SumsUp(sum, f, SUBSET S)
    BY <1>4, <1>5
  <1>7. SumsWithin(f, S) = CHOOSE sum : SumsUp(sum, f, SUBSET S)
    BY DEF SumsWithin, SumsUp, First
  <1> QED BY <1>6, <1>7

\* The sums over the subsets of S do not depend on S.
LEMMA SumsAgree ==
    ASSUME NEW f, NEW S, IsFiniteSet(S), NEW T \in SUBSET S
    PROVE  SumOver(f, T) = SumsWithin(f, S)[T]
  <1>1. IsFiniteSet(T)
    BY FS_Subset
  <1>2. SumsUp(SumsWithin(f, S), f, SUBSET S) /\ SumsUp(SumsWithin(f, T), f, SUBSET T)
    BY <1>1, SumsExist
  <1> DEFINE G == {U \in SUBSET T : SumsWithin(f, T)[U] = SumsWithin(f, S)[U]}
  <1>3. ASSUME NEW U \in SUBSET T
        PROVE  /\ SumsWithin(f, T)[U] = IF U = {} THEN 0
                                  ELSE f[First(U)] + SumsWithin(f, T)[U \ {First(U)}]
               /\ SumsWithin(f, S)[U] = IF U = {} THEN 0
                                  ELSE f[First(U)] + SumsWithin(f, S)[U \ {First(U)}]
    BY <1>2 DEF SumsUp
  <1>4. {} \in G
    BY <1>3
  <1>5. ASSUME NEW U \in SUBSET T, U # {}, \A x \in U : U \ {x} \in G
        PROVE  U \in G
    <2>1. First(U) \in U
      BY <1>5 DEF First
    <2>2. U \ {First(U)} \in G
      BY <1>5, <2>1
    <2> QED BY <1>3, <1>5, <2>2
  <1>6. T \in G
    <2> HIDE DEF G
    <2> QED BY <1>1, <1>4, <1>5, SubsetInduction
  <1> QED BY <1>6 DEF SumOver

LEMMA SumFirst ==
    ASSUME NEW f, NEW S, IsFiniteSet(S)
    PROVE  /\ S = {} => SumOver(f, S) = 0
           /\ S # {} => /\ First(S) \in S
                        /\ SumOver(f, S) = f[First(S)] + SumOver(f, S \ {First(S)})
  <1>1. SumsWithin(f, S)[S] = IF S = {} THEN 0 ELSE f[First(S)] + SumsWithin(f, S)[S \ {First(S)}]
    <2>1. PICK sum : sum = SumsWithin(f, S)
      OBVIOUS
    <2>2. SumsUp(sum, f, SUBSET S)
      BY <2>1, SumsExist
    <2>3. S \in SUBSET S
      OBVIOUS
    <2>4. sum[S] = IF S = {} THEN 0 ELSE f[First(S)] + sum[S \ {First(S)}]
      BY <2>2, <2>3 DEF SumsUp
    <2> QED BY <2>1, <2>4
  <1>2. SumOver(f, S \ {First(S)}) = SumsWithin(f, S)[S \ {First(S)}]
    BY SumsAgree
  <1>3. S # {} => First(S) \in S
    BY DEF First
  <1> QED BY <1>1, <1>2, <1>3 DEF SumOver

LEMMA SumOfNothing == \A f : SumOver(f, {}) = 0
  <1>1. IsFiniteSet({})
    BY FS_EmptySet
  <1> QED BY <1>1, SumFirst

LEMMA SumInt ==
    ASSUME NEW f, NEW S, IsFiniteSet(S), \A x \in S : f[x] \in Int
    PROVE  SumOver(f, S) \in Int
  <1> DEFINE G == {T \in SUBSET S : SumOver(f, T) \in Int}
  <1>1. {} \in G
    BY SumOfNothing, FS_EmptySet
  <1>2. ASSUME NEW T \in SUBSET S, T # {}, \A x \in T : T \ {x} \in G
        PROVE  T \in G
    <2>1. IsFiniteSet(T)
      BY FS_Subset
    <2>2. First(T) \in T /\ SumOver(f, T) = f[First(T)] + SumOver(f, T \ {First(T)})
      BY <1>2, <2>1, SumFirst
    <2>3. T \ {First(T)} \in G
      BY <1>2, <2>2
    <2> QED BY <2>2, <2>3
  <1>3. S \in G
    <2> HIDE DEF G
    <2>1. \A T \in SUBSET S : T # {} /\ (\A x \in T : T \ {x} \in G) => T \in G
      BY <1>2
    <2>2. \A T \in SUBSET S : T \in G
      BY <1>1, <2>1, SubsetInduction
    <2> QED BY <2>2
  <1> QED BY <1>3

\* Any member may be added last.
LEMMA SumStep ==
    ASSUME NEW f, NEW S, IsFiniteSet(S), \A x \in S : f[x] \in Int, NEW a \in S
    PROVE  SumOver(f, S) = f[a] + SumOver(f, S \ {a})
  <1> DEFINE G == {T \in SUBSET S : \A x \in T : SumOver(f, T) = f[x] + SumOver(f, T \ {x})}
  <1>1. {} \in G
    OBVIOUS
  <1>2. ASSUME NEW T \in SUBSET S, T # {}, \A x \in T : T \ {x} \in G
        PROVE  T \in G
    <2>1. IsFiniteSet(T)
      BY FS_Subset
    <2>2. PICK c \in T : SumOver(f, T) = f[c] + SumOver(f, T \ {c})
      <3>1. /\ First(T) \in T
            /\ SumOver(f, T) = f[First(T)] + SumOver(f, T \ {First(T)})
        BY <1>2, <2>1, SumFirst
      <3> QED BY <3>1
    <2> SUFFICES ASSUME NEW x \in T, x # c
                 PROVE  SumOver(f, T) = f[x] + SumOver(f, T \ {x})
      BY <2>2
    <2>3. SumOver(f, T \ {c}) = f[x] + SumOver(f, (T \ {c}) \ {x})
      BY <1>2
    <2>4. SumOver(f, T \ {x}) = f[c] + SumOver(f, (T \ {x}) \ {c})
      BY <1>2
    <2>5. (T \ {c}) \ {x} = (T \ {x}) \ {c}
      OBVIOUS
    <2>6. SumOver(f, (T \ {x}) \ {c}) \in Int /\ f[x] \in Int /\ f[c] \in Int
      <3>1. IsFiniteSet((T \ {x}) \ {c})
        BY <2>1, FS_RemoveElement
      <3> QED BY <3>1, SumInt
    <2>7. /\ SumOver(f, T) = f[c] + (f[x] + SumOver(f, (T \ {x}) \ {c}))
          /\ f[x] + SumOver(f, T \ {x}) = f[x] + (f[c] + SumOver(f, (T \ {x}) \ {c}))
      BY <2>2, <2>3, <2>4, <2>5
    <2>8. \A i, j, k \in Int : i + (j + k) = j + (i + k)
      OBVIOUS
    <2>9. f[c] + (f[x] + SumOver(f, (T \ {x}) \ {c}))
            = f[x] + (f[c] + SumOver(f, (T \ {x}) \ {c}))
      BY <2>6, <2>8
    <2> QED BY <2>7, <2>9
  <1>3. S \in G
    <2> HIDE DEF G
    <2>1. \A T \in SUBSET S : T # {} /\ (\A x \in T : T \ {x} \in G) => T \in G
      BY <1>2
    <2>2. \A T \in SUBSET S : T \in G
      BY <1>1, <2>1, SubsetInduction
    <2> QED BY <2>2
  <1> QED BY <1>3

LEMMA ImageFinite ==
    ASSUME NEW S, IsFiniteSet(S), NEW h
    PROVE  IsFiniteSet({h[x] : x \in S})
  <1> DEFINE T == {h[x] : x \in S}
             f == [x \in S |-> h[x]]
  <1>1. f \in Surjection(S, T)
    BY DEF Surjection
  <1> HIDE DEF f
  <1> QED BY <1>1, FS_Surjection

LEMMA PartsFinite ==
    ASSUME NEW I, NEW part, IsFiniteSet(I), \A i \in I : IsFiniteSet(part[i])
    PROVE  IsFiniteSet(UNION {part[i] : i \in I})
  <1>1. IsFiniteSet({part[i] : i \in I})
    BY ImageFinite
  <1>2. \A T \in {part[i] : i \in I} : IsFiniteSet(T)
    OBVIOUS
  <1> QED BY <1>1, <1>2, FS_UNION

\* What is in two sets apart
LEMMA SumUnion ==
    ASSUME NEW f, NEW S, NEW T, IsFiniteSet(S), IsFiniteSet(T), S \cap T = {},
           \A x \in S \cup T : f[x] \in Int
    PROVE  SumOver(f, S \cup T) = SumOver(f, S) + SumOver(f, T)
  <1> DEFINE G == {U \in SUBSET T : SumOver(f, S \cup U) = SumOver(f, S) + SumOver(f, U)}
  <1>1. {} \in G
    <2>1. SumOver(f, {}) = 0
      BY SumOfNothing
    <2>2. SumOver(f, S) \in Int /\ S \cup {} = S
      BY SumInt
    <2> QED BY <2>1, <2>2
  <1>2. ASSUME NEW U \in SUBSET T, U # {}, \A x \in U : U \ {x} \in G
        PROVE  U \in G
    <2>1. PICK c \in U : TRUE
      BY <1>2
    <2>2. IsFiniteSet(U) /\ IsFiniteSet(S \cup U)
      BY FS_Subset, FS_Union
    <2>3. SumOver(f, U) = f[c] + SumOver(f, U \ {c})
      BY <2>2, SumStep
    <2>4. SumOver(f, S \cup U) = f[c] + SumOver(f, (S \cup U) \ {c})
      BY <2>2, SumStep
    <2>5. (S \cup U) \ {c} = S \cup (U \ {c})
      OBVIOUS
    <2>6. SumOver(f, S \cup (U \ {c})) = SumOver(f, S) + SumOver(f, U \ {c})
      BY <1>2
    <2>7. SumOver(f, S) \in Int /\ SumOver(f, U \ {c}) \in Int /\ f[c] \in Int
      <3>1. IsFiniteSet(U \ {c})
        BY <2>2, FS_RemoveElement
      <3> QED BY <3>1, SumInt
    <2>8. SumOver(f, S \cup U) = f[c] + (SumOver(f, S) + SumOver(f, U \ {c}))
      BY <2>4, <2>5, <2>6
    <2>9. SumOver(f, S) + SumOver(f, U) = SumOver(f, S) + (f[c] + SumOver(f, U \ {c}))
      BY <2>3
    <2>10. SumOver(f, S \cup U) = SumOver(f, S) + SumOver(f, U)
      <3> HIDE DEF G
      <3> QED BY <2>7, <2>8, <2>9
    <2> QED BY <2>10
  <1>3. T \in G
    <2> HIDE DEF G
    <2>1. \A U \in SUBSET T : U # {} /\ (\A x \in U : U \ {x} \in G) => U \in G
      BY <1>2
    <2>2. \A U \in SUBSET T : U \in G
      BY <1>1, <2>1, SubsetInduction
    <2> QED BY <2>2
  <1> QED BY <1>3

\* Whatever a set is broken down into, the sums of its parts add up to its own.
LEMMA SumOfParts ==
    ASSUME NEW f, NEW F, NEW I, NEW part, IsFiniteSet(I),
           \A i \in I : IsFiniteSet(part[i]) /\ F[i] = SumOver(f, part[i]),
           \A i \in I : \A x \in part[i] : f[x] \in Int,
           \A i, j \in I : i # j => part[i] \cap part[j] = {}
    PROVE  SumOver(F, I) = SumOver(f, UNION {part[i] : i \in I})
  <1> DEFINE all(H) == UNION {part[i] : i \in H}
             G == {H \in SUBSET I : SumOver(F, H) = SumOver(f, all(H))}
  <1>1. {} \in G
    BY SumOfNothing
  <1>2. ASSUME NEW H \in SUBSET I, H # {}, \A i \in H : H \ {i} \in G
        PROVE  H \in G
    <2>1. PICK i \in H : TRUE
      BY <1>2
    <2>2. IsFiniteSet(H) /\ IsFiniteSet(H \ {i})
      BY FS_Subset
    <2>3. \A j \in I : F[j] \in Int
      BY SumInt
    <2>4. SumOver(F, H) = F[i] + SumOver(F, H \ {i})
      BY <2>2, <2>3, SumStep
    <2>5. all(H) = all(H \ {i}) \cup part[i]
      OBVIOUS
    <2>6. all(H \ {i}) \cap part[i] = {}
      OBVIOUS
    <2>7. IsFiniteSet(all(H \ {i})) /\ IsFiniteSet(part[i])
      <3>1. \A j \in H \ {i} : IsFiniteSet(part[j])
        OBVIOUS
      <3> HIDE DEF G
      <3> QED BY <2>2, <3>1, PartsFinite
    <2>8. \A x \in all(H \ {i}) \cup part[i] : f[x] \in Int
      OBVIOUS
    <2> HIDE DEF all
    <2>9. SumOver(f, all(H)) = SumOver(f, all(H \ {i})) + SumOver(f, part[i])
      <3>1. PICK A : A = all(H \ {i})
        OBVIOUS
      <3>2. PICK B : B = part[i]
        OBVIOUS
      <3>3. SumOver(f, A \cup B) = SumOver(f, A) + SumOver(f, B)
        <4>1. /\ IsFiniteSet(A) /\ IsFiniteSet(B) /\ A \cap B = {}
              /\ \A x \in A \cup B : f[x] \in Int
          BY <2>6, <2>7, <2>8, <3>1, <3>2
        <4> HIDE DEF G
        <4> QED BY <4>1, SumUnion
      <3> QED BY <2>5, <3>1, <3>2, <3>3
    <2>10. SumOver(F, H \ {i}) = SumOver(f, all(H \ {i}))
      BY <1>2
    <2>11. SumOver(f, all(H \ {i})) \in Int /\ SumOver(f, part[i]) \in Int
      BY <2>7, <2>8, SumInt
    <2>12. F[i] = SumOver(f, part[i])
      OBVIOUS
    <2>13. SumOver(F, H) = SumOver(f, all(H))
      <3> HIDE DEF G
      <3> QED BY <2>4, <2>9, <2>10, <2>11, <2>12
    <2> QED BY <2>13
  <1>3. I \in G
    <2> HIDE DEF G
    <2>1. \A H \in SUBSET I : H # {} /\ (\A i \in H : H \ {i} \in G) => H \in G
      BY <1>2
    <2>2. \A H \in SUBSET I : H \in G
      BY <1>1, <2>1, SubsetInduction
    <2> QED BY <2>2
  <1> QED BY <1>3

\* Counting is adding up ones.
LEMMA SumOfOnes ==
    ASSUME NEW f, NEW S, IsFiniteSet(S), \A x \in S : f[x] = 1
    PROVE  SumOver(f, S) = Cardinality(S)
  <1> DEFINE G == {T \in SUBSET S : SumOver(f, T) = Cardinality(T)}
  <1>1. {} \in G
    BY SumOfNothing, FS_EmptySet
  <1>2. ASSUME NEW T \in SUBSET S, T # {}, \A x \in T : T \ {x} \in G
        PROVE  T \in G
    <2>1. PICK c \in T : TRUE
      BY <1>2
    <2>2. IsFiniteSet(T) /\ Cardinality(T) \in Nat
      BY FS_Subset, FS_CardinalityType
    <2>3. SumOver(f, T) = f[c] + SumOver(f, T \ {c})
      BY <2>2, SumStep
    <2>4. SumOver(f, T \ {c}) = Cardinality(T \ {c})
      BY <1>2
    <2>5. Cardinality(T \ {c}) = Cardinality(T) - 1
      BY <2>2, FS_RemoveElement
    <2> QED BY <2>2, <2>3, <2>4, <2>5
  <1>3. S \in G
    <2> HIDE DEF G
    <2>1. \A T \in SUBSET S : T # {} /\ (\A x \in T : T \ {x} \in G) => T \in G
      BY <1>2
    <2>2. \A T \in SUBSET S : T \in G
      BY <1>1, <2>1, SubsetInduction
    <2> QED BY <2>2
  <1> QED BY <1>3

-----------------------------------------------------------------------------
(* The rows of the log and what the statements say of them *)

LogInv ==
    /\ IsFiniteSet(log) /\ log \subseteq LogRows
    /\ \A r \in log : r.day <= today
    /\ today \in Nat
    /\ rates \in [Kinds -> Rates \cup {Unrated}]

LEMMA RowFacts ==
    ASSUME AnalyticsAssumption, LogInv, NEW r \in log
    PROVE  /\ r \in LogRows /\ r.who \in Identities /\ IsFiniteSet(r.tools)
           /\ r.day \in Nat /\ 1 <= r.day /\ r.day <= today
           /\ r.tokens \in Nat /\ r.cached \in Nat
           /\ Costs[r] \in Int
  <1>1. r \in LogRow /\ r \in LogRows /\ IsFiniteSet(r.tools)
    BY DEF AnalyticsAssumption, LogInv
  <1>2. /\ r.who \in Identities /\ r.day \in Nat \ {0}
        /\ r.tokens \in Nat /\ r.cached \in Nat
    BY <1>1 DEF LogRow
  <1>3. Rated(r) => rates[r.model] \in Nat
    BY <1>1 DEF Rated, LogInv, Kinds, AnalyticsAssumption
  <1>4. Costs[r] = IF Rated(r) THEN r.tokens * rates[r.model] ELSE 0
    BY <1>1 DEF Costs
  <1>5. Rated(r) => r.tokens * rates[r.model] \in Int
    BY <1>2, <1>3
  <1>6. Costs[r] \in Int
    BY <1>4, <1>5
  <1> QED BY <1>1, <1>2, <1>6 DEF LogInv

LEMMA SumOfGroups ==
    ASSUME LogInv, NEW groups \in SUBSET SUBSET log,
           \A g, h \in groups : g # h => g \cap h = {},
           NEW f, \A r \in log : f[r] \in Int,
           NEW F, \A g \in groups : F[g] = SumOver(f, g)
    PROVE  SumOver(F, groups) = SumOver(f, UNION groups)
  <1> DEFINE part == [g \in groups |-> g]
  <1>1. IsFiniteSet(groups) /\ \A g \in groups : IsFiniteSet(g)
    <2>1. IsFiniteSet(log) /\ IsFiniteSet(SUBSET log)
      BY FS_SUBSET DEF LogInv
    <2> QED BY <2>1, FS_Subset
  <1>2. UNION {part[g] : g \in groups} = UNION groups
    OBVIOUS
  <1>3. \A g \in groups : IsFiniteSet(part[g]) /\ F[g] = SumOver(f, part[g])
    BY <1>1
  <1>4. \A g \in groups : \A r \in part[g] : f[r] \in Int
    OBVIOUS
  <1>5. \A g, h \in groups : g # h => part[g] \cap part[h] = {}
    OBVIOUS
  <1> HIDE DEF part
  <1>6. SumOver(F, groups) = SumOver(f, UNION {part[g] : g \in groups})
    BY <1>1, <1>3, <1>4, <1>5, SumOfParts
  <1> QED BY <1>2, <1>6

\* Groups that have no row in common, and all rows between them, show in all
\* what the rows come to.
LEMMA TotalsOfGroups ==
    ASSUME AnalyticsAssumption, LogInv, NEW groups \in SUBSET SUBSET log,
           \A g, h \in groups : g # h => g \cap h = {}
    PROVE  Totals(groups) = Figures(UNION groups)
  <1> DEFINE tokens == [r \in LogRows |-> r.tokens]
             cached == [r \in LogRows |-> r.cached]
             ones == [r \in LogRows |-> 1]
  <1>1. IsFiniteSet(groups) /\ \A g \in groups : IsFiniteSet(g)
    <2>1. IsFiniteSet(log) /\ IsFiniteSet(SUBSET log)
      BY FS_SUBSET DEF LogInv
    <2> QED BY <2>1, FS_Subset
  <1>2. /\ \A r \in log : tokens[r] \in Int /\ cached[r] \in Int /\ ones[r] = 1
        /\ \A r \in log : Costs[r] \in Int /\ ones[r] \in Int
    BY RowFacts
  <1>3. SumOver([g \in groups |-> Figures(g).spent], groups) = SpentIn(UNION groups)
    <2>1. PICK F : F = [g \in groups |-> Figures(g).spent]
      OBVIOUS
    <2>2. \A g \in groups : F[g] = SumOver(Costs, g)
      BY <2>1 DEF Figures, SpentIn
    <2>3. SumOver(F, groups) = SumOver(Costs, UNION groups)
      BY <1>2, <2>2, SumOfGroups
    <2> QED BY <2>1, <2>3 DEF SpentIn
  <1>4. SumOver([g \in groups |-> Figures(g).tokens], groups) = TokensIn(UNION groups)
    <2>1. PICK F : F = [g \in groups |-> Figures(g).tokens]
      OBVIOUS
    <2>2. \A g \in groups : F[g] = SumOver(tokens, g)
      BY <2>1 DEF Figures, TokensIn
    <2>3. TokensIn(UNION groups) = SumOver(tokens, UNION groups)
      BY DEF TokensIn
    <2> HIDE DEF tokens
    <2>4. SumOver(F, groups) = SumOver(tokens, UNION groups)
      BY <1>2, <2>2, SumOfGroups
    <2> QED BY <2>1, <2>3, <2>4
  <1>5. SumOver([g \in groups |-> Figures(g).cached], groups) = CachedIn(UNION groups)
    <2>1. PICK F : F = [g \in groups |-> Figures(g).cached]
      OBVIOUS
    <2>2. \A g \in groups : F[g] = SumOver(cached, g)
      BY <2>1 DEF Figures, CachedIn
    <2>3. CachedIn(UNION groups) = SumOver(cached, UNION groups)
      BY DEF CachedIn
    <2> HIDE DEF cached
    <2>4. SumOver(F, groups) = SumOver(cached, UNION groups)
      BY <1>2, <2>2, SumOfGroups
    <2> QED BY <2>1, <2>3, <2>4
  <1>6. SumOver([g \in groups |-> Figures(g).requests], groups) = Cardinality(UNION groups)
    <2>1. PICK F : F = [g \in groups |-> Figures(g).requests]
      OBVIOUS
    <2>2. \A g \in groups : F[g] = Cardinality(g)
      BY <2>1 DEF Figures
    <2>3. \A r \in log : ones[r] = 1 /\ ones[r] \in Int
      BY <1>2
    <2>4. \A g \in groups : F[g] = SumOver(ones, g)
      <3> HIDE DEF ones
      <3> QED BY <1>1, <2>2, <2>3, SumOfOnes
    <2>5. IsFiniteSet(UNION groups)
      BY <1>1, FS_UNION
    <2>6. SumOver(ones, UNION groups) = Cardinality(UNION groups)
      <3> HIDE DEF ones
      <3> QED BY <2>3, <2>5, SumOfOnes
    <2> HIDE DEF ones
    <2>7. SumOver(F, groups) = SumOver(ones, UNION groups)
      BY <2>3, <2>4, SumOfGroups
    <2> QED BY <2>1, <2>6, <2>7
  <1> QED BY <1>3, <1>4, <1>5, <1>6 DEF Totals, Figures

\* GROUP BY
LEMMA TotalsByKey ==
    ASSUME AnalyticsAssumption, LogInv, NEW rows \in SUBSET log, NEW key
    PROVE  Totals(GroupsBy(rows, key)) = Figures(rows)
  <1>1. GroupsBy(rows, key) \in SUBSET SUBSET log
    BY DEF GroupsBy
  <1>2. \A g, h \in GroupsBy(rows, key) : g # h => g \cap h = {}
    BY DEF GroupsBy
  <1>3. UNION GroupsBy(rows, key) = rows
    BY DEF GroupsBy
  <1> QED BY <1>1, <1>2, <1>3, TotalsOfGroups

LEMMA TotalsOfOne ==
    ASSUME AnalyticsAssumption, LogInv, NEW rows \in SUBSET log
    PROVE  Totals({rows}) = Figures(rows) /\ Totals({{r} : r \in rows}) = Figures(rows)
  <1>1. UNION {rows} = rows /\ UNION {{r} : r \in rows} = rows
    OBVIOUS
  <1>2. {rows} \in SUBSET SUBSET log /\ {{r} : r \in rows} \in SUBSET SUBSET log
    OBVIOUS
  <1>3. /\ \A g, h \in {rows} : g # h => g \cap h = {}
        /\ \A g, h \in {{r} : r \in rows} : g # h => g \cap h = {}
    OBVIOUS
  <1>4. Totals({rows}) = Figures(rows)
    BY <1>1, <1>2, <1>3, TotalsOfGroups
  <1>5. Totals({{r} : r \in rows}) = Figures(rows)
    <2>1. PICK groups : groups = {{r} : r \in rows}
      OBVIOUS
    <2> QED BY <1>1, <1>2, <1>3, <2>1, TotalsOfGroups
  <1> QED BY <1>4, <1>5

-----------------------------------------------------------------------------
(* What the statements say *)

OrgParts == {"overview", "timeseries", "by_team", "by_user", "by_model", "forecast",
             "heatmap", "model_mix", "cache_rate", "endpoints", "mcp_servers",
             "top_tools", "tool_totals", "export"}
MyParts == {"my totals", "my models", "my trend"}

\* A use of a tool of an MCP server
Mcp(use) == use[2][1] # ""

\* What all statements of a page that say anything about a figure say.
OrgSays(q) ==
    [spent    |-> Figures(Selected(q)).spent,
     requests |-> Figures(Selected(q)).requests,
     tokens   |-> Figures(Selected(q)).tokens,
     cached   |-> Figures(Selected(q)).cached,
     mcpUses  |-> Cardinality({use \in Uses(q) : Mcp(use)}),
     tools    |-> Cardinality(Tools(q))]

PageSays(parts, q, u) == IF parts = MyParts THEN Figures(Mine(q, u)) ELSE OrgSays(q)

Figured == {"spent", "requests", "tokens", "cached", "mcpUses"}

Heeds(p, answer, said) ==
    \/ /\ DOMAIN answer \subseteq Figured
       /\ \A figure \in DOMAIN answer : answer[figure] = said[figure]
    \/ /\ p = "top_tools" /\ DOMAIN answer = {"mcpSome"}
       /\ said.tools > ToolLimit /\ answer.mcpSome <= said.mcpUses

LEMMA UsesFinite ==
    ASSUME AnalyticsAssumption, LogInv, NEW q
    PROVE  IsFiniteSet(Uses(q))
  <1> DEFINE pairs(r) == {<<r, tool>> : tool \in r.tools}
             part == [r \in Selected(q) |-> pairs(r)]
  <1>1. IsFiniteSet(Selected(q)) /\ Selected(q) \subseteq log
    BY FS_Subset DEF Selected, LogInv
  <1>2. ASSUME NEW r \in Selected(q) PROVE IsFiniteSet(part[r])
    <2>1. IsFiniteSet(r.tools)
      BY <1>1, RowFacts
    <2>2. PICK h : h = [tool \in r.tools |-> <<r, tool>>]
      OBVIOUS
    <2>3. pairs(r) = {h[tool] : tool \in r.tools}
      BY <2>2
    <2>4. IsFiniteSet(pairs(r))
      <3> HIDE DEF pairs
      <3> QED BY <2>1, <2>3, ImageFinite
    <2> QED BY <2>4
  <1>3. Uses(q) = UNION {part[r] : r \in Selected(q)}
    BY DEF Uses
  <1> HIDE DEF part
  <1> QED BY <1>1, <1>2, <1>3, PartsFinite

\* Uses that are counted by what they have in common
LEMMA CountOfParts ==
    ASSUME NEW U, IsFiniteSet(U), NEW I, IsFiniteSet(I), NEW part,
           \A i \in I : part[i] \in SUBSET U,
           \A i, j \in I : i # j => part[i] \cap part[j] = {},
           NEW F, \A i \in I : F[i] = Cardinality(part[i])
    PROVE  SumOver(F, I) = Cardinality(UNION {part[i] : i \in I})
  <1> DEFINE ones == [x \in U |-> 1]
  <1>1. \A x \in U : ones[x] = 1 /\ ones[x] \in Int
    OBVIOUS
  <1> HIDE DEF ones
  <1>2. \A i \in I : IsFiniteSet(part[i])
    BY FS_Subset
  <1>3. \A i \in I : SumOver(ones, part[i]) = Cardinality(part[i])
    <2> TAKE i \in I
    <2>1. IsFiniteSet(part[i]) /\ \A x \in part[i] : ones[x] = 1
      BY <1>1, <1>2
    <2> QED BY <2>1, SumOfOnes
  <1>4. \A i \in I : IsFiniteSet(part[i]) /\ F[i] = SumOver(ones, part[i])
    BY <1>2, <1>3
  <1>5. \A i \in I : \A x \in part[i] : ones[x] \in Int
    BY <1>1
  <1>6. SumOver(F, I) = SumOver(ones, UNION {part[i] : i \in I})
    BY <1>4, <1>5, SumOfParts
  <1>7. /\ IsFiniteSet(UNION {part[i] : i \in I})
        /\ \A x \in UNION {part[i] : i \in I} : ones[x] = 1
    BY <1>1, <1>2, PartsFinite
  <1>8. SumOver(ones, UNION {part[i] : i \in I}) = Cardinality(UNION {part[i] : i \in I})
    BY <1>7, SumOfOnes
  <1> QED BY <1>6, <1>8

LEMMA ServersCount ==
    ASSUME AnalyticsAssumption, LogInv, NEW q
    PROVE  McpServers(q) = [mcpUses |-> Cardinality({use \in Uses(q) : Mcp(use)})]
  <1> DEFINE I == {use[2][1] : use \in Uses(q)} \ {""}
             F == [server \in I |-> Cardinality({use \in Uses(q) : use[2][1] = server})]
             part == [server \in I |-> {use \in Uses(q) : use[2][1] = server}]
  <1>1. IsFiniteSet(Uses(q))
    BY UsesFinite
  <1>2. IsFiniteSet(I)
    <2>1. PICK h : h = [use \in Uses(q) |-> use[2][1]]
      OBVIOUS
    <2>2. I = {h[use] : use \in Uses(q)} \ {""}
      BY <2>1
    <2>3. IsFiniteSet({h[use] : use \in Uses(q)})
      BY <1>1, ImageFinite
    <2> HIDE DEF I
    <2> QED BY <2>2, <2>3, FS_RemoveElement
  <1>3. UNION {part[i] : i \in I} = {use \in Uses(q) : Mcp(use)}
    <2>1. \A i \in I : \A use \in part[i] : use \in Uses(q) /\ Mcp(use)
      BY DEF Mcp
    <2>2. ASSUME NEW use \in Uses(q), Mcp(use) PROVE \E i \in I : use \in part[i]
      <3>1. use[2][1] \in I
        BY <2>2 DEF Mcp
      <3>2. use \in part[use[2][1]]
        BY <3>1
      <3> HIDE DEF I, part
      <3> QED BY <3>1, <3>2
    <2> HIDE DEF I, part
    <2> QED BY <2>1, <2>2
  <1>4. /\ \A i \in I : part[i] \in SUBSET Uses(q)
        /\ \A i, j \in I : i # j => part[i] \cap part[j] = {}
        /\ \A i \in I : F[i] = Cardinality(part[i])
    OBVIOUS
  <1>5. McpServers(q) = [mcpUses |-> SumOver(F, I)]
    BY DEF McpServers
  <1> HIDE DEF I, F, part
  <1>6. SumOver(F, I) = Cardinality(UNION {part[i] : i \in I})
    BY <1>1, <1>2, <1>4, CountOfParts
  <1> QED BY <1>3, <1>5, <1>6

\* A part has no more members than the whole.
LEMMA CountWithin ==
    ASSUME NEW S, IsFiniteSet(S), NEW R \in SUBSET S
    PROVE  /\ IsFiniteSet(R) /\ Cardinality(R) \in Nat /\ Cardinality(S) \in Nat
           /\ Cardinality(R) <= Cardinality(S)
  BY FS_Subset, FS_CardinalityType

LEMMA ToolsFinite ==
    ASSUME AnalyticsAssumption, LogInv, NEW q
    PROVE  IsFiniteSet(Tools(q)) /\ Cardinality(Tools(q)) \in Nat
  <1>1. IsFiniteSet(Uses(q))
    BY UsesFinite
  <1>2. PICK h : h = [use \in Uses(q) |-> use[2]]
    OBVIOUS
  <1>3. Tools(q) = {h[use] : use \in Uses(q)}
    BY <1>2 DEF Tools
  <1> QED BY <1>1, <1>3, ImageFinite, FS_CardinalityType

\* The uses of the tools of MCP servers that are listed
McpUsesOf(q, listed) == {use \in Uses(q) : Mcp(use) /\ use[2] \in listed}

LEMMA ToolsCount ==
    ASSUME AnalyticsAssumption, LogInv, NEW q, NEW listed \in SUBSET Tools(q)
    PROVE  TopTools(q, listed) =
             IF listed = Tools(q) THEN [mcpUses |-> Cardinality(McpUsesOf(q, listed))]
             ELSE [mcpSome |-> Cardinality(McpUsesOf(q, listed))]
  <1> DEFINE I == {tool \in listed : tool[1] # ""}
             F == [tool \in I |-> UsesOf(q, tool)]
             part == [tool \in I |-> {use \in Uses(q) : use[2] = tool}]
  <1>1. IsFiniteSet(Uses(q))
    BY UsesFinite
  <1>2. IsFiniteSet(I)
    BY ToolsFinite, FS_Subset
  <1>3. UNION {part[i] : i \in I} = McpUsesOf(q, listed)
    <2>1. \A i \in I : \A use \in part[i] : use \in Uses(q) /\ Mcp(use) /\ use[2] \in listed
      BY DEF Mcp
    <2>2. ASSUME NEW use \in Uses(q), Mcp(use), use[2] \in listed
          PROVE  \E i \in I : use \in part[i]
      <3>1. use[2] \in I
        BY <2>2 DEF Mcp
      <3>2. use \in part[use[2]]
        BY <3>1
      <3> HIDE DEF I, part
      <3> QED BY <3>1, <3>2
    <2> HIDE DEF I, part
    <2> QED BY <2>1, <2>2 DEF McpUsesOf
  <1>4. /\ \A i \in I : part[i] \in SUBSET Uses(q)
        /\ \A i, j \in I : i # j => part[i] \cap part[j] = {}
        /\ \A i \in I : F[i] = Cardinality(part[i])
    BY DEF UsesOf
  <1>5. TopTools(q, listed) = IF listed = Tools(q) THEN [mcpUses |-> SumOver(F, I)]
                              ELSE [mcpSome |-> SumOver(F, I)]
    BY DEF TopTools
  <1> HIDE DEF I, F, part
  <1>6. SumOver(F, I) = Cardinality(UNION {part[i] : i \in I})
    BY <1>1, <1>2, <1>4, CountOfParts
  <1> QED BY <1>3, <1>5, <1>6

\* A list that is cut is one of too many tools, and tells of no more uses than
\* there are.
LEMMA TopToolsHeed ==
    ASSUME AnalyticsAssumption, LogInv, NEW q, NEW listed \in TopLists(q)
    PROVE  Heeds("top_tools", TopTools(q, listed), OrgSays(q))
  <1>1. IsFiniteSet(Uses(q)) /\ IsFiniteSet(Tools(q)) /\ Cardinality(Tools(q)) \in Nat
    BY UsesFinite, ToolsFinite
  <1>2. /\ listed \in SUBSET Tools(q)
        /\ listed = Tools(q) \/ Cardinality(listed) = ToolLimit
    BY DEF TopLists
  <1>3. CASE listed = Tools(q)
    <2>1. McpUsesOf(q, listed) = {use \in Uses(q) : Mcp(use)}
      BY <1>3 DEF McpUsesOf, Tools
    <2>2. TopTools(q, listed) = [mcpUses |-> Cardinality({use \in Uses(q) : Mcp(use)})]
      BY <1>2, <1>3, <2>1, ToolsCount
    <2> QED BY <2>2 DEF Heeds, OrgSays, Figured
  <1>4. CASE listed # Tools(q)
    <2>1. TopTools(q, listed) = [mcpSome |-> Cardinality(McpUsesOf(q, listed))]
      BY <1>2, <1>4, ToolsCount
    <2>2. McpUsesOf(q, listed) \in SUBSET {use \in Uses(q) : Mcp(use)}
      BY DEF McpUsesOf
    <2>3. IsFiniteSet({use \in Uses(q) : Mcp(use)})
      BY <1>1, FS_Subset
    <2>4. Cardinality(McpUsesOf(q, listed)) <= Cardinality({use \in Uses(q) : Mcp(use)})
      BY <2>2, <2>3, CountWithin
    <2>5. Cardinality(Tools(q)) > ToolLimit
      <3>1. /\ Cardinality(listed) = ToolLimit /\ Cardinality(listed) \in Nat
            /\ Cardinality(listed) <= Cardinality(Tools(q))
        BY <1>1, <1>2, <1>4, CountWithin
      <3>2. Cardinality(listed) # Cardinality(Tools(q))
        BY <1>1, <1>2, <1>4, FS_Subset
      <3> QED BY <1>1, <3>1, <3>2
    <2> QED BY <2>1, <2>4, <2>5 DEF Heeds, OrgSays
  <1> QED BY <1>3, <1>4

\* What a statement answers is what its page says.
LEMMA OrgAnswers ==
    ASSUME AnalyticsAssumption, LogInv, NEW q, NEW u, NEW p \in OrgParts,
           NEW listed \in TopLists(q)
    PROVE  Heeds(p, Answer(p, q, u, listed), OrgSays(q))
  <1>1. Selected(q) \in SUBSET log
    BY DEF Selected
  <1>2. Heeds(p, Figures(Selected(q)), OrgSays(q))
    BY DEF Heeds, OrgSays, Figures, Figured
  <1>3. Heeds(p, [mcpUses |-> Cardinality({use \in Uses(q) : Mcp(use)})], OrgSays(q))
    BY DEF Heeds, OrgSays, Figured
  <1>4. /\ Overview(q) = Figures(Selected(q)) /\ Export(q) = Figures(Selected(q))
        /\ Timeseries(q) = Figures(Selected(q)) /\ ByTeam(q) = Figures(Selected(q))
        /\ ByUser(q) = Figures(Selected(q)) /\ ByModel(q) = Figures(Selected(q))
        /\ ByDay(q) = Figures(Selected(q)) /\ ByHour(q) = Figures(Selected(q))
        /\ ByEndpoint(q) = Figures(Selected(q)) /\ CacheRate(q) = Figures(Selected(q))
    BY <1>1, TotalsOfOne, TotalsByKey
    DEF Overview, Export, Timeseries, ByTeam, ByUser, ByModel, ByDay, ByHour, ByEndpoint,
        CacheRate
  <1>5. /\ McpServers(q) = [mcpUses |-> Cardinality({use \in Uses(q) : Mcp(use)})]
        /\ ToolTotals(q) = [mcpUses |-> Cardinality({use \in Uses(q) : Mcp(use)})]
    BY ServersCount DEF ToolTotals, Mcp
  <1>6. CASE p = "top_tools"
    <2>1. Answer(p, q, u, listed) = TopTools(q, listed)
      BY <1>6 DEF Answer
    <2> QED BY <1>6, <2>1, TopToolsHeed
  <1>7. CASE p # "top_tools"
    <2>1. \/ Answer(p, q, u, listed) = Figures(Selected(q))
          \/ Answer(p, q, u, listed) =
               [mcpUses |-> Cardinality({use \in Uses(q) : Mcp(use)})]
      BY <1>4, <1>5, <1>7 DEF Answer, OrgParts
    <2> QED BY <1>2, <1>3, <2>1
  <1> QED BY <1>6, <1>7

LEMMA MyAnswers ==
    ASSUME AnalyticsAssumption, LogInv, NEW q, NEW u, NEW p \in MyParts, NEW listed
    PROVE  Heeds(p, Answer(p, q, u, listed), Figures(Mine(q, u)))
  <1>1. Mine(q, u) \in SUBSET log
    BY DEF Mine
  <1>2. /\ MyTotals(q, u) = Figures(Mine(q, u)) /\ MyModels(q, u) = Figures(Mine(q, u))
        /\ MyTrend(q, u) = Figures(Mine(q, u))
    BY <1>1, TotalsOfOne, TotalsByKey DEF MyTotals, MyModels, MyTrend
  <1>3. Answer(p, q, u, listed) = Figures(Mine(q, u))
    BY <1>2 DEF Answer, MyParts
  <1> QED BY <1>3 DEF Heeds, Figures, Figured

-----------------------------------------------------------------------------
(* The board *)

\* What is on the board was said by statements of one page about the rows as
\* they are.
BoardInv ==
    \/ board = NoAnswer
    \/ \E parts \in {OrgParts, MyParts} :
         /\ board = [query |-> board.query, who |-> board.who,
                     left |-> board.left, got |-> board.got]
         /\ board.left \in Seq(parts) /\ DOMAIN board.got \subseteq parts
         /\ \A p \in DOMAIN board.got :
              Heeds(p, board.got[p], PageSays(parts, board.query, board.who))

\* The inductive invariant of the pages
AnalyticsInv == LogInv /\ BoardInv


LEMMA SaysSame ==
    ASSUME UNCHANGED <<log, unitOf, rates, today>>, NEW parts, NEW q, NEW u
    PROVE  PageSays(parts, q, u)' = PageSays(parts, q, u)
  <1>1. Selected(q)' = Selected(q) /\ Mine(q, u)' = Mine(q, u)
    BY DEF Selected, DaysBack, Matches, TeamName, Mine
  <1>2. Uses(q)' = Uses(q)
    BY <1>1 DEF Uses
  <1>3. Costs' = Costs
    BY DEF Costs, Rated
  <1>4. \A rows : Figures(rows)' = Figures(rows)
    BY <1>3 DEF Figures, SpentIn, TokensIn, CachedIn
  <1>5. Figures(Selected(q))' = Figures(Selected(q)) /\ Figures(Mine(q, u))' = Figures(Mine(q, u))
    BY <1>1, <1>3 DEF Figures, SpentIn, TokensIn, CachedIn
  <1>6. OrgSays(q)' = OrgSays(q)
    BY <1>2, <1>5 DEF OrgSays, Tools
  <1> QED BY <1>5, <1>6 DEF PageSays

LEMMA PagesAreOrg ==
    \A page \in DOMAIN Pages : Pages[1] \o Pages[page] \in Seq(OrgParts)
  <1>1. DOMAIN Pages = 1..6
    BY DEF Pages
  <1>2. /\ Pages[1] \in Seq(OrgParts) /\ Pages[2] \in Seq(OrgParts)
        /\ Pages[3] \in Seq(OrgParts) /\ Pages[4] \in Seq(OrgParts)
        /\ Pages[5] \in Seq(OrgParts) /\ Pages[6] \in Seq(OrgParts)
    BY DEF Pages, OrgParts
  <1> SUFFICES ASSUME NEW page \in 1..6 PROVE Pages[1] \o Pages[page] \in Seq(OrgParts)
    BY <1>1
  <1>3. Pages[page] \in Seq(OrgParts)
    BY <1>2
  <1> QED BY <1>2, <1>3

LEMMA MineIsOther == OrgParts # MyParts
  BY DEF OrgParts, MyParts

LEMMA NothingIsSaid == board.got = << >> => DOMAIN board.got = {}
  OBVIOUS

\* A change of the rows leaves nothing said on the board.
LEMMA UnsettledBoard ==
    ASSUME BoardInv, board' = Unsettled
    PROVE  BoardInv'
  <1>1. CASE board = NoAnswer
    BY <1>1 DEF BoardInv, Unsettled, NoAnswer
  <1>2. CASE board # NoAnswer
    <2>1. PICK parts \in {OrgParts, MyParts} :
            /\ board = [query |-> board.query, who |-> board.who,
                        left |-> board.left, got |-> board.got]
            /\ board.left \in Seq(parts)
      BY <1>2 DEF BoardInv
    <2>2. board' = [query |-> board.query, who |-> board.who,
                    left |-> board.left, got |-> << >>]
      BY <2>1 DEF Unsettled
    <2>3. /\ board' = [query |-> board'.query, who |-> board'.who,
                       left |-> board'.left, got |-> board'.got]
          /\ board'.left \in Seq(parts) /\ board'.got = << >>
      BY <2>1, <2>2
    <2>4. DOMAIN board'.got = {}
      BY <2>3
    <2> QED BY <2>3, <2>4 DEF BoardInv
  <1> QED BY <1>1, <1>2

LEMMA AskedBoard ==
    ASSUME NEW q, NEW u, NEW parts, Ask(q, parts, u),
           parts \in Seq(OrgParts) \/ parts \in Seq(MyParts)
    PROVE  BoardInv'
  <1>1. board' = [query |-> q, who |-> u, left |-> parts, got |-> << >>]
    BY DEF Ask
  <1>2. /\ board' = [query |-> board'.query, who |-> board'.who,
                     left |-> board'.left, got |-> board'.got]
        /\ board'.left = parts /\ board'.got = << >>
    BY <1>1
  <1>3. DOMAIN board'.got = {}
    BY <1>2
  <1> QED BY <1>2, <1>3 DEF BoardInv

LEMMA StatementRun ==
    ASSUME AnalyticsAssumption, AnalyticsInv, RunStatement
    PROVE  BoardInv'
  <1>1. board # NoAnswer
    BY DEF RunStatement, NoAnswer
  <1>2. PICK parts \in {OrgParts, MyParts} :
          /\ board = [query |-> board.query, who |-> board.who,
                      left |-> board.left, got |-> board.got]
          /\ board.left \in Seq(parts) /\ DOMAIN board.got \subseteq parts
          /\ \A p \in DOMAIN board.got :
               Heeds(p, board.got[p], PageSays(parts, board.query, board.who))
    BY <1>1 DEF AnalyticsInv, BoardInv
  <1>3. PICK part : part = Head(board.left)
    OBVIOUS
  <1>a. PICK listed \in TopLists(board.query) :
          board' = [board EXCEPT
                     !.left = Tail(@),
                     !.got = [p \in DOMAIN @ \cup {part} |->
                                IF p = part THEN Answer(part, board.query, board.who, listed)
                                ELSE @[p]]]
    BY <1>3 DEF RunStatement
  <1>4. PICK got : got = [p \in DOMAIN board.got \cup {part} |->
                            IF p = part THEN Answer(part, board.query, board.who, listed)
                            ELSE board.got[p]]
    OBVIOUS
  <1>5. /\ board.left # << >>
        /\ board' = [query |-> board.query, who |-> board.who,
                     left |-> Tail(board.left), got |-> got]
        /\ UNCHANGED <<log, unitOf, rates, today>>
    BY <1>2, <1>3, <1>4, <1>a DEF RunStatement
  <1>6. part \in parts /\ Tail(board.left) \in Seq(parts)
    BY <1>2, <1>3, <1>5
  <1>7. Heeds(part, Answer(part, board.query, board.who, listed),
              PageSays(parts, board.query, board.who))
    <2>1. CASE parts = OrgParts
      BY <1>6, <2>1, OrgAnswers, MineIsOther DEF AnalyticsInv, PageSays
    <2>2. CASE parts = MyParts
      BY <1>6, <2>2, MyAnswers DEF AnalyticsInv, PageSays
    <2> QED BY <2>1, <2>2
  <1>8. /\ board' = [query |-> board'.query, who |-> board'.who,
                     left |-> board'.left, got |-> board'.got]
        /\ board'.left \in Seq(parts) /\ DOMAIN board'.got \subseteq parts
        /\ board'.got = got /\ board'.query = board.query /\ board'.who = board.who
    BY <1>2, <1>4, <1>5, <1>6
  <1>9. \A p \in DOMAIN got : Heeds(p, got[p], PageSays(parts, board.query, board.who))
    BY <1>2, <1>4, <1>7
  <1>10. PICK said : said = PageSays(parts, board.query, board.who)
    OBVIOUS
  <1>11. PICK q, u : q = board.query /\ u = board.who
    OBVIOUS
  <1>12. PageSays(parts, q, u)' = said
    BY <1>5, <1>10, <1>11, SaysSame
  <1>13. PageSays(parts, board.query, board.who)' = said
    BY <1>8, <1>11, <1>12
  <1>14. \A p \in DOMAIN board'.got : Heeds(p, board'.got[p], said)
    BY <1>8, <1>9, <1>10
  <1> QED BY <1>8, <1>13, <1>14 DEF BoardInv, Heeds

LEMMA AnalyticsStep ==
    ASSUME AnalyticsAssumption, AnalyticsInv, [AnalyticsNext]_analyticsVars
    PROVE  AnalyticsInv'
  <1> USE DEF AnalyticsInv
  <1>1. ASSUME NEW r \in LogRows, Flushed(r) PROVE AnalyticsInv'
    <2>1. LogInv'
      BY <1>1, FS_AddElement DEF Flushed, LogInv
    <2> QED BY <1>1, <2>1, UnsettledBoard DEF Flushed
  <1>2. ASSUME Tomorrow PROVE AnalyticsInv'
    <2>1. LogInv'
      BY <1>2, RowFacts DEF Tomorrow, LogInv
    <2> QED BY <1>2, <2>1, UnsettledBoard DEF Tomorrow
  <1>3. ASSUME NEW u, NEW t, Reassign(u, t) PROVE AnalyticsInv'
    <2>1. LogInv'
      BY <1>3 DEF Reassign, LogInv
    <2> QED BY <1>3, <2>1, UnsettledBoard DEF Reassign
  <1>4. ASSUME NEW model \in Kinds, NEW rate \in Rates \cup {Unrated}, Reprice(model, rate)
        PROVE  AnalyticsInv'
    <2>1. LogInv'
      BY <1>4 DEF Reprice, LogInv
    <2> QED BY <1>4, <2>1, UnsettledBoard DEF Reprice
  <1>5. ASSUME NEW q \in Queries, NEW u \in Identities, Ask(q, MyPage, u)
        PROVE  AnalyticsInv'
    <2>1. MyPage \in Seq(MyParts)
      BY DEF MyPage, MyParts
    <2>2. LogInv'
      BY <1>5 DEF Ask, LogInv
    <2> QED BY <1>5, <2>1, <2>2, AskedBoard
  <1>6. ASSUME NEW q \in Queries, NEW page \in DOMAIN Pages,
               Ask(q, Pages[1] \o Pages[page], Unknown)
        PROVE  AnalyticsInv'
    <2>1. Pages[1] \o Pages[page] \in Seq(OrgParts)
      BY PagesAreOrg
    <2>2. LogInv'
      BY <1>6 DEF Ask, LogInv
    <2> QED BY <1>6, <2>1, <2>2, AskedBoard
  <1>7. ASSUME RunStatement PROVE AnalyticsInv'
    <2>1. LogInv'
      BY <1>7 DEF RunStatement, LogInv
    <2> QED BY <1>7, <2>1, StatementRun
  <1>8. ASSUME CloseBoard PROVE AnalyticsInv'
    BY <1>8 DEF CloseBoard, LogInv, BoardInv
  <1>a. ASSUME FailStatement PROVE AnalyticsInv'
    <2>1. LogInv'
      BY <1>a DEF FailStatement, LogInv
    <2>2. CASE board' = NoAnswer
      BY <2>1, <2>2 DEF BoardInv
    <2>3. CASE board' = [board EXCEPT !.left = Tail(@)]
      <3>1. board # NoAnswer
        BY <1>a DEF FailStatement, NoAnswer
      <3>2. PICK parts \in {OrgParts, MyParts} :
              /\ board = [query |-> board.query, who |-> board.who,
                          left |-> board.left, got |-> board.got]
              /\ board.left \in Seq(parts) /\ DOMAIN board.got \subseteq parts
              /\ \A p \in DOMAIN board.got :
                   Heeds(p, board.got[p], PageSays(parts, board.query, board.who))
        BY <3>1 DEF BoardInv
      <3>3. PICK q, u, got, rest : /\ q = board.query /\ u = board.who /\ got = board.got
                                   /\ rest = Tail(board.left)
        OBVIOUS
      <3>4. rest \in Seq(parts)
        BY <1>a, <3>2, <3>3 DEF FailStatement
      <3>5. board' = [query |-> q, who |-> u, left |-> rest, got |-> got]
        BY <2>3, <3>2, <3>3
      <3>6. PICK said : said = PageSays(parts, q, u)
        OBVIOUS
      <3>7. PageSays(parts, q, u)' = said
        BY <1>a, <3>6, SaysSame DEF FailStatement
      <3>8. \A p \in DOMAIN got : Heeds(p, got[p], said)
        BY <3>2, <3>3, <3>6
      <3>9. /\ board'.query = q /\ board'.who = u /\ board'.left = rest /\ board'.got = got
            /\ board' = [query |-> board'.query, who |-> board'.who,
                         left |-> board'.left, got |-> board'.got]
        BY <3>5
      <3>10. PageSays(parts, board.query, board.who)' = said
        BY <3>7, <3>9
      <3>11. DOMAIN got \subseteq parts
        BY <3>2, <3>3
      <3> QED BY <2>1, <3>4, <3>8, <3>9, <3>10, <3>11 DEF BoardInv, Heeds
    <2> QED BY <1>a, <2>2, <2>3 DEF FailStatement
  <1>9. ASSUME UNCHANGED analyticsVars PROVE AnalyticsInv'
    <2>1. LogInv'
      BY <1>9 DEF analyticsVars, LogInv
    <2>2. board' = board /\ UNCHANGED <<log, unitOf, rates, today>>
      BY <1>9 DEF analyticsVars
    <2>3. ASSUME NEW parts PROVE PageSays(parts, board.query, board.who)' = PageSays(parts, board.query, board.who)
      <3>1. PICK q, u : q = board.query /\ u = board.who
        OBVIOUS
      <3>2. PageSays(parts, q, u)' = PageSays(parts, q, u)
        BY <2>2, SaysSame
      <3> QED BY <2>2, <3>1, <3>2
    <2>4. BoardInv'
      BY <2>2, <2>3 DEF BoardInv, Heeds
    <2> QED BY <2>1, <2>4
  <1> QED BY <1>1, <1>2, <1>3, <1>4, <1>5, <1>6, <1>7, <1>8, <1>9, <1>a DEF AnalyticsNext


-----------------------------------------------------------------------------
(* The figures agree *)

LEMMA LeastOf ==
    ASSUME NEW D \in SUBSET Nat, D # {}
    PROVE  \E d \in D : \A e \in D : d <= e
  <1>1. PICK d \in D : \A e \in D : ~ (<<e, d>> \in OpToRel(<, Nat))
    BY NatLessThanWellFounded, WFMin
  <1>2. \A e \in D : ~ (e < d)
    BY <1>1 DEF OpToRel
  <1> QED BY <1>2

\* Whoever has been active was seen first on a day up to that one.
LEMMA FirstSeenIs ==
    ASSUME AnalyticsAssumption, LogInv, NEW r \in log
    PROVE  FirstSeen(r.who) \in Nat /\ FirstSeen(r.who) <= r.day
  <1> DEFINE D == {s.day : s \in {t \in log : t.who = r.who}}
  <1>1. D \in SUBSET Nat /\ D # {}
    BY RowFacts
  <1>2. PICK d \in D : \A e \in D : d <= e
    BY <1>1, LeastOf
  <1>3. \A s \in log : s.who = r.who => d <= s.day
    BY <1>2
  <1>4. FirstSeen(r.who) \in D /\ \A s \in log : s.who = r.who => FirstSeen(r.who) <= s.day
    BY <1>3 DEF FirstSeen
  <1> QED BY <1>1, <1>4

LEMMA ActiveUsers ==
    ASSUME AnalyticsAssumption, LogInv, NEW q
    PROVE  {r.who : r \in Selected(q)} =
             UNION {NewUsers(q, d) \cup ReturningUsers(q, d) : d \in 1 .. today}
  <1>1. ASSUME NEW r \in Selected(q)
        PROVE  \E d \in 1 .. today : r.who \in NewUsers(q, d) \cup ReturningUsers(q, d)
    <2>1. r \in log
      BY DEF Selected
    <2>2. r.day \in 1 .. today /\ r.who \in Identities
      BY <2>1, RowFacts DEF LogInv
    <2>3. FirstSeen(r.who) = r.day \/ FirstSeen(r.who) < r.day
      BY <2>1, <2>2, FirstSeenIs
    <2>4. r.who \in NewUsers(q, r.day) \cup ReturningUsers(q, r.day)
      BY <2>2, <2>3 DEF NewUsers, ReturningUsers
    <2> QED BY <2>2, <2>4
  <1>2. ASSUME NEW d \in 1 .. today, NEW u \in NewUsers(q, d) \cup ReturningUsers(q, d)
        PROVE  \E r \in Selected(q) : u = r.who
    BY DEF NewUsers, ReturningUsers
  <1> QED BY <1>1, <1>2

\* Without filters, a period and the one before make one that is twice as long.
LEMMA PeriodsAdd ==
    ASSUME AnalyticsAssumption, LogInv, NEW q \in Queries, Unfiltered(q), q.from = 0
    PROVE  Overview(q).spent + PriorOverview(q).spent =
             Overview([q EXCEPT !.days = 2 * @]).spent
  <1>1. PICK p : p = [q EXCEPT !.days = 2 * @]
    OBVIOUS
  <1>2. q \in Query
    BY DEF AnalyticsAssumption
  <1>3. /\ q.days \in Nat /\ p.days = 2 * q.days /\ p.from = 0 /\ Unfiltered(p)
    BY <1>1, <1>2 DEF Query, Unfiltered
  <1>4. /\ Selected(q) = {r \in log : r.day >= today - q.days}
        /\ Selected(p) = {r \in log : r.day >= today - 2 * q.days}
    BY <1>3 DEF Selected, Matches, Chosen, Unfiltered, DaysBack
  <1>5. Prior(q) = {r \in log : r.day >= today - 2 * q.days /\ r.day < today - q.days}
    BY <1>3 DEF Prior, DaysBack
  <1>6. \A r \in log : r.day \in Nat
    BY RowFacts
  <1>7. Selected(p) = Selected(q) \cup Prior(q) /\ Selected(q) \cap Prior(q) = {}
    BY <1>3, <1>4, <1>5, <1>6 DEF LogInv
  <1>8. /\ Selected(q) \in SUBSET log /\ Prior(q) \in SUBSET log /\ Selected(p) \in SUBSET log
    BY <1>4, <1>5
  <1>9. /\ Overview(q).spent = SpentIn(Selected(q)) /\ Overview(p).spent = SpentIn(Selected(p))
        /\ PriorOverview(q).spent = SpentIn(Prior(q))
    <2>1. \A rows \in SUBSET log : Totals({rows}) = Figures(rows)
      BY TotalsOfOne
    <2>2. \A rows : Figures(rows).spent = SpentIn(rows)
      BY DEF Figures
    <2>3. /\ Totals({Selected(q)}) = Figures(Selected(q))
          /\ Totals({Selected(p)}) = Figures(Selected(p))
          /\ Totals({Prior(q)}) = Figures(Prior(q))
      BY <1>8, <2>1
    <2> QED BY <2>2, <2>3 DEF Overview, PriorOverview
  <1>10. /\ IsFiniteSet(Selected(q)) /\ IsFiniteSet(Prior(q))
         /\ \A r \in Selected(q) \cup Prior(q) : Costs[r] \in Int
    BY <1>8, FS_Subset, RowFacts DEF LogInv
  <1>11. SpentIn(Selected(p)) = SpentIn(Selected(q)) + SpentIn(Prior(q))
    BY <1>7, <1>10, SumUnion DEF SpentIn
  <1> QED BY <1>1, <1>9, <1>11

\* What rows cost, by whatever parts they are taken in.
LEMMA SpentInParts ==
    ASSUME AnalyticsAssumption, LogInv, NEW I, NEW part, IsFiniteSet(I),
           \A i \in I : part[i] \in SUBSET log,
           \A i, j \in I : i # j => part[i] \cap part[j] = {},
           NEW F, \A i \in I : F[i] = SumOver(Costs, part[i])
    PROVE  SumOver(F, I) = SumOver(Costs, UNION {part[i] : i \in I})
  <1>1. \A i \in I : IsFiniteSet(part[i])
    BY FS_Subset DEF LogInv
  <1>2. \A i \in I : IsFiniteSet(part[i]) /\ F[i] = SumOver(Costs, part[i])
    BY <1>1
  <1>3. \A i \in I : \A x \in part[i] : Costs[x] \in Int
    BY RowFacts
  <1>4. PICK c : c = Costs
    OBVIOUS
  <1>5. \A i \in I : F[i] = SumOver(c, part[i]) /\ \A x \in part[i] : c[x] \in Int
    BY <1>3, <1>4
  <1>6. SumOver(F, I) = SumOver(c, UNION {part[i] : i \in I})
    BY <1>1, <1>5, SumOfParts
  <1> QED BY <1>4, <1>6

\* What a team has spent in a period is what its members have.
LEMMA TeamsAdd ==
    ASSUME AnalyticsAssumption, LogInv, NEW t, NEW days, NEW F,
           \A u \in {v \in Identities : unitOf[v] = t} : F[u] = UserSpend(u, days)
    PROVE  SumOver(F, {v \in Identities : unitOf[v] = t}) = TeamSpend(t, days)
  <1> DEFINE I == {v \in Identities : unitOf[v] = t}
             part == [u \in I |-> {r \in log : r.who = u /\ r.day >= PeriodStart(days)}]
             mine == {r \in log : r.day >= PeriodStart(days) /\ unitOf[r.who] = t}
  <1>1. IsFiniteSet(I)
    BY FS_Subset DEF AnalyticsAssumption
  <1>2. \A u \in I : part[u] \in SUBSET log /\ F[u] = SumOver(Costs, part[u])
    BY DEF UserSpend, SpentIn
  <1>3. \A u, v \in I : u # v => part[u] \cap part[v] = {}
    OBVIOUS
  <1>4. UNION {part[u] : u \in I} = mine
    <2>1. \A u \in I : \A r \in part[u] : r \in mine
      OBVIOUS
    <2>2. ASSUME NEW r \in mine PROVE \E u \in I : r \in part[u]
      <3>1. r.who \in I /\ r \in part[r.who]
        BY RowFacts
      <3> HIDE DEF I, part
      <3> QED BY <3>1
    <2> HIDE DEF I, part, mine
    <2> QED BY <2>1, <2>2
  <1>5. TeamSpend(t, days) = SumOver(Costs, mine)
    BY DEF TeamSpend, SpentIn
  <1> HIDE DEF part, mine, I
  <1>6. SumOver(F, I) = SumOver(Costs, UNION {part[u] : u \in I})
    BY <1>1, <1>2, <1>3, SpentInParts
  <1>7. SumOver(F, I) = TeamSpend(t, days)
    BY <1>4, <1>5, <1>6
  <1> QED BY <1>7 DEF I

LEMMA InvFigures ==
    ASSUME AnalyticsAssumption, AnalyticsInv
    PROVE  FiguresAgree
  <1> USE DEF AnalyticsInv
  <1>1. ASSUME NEW p \in DOMAIN board.got, NEW q \in DOMAIN board.got,
               NEW figure \in DOMAIN board.got[p] \cap DOMAIN board.got[q]
        PROVE  board.got[p][figure] = board.got[q][figure]
    <2>1. board # NoAnswer
      BY NothingIsSaid DEF NoAnswer
    <2>2. PICK parts \in {OrgParts, MyParts} :
            \A s \in DOMAIN board.got :
              Heeds(s, board.got[s], PageSays(parts, board.query, board.who))
      BY <2>1 DEF BoardInv
    <2>3. /\ Heeds(p, board.got[p], PageSays(parts, board.query, board.who))
          /\ Heeds(q, board.got[q], PageSays(parts, board.query, board.who))
      BY <2>2
    <2> QED BY <2>3 DEF Heeds, Figured
  <1>a. ASSUME NEW p \in DOMAIN board.got, "mcpSome" \in DOMAIN board.got[p]
        PROVE  /\ Cardinality(Tools(board.query)) > ToolLimit
               /\ \A q \in DOMAIN board.got : "mcpUses" \in DOMAIN board.got[q] =>
                     board.got[p].mcpSome <= board.got[q].mcpUses
    <2>1. board # NoAnswer
      BY NothingIsSaid DEF NoAnswer
    <2>2. PICK parts \in {OrgParts, MyParts} :
            /\ DOMAIN board.got \subseteq parts
            /\ \A s \in DOMAIN board.got :
                 Heeds(s, board.got[s], PageSays(parts, board.query, board.who))
      BY <2>1 DEF BoardInv
    <2>3. PICK said : said = PageSays(parts, board.query, board.who)
      OBVIOUS
    <2>4. p = "top_tools" /\ said.tools > ToolLimit /\ board.got[p].mcpSome <= said.mcpUses
      BY <1>a, <2>2, <2>3 DEF Heeds, Figured
    <2>5. parts # MyParts
      BY <2>2, <2>4 DEF MyParts
    <2>6. said.tools = Cardinality(Tools(board.query))
      BY <2>3, <2>5 DEF PageSays, OrgSays
    <2>7. ASSUME NEW q \in DOMAIN board.got, "mcpUses" \in DOMAIN board.got[q]
          PROVE  board.got[q].mcpUses = said.mcpUses
      BY <2>2, <2>3, <2>7 DEF Heeds
    <2> QED BY <2>4, <2>6, <2>7
  <1>2. ASSUME NEW q \in Queries, NEW u \in Identities, q.from = 0, q.days <= 7
        PROVE  {r \in Mine(q, u) : ~Rated(r)} \subseteq UnratedRows
    <2>1. q.days \in Nat
      BY DEF AnalyticsAssumption, Query
    <2>2. \A r \in log : r.day \in Nat
      BY RowFacts
    <2>3. \A r \in Mine(q, u) : r \in log /\ r.day >= today - 7
      BY <1>2, <2>1, <2>2 DEF Mine, LogInv
    <2> QED BY <2>3 DEF UnratedRows
  <1>3. ASSUME NEW t \in Budgeted
        PROVE  /\ BudgetStatus(t) = TeamSpend(t, PeriodOf[t])
               /\ (\A u \in DOMAIN MemberSpend(t) : PeriodOf[u] = PeriodOf[t]) =>
                     BudgetStatus(t) = SumOver(MemberSpend(t), DOMAIN MemberSpend(t))
    <2>1. PICK F : F = [u \in Identities |-> UserSpend(u, PeriodOf[t])]
      OBVIOUS
    <2>2. \A u \in {v \in Identities : unitOf[v] = t} : F[u] = UserSpend(u, PeriodOf[t])
      BY <2>1
    <2>3. BudgetStatus(t) = SumOver(F, {v \in Identities : unitOf[v] = t})
      BY <2>1 DEF BudgetStatus
    <2>4. PICK M : M = MemberSpend(t)
      OBVIOUS
    <2>5. /\ DOMAIN M = {v \in Identities : unitOf[v] = t}
          /\ \A u \in {v \in Identities : unitOf[v] = t} : M[u] = UserSpend(u, PeriodOf[u])
      BY <2>4 DEF MemberSpend
    <2>6. SumOver(F, {v \in Identities : unitOf[v] = t}) = TeamSpend(t, PeriodOf[t])
      BY <2>2, TeamsAdd
    <2>7. ASSUME \A u \in DOMAIN M : PeriodOf[u] = PeriodOf[t]
          PROVE  SumOver(M, {v \in Identities : unitOf[v] = t}) = TeamSpend(t, PeriodOf[t])
      <3>1. \A u \in {v \in Identities : unitOf[v] = t} : M[u] = UserSpend(u, PeriodOf[t])
        BY <2>5, <2>7
      <3> QED BY <3>1, TeamsAdd
    <2> QED BY <2>3, <2>4, <2>5, <2>6, <2>7
  <1> QED BY <1>1, <1>a, <1>2, <1>3, ActiveUsers, PeriodsAdd DEF FiguresAgree

LEMMA AnalyticsInvInit ==
    ASSUME AnalyticsAssumption, AnalyticsInit
    PROVE  AnalyticsInv
  <1>1. IsFiniteSet({})
    BY FS_EmptySet
  <1> QED BY <1>1 DEF AnalyticsInit, AnalyticsInv, LogInv, BoardInv

\* What the pages of a dashboard say adds up, for all rows, people, prices,
\* filters and groups, and whatever changes between two statements; sums over
\* groups are proved equal to those over rows by induction over finite sets.
THEOREM FiguresAddUp == AnalyticsSpec => []FiguresAgree
  <1>1. AnalyticsInit => AnalyticsInv
    BY AnalyticsInvInit, AnalyticsAssumption
  <1>2. AnalyticsInv /\ [AnalyticsNext]_analyticsVars => AnalyticsInv'
    BY AnalyticsStep, AnalyticsAssumption
  <1>3. AnalyticsInv => FiguresAgree
    BY InvFigures, AnalyticsAssumption
  <1> QED BY <1>1, <1>2, <1>3, PTL DEF AnalyticsSpec
=============================================================================
