---------------------------- MODULE Organisation ----------------------------
(***************************************************************************)
(* Teams, their members and budgets, whom keys belong to, and the budget   *)
(* of users without any (api/admin.rs, db/teams.rs, handlers.rs:2346).     *)
(*                                                                         *)
(* An update of a key reads its row, fills in what the request leaves out, *)
(* and writes both columns; the default budget is a row of proxy_settings  *)
(* per field, written concurrently and read one after the other.           *)
(***************************************************************************)
EXTENDS Integers, FiniteSets

CONSTANTS
    Staff,          \* users
    Teams,
    VirtualKeys,
    Sums,           \* amounts of budgets
    Null,           \* SQL NULL, an empty string, no row
    Managers,       \* requests of administrators that take several steps
    Readers,        \* requests that read the default budget
    MaxOrgChanges,  \* bound of the model
    MaxErrors       \* bound of the model: statements that fail

ASSUME OrganisationAssumption ==
    {MaxOrgChanges, MaxErrors} \subseteq Nat /\ "default" \notin VirtualKeys

VARIABLES
    teams,        \* per team its budget, Null if there is no such team
    staff,        \* per user: [team, limit]
    keyRows,      \* per key: [user, team], or Null
    default,      \* the default budget: [amount, policy], a row each
    managers,     \* what each request is doing
    readers,      \* per reader: [amount, policy, failed, phase, disturbed]
    asked,        \* history: per key what the requests so far amount to, and
                  \* the default budget of the last request
    mixed,        \* history: keys, and "default", of requests that overlapped
                  \* or failed half way
    orgChanges, errors

orgVars == <<teams, staff, keyRows, default, managers, readers, asked, mixed,
             orgChanges, errors>>

Fields == {"amount", "policy"}
NoTask == [kind |-> "none", key |-> Null]
NoReader == [phase |-> "none"]
Given(new, old) == IF new = "absent" THEN old ELSE new

OrganisationInit ==
    /\ teams \in [Teams -> {Null} \cup Sums]
    /\ staff = [u \in Staff |-> [team |-> Null, limit |-> Null]]
    /\ keyRows = [k \in VirtualKeys |-> Null]
    /\ default = [f \in Fields |-> Null]
    /\ managers = [m \in Managers |-> NoTask]
    /\ readers = [q \in Readers |-> NoReader]
    /\ asked = [keys |-> [k \in VirtualKeys |-> Null], default |-> default]
    /\ mixed = {}
    /\ orgChanges = 0 /\ errors = 0

Change == orgChanges < MaxOrgChanges /\ orgChanges' = orgChanges + 1
StatementError == errors < MaxErrors /\ errors' = errors + 1
Statement(ok) == IF ok THEN UNCHANGED errors ELSE StatementError

\* Foreign keys: what a row refers to is there.
IsTeam(t) == t # Null => teams[t] # Null

\* Requests that have read a row of key k, or of user u, and will write.
Updating(k) == {m \in Managers : managers[m].kind = "update" /\ managers[m].key = k}

\* Keys that are being made for u, and will have the team that u has left.
MadeFor(u) == {managers[m].key : m \in {n \in Managers : managers[n].kind = "create"
                                                         /\ managers[n].user = u}}

TeamOf(u) == IF u = Null THEN Null ELSE staff[u].team

-----------------------------------------------------------------------------
(* Teams and users *)

\* create_team()
CreateTeam(t) ==
    /\ Change /\ teams[t] = Null
    /\ \E sum \in Sums : teams' = [teams EXCEPT ![t] = sum]
    /\ UNCHANGED <<staff, keyRows, default, managers, readers, asked, mixed, errors>>

\* delete_team(), unless users or keys refer to it
DeleteTeam(t) ==
    /\ Change /\ teams[t] # Null
    /\ \A u \in Staff : staff[u].team # t
    /\ \A k \in VirtualKeys : keyRows[k] # Null => keyRows[k].team # t
    /\ teams' = [teams EXCEPT ![t] = Null]
    /\ UNCHANGED <<staff, keyRows, default, managers, readers, asked, mixed, errors>>

\* update_team_budget()
UpdateTeamBudget(t, sum) ==
    /\ Change /\ teams[t] # Null
    /\ teams' = [teams EXCEPT ![t] = sum]
    /\ UNCHANGED <<staff, keyRows, default, managers, readers, asked, mixed, errors>>

\* update_user_spend_limit()
UpdateSpendLimit(u, sum) ==
    /\ Change
    /\ staff' = [staff EXCEPT ![u].limit = sum]
    /\ UNCHANGED <<teams, keyRows, default, managers, readers, asked, mixed, errors>>

\* add_team_member(), update_user_team(), remove_team_member() with t = Null
MoveUser(u, t) ==
    /\ Change /\ IsTeam(t)
    /\ staff' = [staff EXCEPT ![u].team = t]
    /\ mixed' = mixed \cup MadeFor(u)
    /\ UNCHANGED <<teams, keyRows, default, managers, readers, asked, errors>>

\* list_team_members(), list_team_keys()
MembersOf(t) == {u \in Staff : staff[u].team = t}
KeysOf(t) == {k \in VirtualKeys : keyRows[k] # Null /\ keyRows[k].team = t}

\* list_keys(): members see their own.
ListedKeys(role, u) == {k \in VirtualKeys : /\ keyRows[k] # Null
                                            /\ role = "admin" \/ keyRows[k].user = u}

-----------------------------------------------------------------------------
(* Keys *)

\* create_key() takes the team of its user if none is given; a query that
\* fails is taken for no team.
BeginCreate(m, k, u, t) ==
    /\ Change /\ managers[m] = NoTask
    /\ keyRows[k] = Null /\ \A n \in Managers : managers[n].key # k
    /\ LET Resolving(team) == [managers EXCEPT ![m] =
             [kind |-> "create", key |-> k, user |-> u, given |-> t, team |-> team]]
       IN  \/ managers' = Resolving(Given(t, TeamOf(u))) /\ UNCHANGED <<mixed, errors>>
           \/ /\ t = "absent" /\ u # Null /\ StatementError
              /\ managers' = Resolving(Null)
              /\ mixed' = mixed \cup {k}
    /\ UNCHANGED <<teams, staff, keyRows, default, readers, asked>>

\* The row, unless the team is gone.
InsertKey(m) ==
    LET task == managers[m]
    IN  /\ task.kind = "create"
        /\ IF IsTeam(task.team)
           THEN /\ keyRows' = [keyRows EXCEPT ![task.key] =
                                 [user |-> task.user, team |-> task.team]]
                /\ asked' = [asked EXCEPT !.keys[task.key] =
                               [user |-> task.user,
                                team |-> Given(task.given, TeamOf(task.user))]]
           ELSE UNCHANGED <<keyRows, asked>>
        /\ managers' = [managers EXCEPT ![m] = NoTask]
        /\ UNCHANGED <<teams, staff, default, readers, mixed, orgChanges, errors>>

\* Faulty: a column that the request leaves out is cleared.
FilledInFaulty(new, row) == [user |-> Given(new.user, Null), team |-> Given(new.team, row.team)]

FilledIn(new, row) == [user |-> Given(new.user, row.user), team |-> Given(new.team, row.team)]

\* update_key() reads the row and fills in what is absent, ...
ReadKeyRow(m, k, new) ==
    /\ Change /\ managers[m] = NoTask /\ keyRows[k] # Null
    /\ managers' = [managers EXCEPT ![m] =
         [kind |-> "update", key |-> k, new |-> new, row |-> FilledIn(new, keyRows[k])]]
    /\ mixed' = IF Updating(k) = {} THEN mixed ELSE mixed \cup {k}
    /\ UNCHANGED <<teams, staff, keyRows, default, readers, asked, errors>>

\* ... and writes.
WriteKeyRow(m) ==
    LET k == managers[m].key
        row == managers[m].row
        new == managers[m].new
    IN  /\ managers[m].kind = "update"
        /\ IF keyRows[k] # Null /\ IsTeam(row.team)
           THEN /\ keyRows' = [keyRows EXCEPT ![k] = row]
                /\ asked' = [asked EXCEPT !.keys[k] =
                     [user |-> Given(new.user, @.user), team |-> Given(new.team, @.team)]]
           ELSE UNCHANGED <<keyRows, asked>>
        /\ managers' = [managers EXCEPT ![m] = NoTask]
        /\ UNCHANGED <<teams, staff, default, readers, mixed, orgChanges, errors>>

\* delete_key()
DeleteKey(k) ==
    /\ Change /\ keyRows[k] # Null
    /\ keyRows' = [keyRows EXCEPT ![k] = Null]
    /\ asked' = [asked EXCEPT !.keys[k] = Null]
    /\ mixed' = mixed \ {k}
    /\ UNCHANGED <<teams, staff, default, managers, readers, errors>>

-----------------------------------------------------------------------------
(* The default budget *)

Setting == {m \in Managers : managers[m].kind = "default"}

Disturb == [q \in Readers |-> IF readers[q] = NoReader THEN NoReader
                              ELSE [readers[q] EXCEPT !.disturbed = TRUE]]

\* update_default_budget() writes its fields concurrently, ...
BeginDefault(m, new) ==
    /\ Change /\ managers[m] = NoTask
    /\ managers' = [managers EXCEPT ![m] =
         [kind |-> "default", key |-> Null, new |-> new, left |-> Fields]]
    /\ asked' = [asked EXCEPT !.default = new]
    /\ mixed' = IF Setting = {} THEN mixed \ {"default"} ELSE mixed \cup {"default"}
    /\ readers' = Disturb
    /\ UNCHANGED <<teams, staff, keyRows, default, errors>>

WriteField(m, f) ==
    /\ managers[m].kind = "default" /\ f \in managers[m].left
    /\ \/ /\ default' = [default EXCEPT ![f] = managers[m].new[f]]
          /\ UNCHANGED <<mixed, errors>>
       \/ /\ StatementError
          /\ mixed' = mixed \cup {"default"}
          /\ UNCHANGED default
    /\ managers' = IF managers[m].left = {f} THEN [managers EXCEPT ![m] = NoTask]
                   ELSE [managers EXCEPT ![m].left = @ \ {f}]
    /\ readers' = Disturb
    /\ UNCHANGED <<teams, staff, keyRows, asked, orgChanges>>

\* load_default_budget() reads the amount, and the rest if there is one; a
\* query that fails is taken for a row that is not there.
ReadAmount(q, ok) ==
    /\ readers[q] = NoReader /\ Statement(ok)
    /\ LET amount == IF ok THEN default["amount"] ELSE Null
       IN  readers' = [readers EXCEPT ![q] =
             [phase |-> IF amount = Null THEN "done" ELSE "policy",
              amount |-> amount, policy |-> Null,
              failed |-> IF ok THEN {} ELSE {"amount"}, disturbed |-> Setting # {}]]
    /\ UNCHANGED <<teams, staff, keyRows, default, managers, asked, mixed, orgChanges>>

ReadPolicy(q, ok) ==
    /\ readers[q].phase = "policy" /\ Statement(ok)
    /\ readers' = [readers EXCEPT ![q] =
         [readers[q] EXCEPT !.phase = "done",
                            !.policy = IF ok THEN default["policy"] ELSE Null,
                            !.failed = IF ok THEN @ ELSE @ \cup {"policy"}]]
    /\ UNCHANGED <<teams, staff, keyRows, default, managers, asked, mixed, orgChanges>>

EndRead(q) ==
    /\ readers[q].phase = "done"
    /\ readers' = [readers EXCEPT ![q] = NoReader]
    /\ UNCHANGED <<teams, staff, keyRows, default, managers, asked, mixed, orgChanges,
                   errors>>

-----------------------------------------------------------------------------

TeamNext ==
    \/ \E t \in Teams :
          \/ CreateTeam(t) \/ DeleteTeam(t)
          \/ \E sum \in Sums : UpdateTeamBudget(t, sum)
    \/ \E u \in Staff :
          \/ \E sum \in Sums \cup {Null} : UpdateSpendLimit(u, sum)
          \/ \E t \in Teams \cup {Null} : MoveUser(u, t)

KeyNext ==
    \/ \E k \in VirtualKeys, m \in Managers,
          u \in Staff \cup {Null, "absent"}, t \in Teams \cup {Null, "absent"} :
          \/ u # "absent" /\ t # Null /\ BeginCreate(m, k, u, t)
          \/ ReadKeyRow(m, k, [user |-> u, team |-> t])
    \/ \E m \in Managers : InsertKey(m) \/ WriteKeyRow(m)
    \/ \E k \in VirtualKeys : DeleteKey(k)

DefaultNext ==
    \/ \E m \in Managers :
          \/ \E new \in [Fields -> Sums \cup {Null}] : BeginDefault(m, new)
          \/ \E f \in Fields : WriteField(m, f)
    \/ \E q \in Readers :
          \/ \E ok \in BOOLEAN : ReadAmount(q, ok) \/ ReadPolicy(q, ok)
          \/ EndRead(q)

OrganisationNext == TeamNext \/ KeyNext \/ DefaultNext

OrganisationSpec == OrganisationInit /\ [][OrganisationNext]_orgVars

-----------------------------------------------------------------------------

\* What administrators have asked for is what is there: the user and the team
\* of a key are those that the requests about it have set, each request leaving
\* alone the column it does not name, and a new key without a team is its
\* owner's team's; a request reads the amount and the policy of one and the same
\* default budget, but for a query that fails, which leaves the request without
\* a default budget, or without its policy, and never with another's.  Excepted
\* are requests about the same key, or the default budget, that overlapped
\* another or failed half way.
EditsAreKept ==
    /\ \A k \in VirtualKeys \ mixed : keyRows[k] = asked.keys[k]
    /\ \A q \in Readers :
          readers[q].phase = "done" /\ ~readers[q].disturbed /\ "default" \notin mixed =>
            LET read(f) == IF f \in readers[q].failed THEN Null ELSE asked.default[f]
            IN  /\ readers[q].amount = read("amount")
                /\ readers[q].amount # Null => readers[q].policy = read("policy")
=============================================================================
