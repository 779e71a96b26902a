----------------------------- MODULE Directory -----------------------------
(***************************************************************************)
(* Who is a user and who is an administrator: the tables users,            *)
(* identity_providers, scim_tokens, scim_groups and scim_group_members,    *)
(* and what writes them: SCIM clients (src/src/scim/), administrators      *)
(* (api/admin.rs) and logins (resolve_oidc_role() in api/handlers.rs).     *)
(*                                                                         *)
(* A SCIM request on a group is several statements: it reads the group,    *)
(* changes its members and its name, and then evaluates the role of each   *)
(* user concerned and writes it.  Other requests come in between, and any  *)
(* statement may fail.                                                     *)
(***************************************************************************)
EXTENDS Integers, FiniteSets

CONSTANTS
    Users,       \* ids of rows of users
    Emails,
    Idps,        \* ids of rows of identity_providers
    Groups,      \* ids of rows of scim_groups
    Names,       \* display names of groups, in lower case
    Clients,     \* SCIM requests that may be under way at once
    Logins,      \* requests that look up the role of their user
    None,        \* SQL NULL, or no row
    MaxChanges,  \* bound of the model: requests that change something
    MaxFailures  \* bound of the model: statements that fail

Role == {"admin", "member"}

\* Rows of users, identity_providers and scim_groups.  admins: the names of the
\* groups that make an administrator.
UserRow == [email : Emails, role : Role, idp : Idps \cup {None}, managed : BOOLEAN,
            active : BOOLEAN]
IdpRow == [role : Role, admins : SUBSET Names, scim : BOOLEAN]
GroupRow == [name : Names, idp : Idps]

ASSUME DirectoryAssumption ==
    /\ MaxChanges \in Nat /\ MaxFailures \in Nat
    /\ None \notin UserRow \cup IdpRow \cup GroupRow

VARIABLES
    users,     \* rows, or None
    idps,      \* rows, or None
    tokens,    \* providers with an enabled row in scim_tokens
    groups,    \* rows, or None
    members,   \* rows of scim_group_members
    clients,   \* the SCIM requests
    logins,
    changes,   \* requests so far
    failures,  \* failed statements so far
    shaken,    \* history: users whose role may differ from their groups'
    leavers    \* history: users that SCIM has deactivated, and not asked back

tables == <<users, idps, tokens, groups, members>>
directoryVars == <<tables, clients, logins, changes, failures, shaken, leavers>>

NoClient == [phase |-> "none"]
NoLogin == [phase |-> "none"]

User(e, role, i, managed) ==
    [email |-> e, role |-> role, idp |-> i, managed |-> managed, active |-> TRUE]

\* Providers with SCIM, and the users `rows`.
DirectoryInitWith(rows) ==
    /\ users = rows
    /\ idps \in [Idps -> {[role |-> "member", admins |-> A, scim |-> TRUE] :
                            A \in {{n} : n \in Names}}]
    /\ tokens = Idps
    /\ groups = [g \in Groups |-> None]
    /\ members = {}
    /\ clients = [c \in Clients |-> NoClient]
    /\ logins = [l \in Logins |-> NoLogin]
    /\ changes = 0 /\ failures = 0
    /\ shaken = {} /\ leavers = {}

DirectoryInit == DirectoryInitWith([u \in Users |-> None])

-----------------------------------------------------------------------------

Rows(table) == {r \in DOMAIN table : table[r] # None}

Of(g) == {u \in Users : <<g, u>> \in members}

\* get_idp_default_role()
DefaultRole(i) == IF idps[i] = None THEN "member" ELSE idps[i].role

\* evaluate_user_role()
Evaluated(u, i) ==
    IF \E g \in Rows(groups) : /\ groups[g].idp = i /\ u \in Of(g)
                               /\ idps[i] # None /\ groups[g].name \in idps[i].admins
    THEN "admin" ELSE DefaultRole(i)

\* A request that changes something begins; those under way may have read what
\* it changes.
Busy == {c \in Clients : clients[c].phase # "none"}

Overtake(cs) == [c \in Clients |-> IF c \in Busy THEN [cs[c] EXCEPT !.overtaken = TRUE]
                                   ELSE cs[c]]

Counted == changes < MaxChanges /\ changes' = changes + 1

\* One that is a single statement, or a transaction.
AtOnce == Counted /\ clients' = Overtake(clients) /\ UNCHANGED <<logins, failures>>

Fails == failures < MaxFailures /\ failures' = failures + 1

\* ScimAuth: a token that has not been revoked stands for its provider, be the
\* provider enabled for SCIM or not.
Authorised(i) == i \in tokens

\* The check of every handler of a user: users that SCIM does not manage are in
\* everyone's scope.
InScope(u, i) ==
    users[u] # None /\ (users[u].managed => users[u].idp = i)

\* The check of every handler of a group
GroupInScope(g, i) == groups[g] # None /\ groups[g].idp = i

\* UNIQUE(email)
FreeEmail(e, u) == \A v \in Rows(users) \ {u} : users[v].email # e

-----------------------------------------------------------------------------
(* SCIM: users *)

\* create_user() of scim/users.rs.  Its checks and its INSERT come to the
\* same as the INSERT alone, which the unique index would refuse.  The default
\* role is read a statement before it; a change of the IdP that comes between,
\* after which the user has the former one, is left out.
ScimCreateUser(i, u, e) ==
    /\ AtOnce
    /\ Authorised(i) /\ users[u] = None /\ FreeEmail(e, u)
    /\ users' = [users EXCEPT ![u] =
                   User(e, DefaultRole(i), i, TRUE)]
    /\ UNCHANGED <<idps, tokens, groups, members, shaken, leavers>>

\* replace_user(): all attributes are written as the request has them, and one
\* without "active", or with one that is not a boolean, activates.
ScimReplaceUser(i, u, e, active) ==
    /\ AtOnce
    /\ Authorised(i) /\ InScope(u, i) /\ FreeEmail(e, u)
    /\ users' = [users EXCEPT ![u].email = e, ![u].active = active]
    /\ leavers' = IF active THEN leavers \ {u} ELSE leavers \cup {u}
    /\ UNCHANGED <<idps, tokens, groups, members, shaken>>

\* What the operations of a PATCH set, of "userName" and "active"; None: neither
\* is named, or it is removed, which does nothing.
Asked == [email : Emails \cup {None}, active : BOOLEAN \cup {None}]

\* patch_user() reads the row and applies the operations to what it has read.
BeginPatchUser(c, i, u, asked) ==
    /\ c \notin Busy
    /\ Authorised(i) /\ InScope(u, i)
    /\ Counted
    /\ clients' = [clients EXCEPT ![c] =
         [phase |-> "user", user |-> u, asked |-> asked, read |-> users[u],
          toSync |-> {}, touched |-> {}, overtaken |-> FALSE]]
    /\ UNCHANGED <<tables, logins, failures, shaken, leavers>>

\* Faulty: a PATCH that does not name "active" activates, as a PUT does.
PatchedFaulty(row, asked) ==
    [row EXCEPT !.email = IF asked.email = None THEN @ ELSE asked.email,
                !.active = asked.active \in {None, TRUE}]

\* apply_patch_field(), of all operations: what none of them names stays.
Patched(row, asked) ==
    [row EXCEPT !.email = IF asked.email = None THEN @ ELSE asked.email,
                !.active = IF asked.active = None THEN @ ELSE asked.active]

\* update_scim_user() writes every attribute, those that nobody asked to change
\* as they were read: what another request wrote meanwhile is lost.
WritePatchUser(c) ==
    LET u == clients[c].user
        row == Patched(clients[c].read, clients[c].asked)
        alone == ~clients[c].overtaken
    IN  /\ clients[c].phase = "user"
        /\ IF users[u] = None \/ ~FreeEmail(row.email, u) THEN UNCHANGED <<users, leavers>>
           ELSE /\ users' = [users EXCEPT ![u].email = row.email,
                                          ![u].active = row.active]
                /\ leavers' = IF ~row.active THEN leavers \cup {u}
                           ELSE IF alone /\ clients[c].asked.active = None THEN leavers
                           ELSE leavers \ {u}
        /\ clients' = [Overtake(clients) EXCEPT ![c] = NoClient]
        /\ UNCHANGED <<idps, tokens, groups, members, logins, changes, failures,
                       shaken>>

\* delete_user() of scim/users.rs
ScimDeleteUser(i, u) ==
    /\ AtOnce
    /\ Authorised(i) /\ InScope(u, i)
    /\ users' = [users EXCEPT ![u].active = FALSE]
    /\ leavers' = leavers \cup {u}
    /\ UNCHANGED <<idps, tokens, groups, members, shaken>>

-----------------------------------------------------------------------------
(* SCIM: groups.  toSync: the users whose roles the request is to evaluate;  *)
(* touched: all those whose membership it has changed, or their group's name *)

Begin(c, kind, i, g, name, toSync) ==
    /\ Counted
    /\ clients' = [Overtake(clients) EXCEPT ![c] =
         [phase |-> "change", kind |-> kind, idp |-> i, group |-> g,
          name |-> name, toSync |-> toSync, touched |-> {}, found |-> None,
          now |-> None, overtaken |-> Busy # {}]]
    /\ UNCHANGED <<logins, failures>>

\* The request ends: what it has touched but not evaluated stays as it is.
End(c, undone) ==
    /\ clients' = [clients EXCEPT ![c] = NoClient]
    /\ shaken' = shaken \cup undone

\* create_group() inserts the row ...
BeginPost(c, i, g, name) ==
    /\ c \notin Busy
    /\ Authorised(i) /\ idps[i] # None /\ groups[g] = None
    /\ Begin(c, "post", i, g, name, {})
    /\ groups' = [groups EXCEPT ![g] = [name |-> name, idp |-> i]]
    /\ UNCHANGED <<users, idps, tokens, members, shaken, leavers>>

\* replace_group() reads the members and writes the name ...
BeginPut(c, i, g, name) ==
    /\ c \notin Busy
    /\ Authorised(i) /\ GroupInScope(g, i)
    /\ Begin(c, "put", i, g, name, Of(g))
    /\ groups' = [groups EXCEPT ![g].name = name]
    /\ UNCHANGED <<users, idps, tokens, members, shaken, leavers>>

\* patch_group() reads the group, delete_group() its members.
BeginPatch(c, i, g) ==
    /\ c \notin Busy
    /\ Authorised(i) /\ GroupInScope(g, i)
    /\ Begin(c, "patch", i, g, groups[g].name, {})
    /\ UNCHANGED <<tables, shaken, leavers>>

BeginDelete(c, i, g) ==
    /\ c \notin Busy
    /\ Authorised(i) /\ GroupInScope(g, i)
    /\ Begin(c, "delete", i, g, groups[g].name, Of(g))
    /\ UNCHANGED <<tables, shaken, leavers>>

Changing(c) == clients[c].phase = "change"

\* Rows of members can only refer to rows that are there.
Referable(g, U) == groups[g] # None /\ \A u \in U : users[u] # None

WithMembers(g, U) == {m \in members : m[1] # g} \cup ({g} \X U)

Moved(g, U) == (Of(g) \ U) \cup (U \ Of(g))

\* Faulty: those that are left out of the new list are not evaluated.
SetMembersFaulty(c, U) ==
    LET g == clients[c].group
    IN  /\ Changing(c) /\ clients[c].kind \in {"post", "put", "patch"}
        /\ Referable(g, U)
        /\ members' = WithMembers(g, U)
        /\ clients' = [clients EXCEPT
             ![c].toSync = IF clients[c].kind = "patch" THEN @ \cup U ELSE U,
             ![c].touched = @ \cup Moved(g, U),
             ![c].phase = IF clients[c].kind = "patch" THEN "change" ELSE "sync"]
        /\ UNCHANGED <<users, idps, tokens, groups, logins, changes, failures,
                       shaken, leavers>>

\* ... set_scim_group_members(), a transaction: of a new group, of a PUT, or
\* an operation "replace members" or "remove members" of a PATCH, which reads
\* the members before.
SetMembers(c, U) ==
    LET g == clients[c].group
    IN  /\ Changing(c) /\ clients[c].kind \in {"post", "put", "patch"}
        /\ Referable(g, U)
        /\ members' = WithMembers(g, U)
        /\ clients' = [clients EXCEPT
             ![c].toSync = @ \cup U \cup (IF clients[c].kind = "patch" THEN Of(g)
                                          ELSE {}),
             ![c].touched = @ \cup Moved(g, U),
             ![c].phase = IF clients[c].kind = "patch" THEN "change" ELSE "sync"]
        /\ UNCHANGED <<users, idps, tokens, groups, logins, changes, failures,
                       shaken, leavers>>

\* An operation of a PATCH that adds or removes one member.
AddMember(c, u) ==
    LET g == clients[c].group
    IN  /\ Changing(c) /\ clients[c].kind = "patch" /\ Referable(g, {u})
        /\ members' = members \cup {<<g, u>>}
        /\ clients' = [clients EXCEPT ![c].toSync = @ \cup {u},
                                      ![c].touched = @ \cup Moved(g, Of(g) \cup {u})]
        /\ UNCHANGED <<users, idps, tokens, groups, logins, changes, failures,
                       shaken, leavers>>

RemoveMember(c, u) ==
    LET g == clients[c].group
    IN  /\ Changing(c) /\ clients[c].kind = "patch"
        /\ members' = members \ {<<g, u>>}
        /\ clients' = [clients EXCEPT ![c].toSync = @ \cup {u},
                                      ![c].touched = @ \cup Moved(g, Of(g) \ {u})]
        /\ UNCHANGED <<users, idps, tokens, groups, logins, changes, failures,
                       shaken, leavers>>

\* An operation that renames: only the name that is written in the end.
Rename(c, name) ==
    /\ Changing(c) /\ clients[c].kind = "patch"
    /\ clients' = [clients EXCEPT ![c].name = name]
    /\ UNCHANGED <<tables, logins, changes, failures, shaken, leavers>>

\* The end of the operations of a PATCH: update_scim_group() writes the name,
\* changed or not.  A group that is gone is a 404.
WriteGroup(c) ==
    LET g == clients[c].group
    IN  /\ Changing(c) /\ clients[c].kind = "patch"
        /\ IF groups[g] = None
           THEN End(c, clients[c].touched) /\ UNCHANGED groups
           ELSE /\ groups' = [groups EXCEPT ![g].name = clients[c].name]
                /\ clients' = [clients EXCEPT ![c].phase = "sync"]
                /\ shaken' = IF groups[g].name = clients[c].name THEN shaken
                             ELSE shaken \cup (Of(g) \ clients[c].toSync)
        /\ UNCHANGED <<users, idps, tokens, members, logins, changes, failures, leavers>>

\* delete_scim_group(), with its members
DeleteGroup(c) ==
    LET g == clients[c].group
    IN  /\ Changing(c) /\ clients[c].kind = "delete"
        /\ groups' = [groups EXCEPT ![g] = None]
        /\ members' = WithMembers(g, {})
        /\ clients' = [clients EXCEPT ![c].phase = "sync",
                                      ![c].touched = @ \cup Of(g)]
        /\ UNCHANGED <<users, idps, tokens, logins, changes, failures, shaken, leavers>>

\* A bad operation, an unknown member, a failing statement: the rest of the
\* request is not done.
Abandon(c) ==
    /\ clients[c].phase # "none"
    /\ Fails
    /\ End(c, clients[c].touched \cup clients[c].toSync)
    /\ UNCHANGED <<tables, logins, changes, leavers>>

\* sync_roles_for_users(): sync_user_role() of one user after the other, which
\* evaluates ...
EvaluateRole(c, u) ==
    /\ clients[c].phase = "sync" /\ clients[c].now = None
    /\ u \in clients[c].toSync
    /\ clients' = [clients EXCEPT ![c].now = u,
                                  ![c].found = Evaluated(u, clients[c].idp)]
    /\ UNCHANGED <<tables, logins, changes, failures, shaken, leavers>>

\* ... and writes.
WriteRole(c) ==
    LET u == clients[c].now
        row == users[u]
        alike == row # None /\ row.idp = clients[c].idp /\ ~clients[c].overtaken
    IN  /\ clients[c].phase = "sync" /\ u # None
        /\ users' = IF row = None THEN users
                    ELSE [users EXCEPT ![u].role = clients[c].found]
        /\ clients' = [clients EXCEPT ![c].toSync = @ \ {u}, ![c].now = None,
                                      ![c].found = None]
        /\ shaken' = IF alike THEN shaken \ {u} ELSE shaken \cup {u}
        /\ UNCHANGED <<idps, tokens, groups, members, logins, changes, failures, leavers>>

Respond(c) ==
    /\ clients[c].phase = "sync" /\ clients[c].toSync = {}
    /\ End(c, {})
    /\ UNCHANGED <<tables, logins, changes, failures, leavers>>

-----------------------------------------------------------------------------
(* Administrators *)

\* create_user() of admin.rs
AdminCreateUser(u, e, role) ==
    /\ AtOnce
    /\ users[u] = None /\ FreeEmail(e, u)
    /\ users' = [users EXCEPT ![u] = User(e, role, None, FALSE)]
    /\ UNCHANGED <<idps, tokens, groups, members, shaken, leavers>>

\* update_user()
AdminSetRole(u, role) ==
    /\ AtOnce
    /\ users[u] # None
    /\ users' = [users EXCEPT ![u].role = role]
    /\ shaken' = shaken \cup {u}
    /\ UNCHANGED <<idps, tokens, groups, members, leavers>>

\* delete_user() of admin.rs, unless keys refer to the row
AdminDeleteUser(u) ==
    /\ AtOnce
    /\ users[u] # None
    /\ users' = [users EXCEPT ![u] = None]
    /\ members' = {m \in members : m[2] # u}
    /\ shaken' = shaken \ {u} /\ leavers' = leavers \ {u}
    /\ UNCHANGED <<idps, tokens, groups>>

ManagedBy(i) == {u \in Rows(users) : users[u].idp = i}

\* set_scim_admin_groups(): no role is evaluated.
SetAdminGroups(i, A) ==
    /\ AtOnce
    /\ idps[i] # None
    /\ idps' = [idps EXCEPT ![i].admins = A]
    /\ shaken' = shaken \cup ManagedBy(i)
    /\ UNCHANGED <<users, tokens, groups, members, leavers>>

\* update_idp_scim()
SetScim(i, enabled) ==
    /\ AtOnce
    /\ idps[i] # None
    /\ idps' = [idps EXCEPT ![i].scim = enabled]
    /\ UNCHANGED <<users, tokens, groups, members, shaken, leavers>>

\* update_idp() changes the default role.
UpdateIdp(i, role) ==
    /\ AtOnce
    /\ idps[i] # None
    /\ idps' = [idps EXCEPT ![i].role = role]
    /\ shaken' = shaken \cup ManagedBy(i)
    /\ UNCHANGED <<users, tokens, groups, members, leavers>>

\* create_idp()
CreateIdp(i, role) ==
    /\ AtOnce
    /\ idps[i] = None
    /\ idps' = [idps EXCEPT ![i] = [role |-> role, admins |-> {}, scim |-> FALSE]]
    /\ UNCHANGED <<users, tokens, groups, members, shaken, leavers>>

\* delete_idp(): its groups and tokens go with it; its users stay, managed by
\* nobody that could still reach them.
DeleteIdp(i) ==
    /\ AtOnce
    /\ idps[i] # None
    /\ idps' = [idps EXCEPT ![i] = None]
    /\ tokens' = tokens \ {i}
    /\ groups' = [g \in Groups |-> IF groups[g] # None /\ groups[g].idp = i
                                   THEN None ELSE groups[g]]
    /\ members' = {m \in members : groups[m[1]].idp # i}
    /\ users' = [u \in Users |-> IF u \in ManagedBy(i)
                                 THEN [users[u] EXCEPT !.idp = None] ELSE users[u]]
    /\ UNCHANGED <<shaken, leavers>>

\* create_scim_token(), revoke_scim_token()
SetToken(i, on) ==
    /\ AtOnce
    /\ idps[i] # None
    /\ tokens' = IF on THEN tokens \cup {i} ELSE tokens \ {i}
    /\ UNCHANGED <<users, idps, groups, members, shaken, leavers>>

-----------------------------------------------------------------------------
(* Logins: resolve_oidc_role() *)

\* The row by e-mail; a query that fails is taken for the lack of one.
LookUp(l, e, i) ==
    LET Found(row) == [phase |-> IF row = None THEN "idps"
                                 ELSE IF row.active THEN "in" ELSE "out",
                       email |-> e, idp |-> i,
                       role |-> IF row = None THEN None ELSE row.role]
    IN  /\ logins[l].phase = "none"
        /\ \/ /\ UNCHANGED failures
              /\ IF FreeEmail(e, None) THEN logins' = [logins EXCEPT ![l] = Found(None)]
                 ELSE \E u \in Rows(users) :
                        /\ users[u].email = e
                        /\ logins' = [logins EXCEPT ![l] = Found(users[u])]
           \/ Fails /\ logins' = [logins EXCEPT ![l] = Found(None)]
        /\ UNCHANGED <<tables, clients, changes, shaken, leavers>>

\* Users of a provider with SCIM have to be provisioned, as far as the query
\* of the providers tells.
CheckScim(l) ==
    /\ logins[l].phase = "idps"
    /\ \/ /\ UNCHANGED failures
          /\ LET idp == idps[logins[l].idp]
             IN  logins' = [logins EXCEPT ![l].phase =
                   IF idp # None /\ idp.scim THEN "out" ELSE "create"]
       \/ /\ Fails
          /\ logins' = [logins EXCEPT ![l].phase = "create"]
    /\ UNCHANGED <<tables, clients, changes, shaken, leavers>>

\* A row is made; if that fails, for there is one, the login is a member's.
Provision(l) ==
    /\ logins[l].phase = "create"
    /\ \/ \E u \in Users :
            /\ users[u] = None /\ FreeEmail(logins[l].email, None)
            /\ users' = [users EXCEPT ![u] =
                           User(logins[l].email, "member", None, FALSE)]
       \/ ~FreeEmail(logins[l].email, None) /\ UNCHANGED users
    /\ logins' = [logins EXCEPT ![l].phase = "in", ![l].role = "member"]
    /\ UNCHANGED <<idps, tokens, groups, members, clients, changes, failures,
                   shaken, leavers>>

Leave(l) ==
    /\ logins[l].phase \in {"in", "out"}
    /\ logins' = [logins EXCEPT ![l] = NoLogin]
    /\ UNCHANGED <<tables, clients, changes, failures, shaken, leavers>>

-----------------------------------------------------------------------------
(* What the read-only handlers answer from one state of the tables.          *)

\* list_users() and get_user() of SCIM show the same users that its changes
\* reach; a filter narrows them (`matched`, of scim/filter.rs).
ListedUsers(i, matched) == {u \in Users : InScope(u, i)} \cap matched

\* list_groups(), get_group()
ListedGroups(i, matched) == {g \in Groups : GroupInScope(g, i)} \cap matched

-----------------------------------------------------------------------------

ScimUserNext ==
    \E i \in Idps, u \in Users :
        \/ \E e \in Emails :
              \/ ScimCreateUser(i, u, e)
              \/ \E active \in BOOLEAN : ScimReplaceUser(i, u, e, active)
        \/ ScimDeleteUser(i, u)

ScimPatchNext ==
    \E c \in Clients :
        \/ \E i \in Idps, u \in Users, asked \in Asked : BeginPatchUser(c, i, u, asked)
        \/ WritePatchUser(c)

ScimGroupNext ==
    \E i \in Idps, c \in Clients, g \in Groups :
        \/ \E name \in Names : BeginPost(c, i, g, name) \/ BeginPut(c, i, g, name)
        \/ BeginPatch(c, i, g)
        \/ BeginDelete(c, i, g)

ClientNext(c) ==
    \/ \E U \in SUBSET Users : SetMembers(c, U)
    \/ \E u \in Users : AddMember(c, u) \/ RemoveMember(c, u) \/ EvaluateRole(c, u)
    \/ \E name \in Names : Rename(c, name)
    \/ WriteGroup(c)
    \/ DeleteGroup(c)
    \/ Abandon(c)
    \/ WriteRole(c)
    \/ Respond(c)

AdminUserNext ==
    \E u \in Users :
        \/ \E role \in Role :
              \/ AdminSetRole(u, role)
              \/ \E e \in Emails : AdminCreateUser(u, e, role)
        \/ AdminDeleteUser(u)

AdminIdpNext ==
    \E i \in Idps :
        \/ \E A \in SUBSET Names : SetAdminGroups(i, A)
        \/ \E on \in BOOLEAN : SetScim(i, on) \/ SetToken(i, on)
        \/ \E role \in Role : UpdateIdp(i, role) \/ CreateIdp(i, role)
        \/ DeleteIdp(i)

LoginNext(l) ==
    \/ \E e \in Emails, i \in Idps : LookUp(l, e, i)
    \/ CheckScim(l)
    \/ Provision(l)
    \/ Leave(l)

DirectoryNext ==
    \/ ScimUserNext
    \/ ScimPatchNext
    \/ ScimGroupNext
    \/ \E c \in Clients : ClientNext(c)
    \/ AdminUserNext
    \/ AdminIdpNext
    \/ \E l \in Logins : LoginNext(l)

DirectorySpec == DirectoryInit /\ [][DirectoryNext]_directoryVars

-----------------------------------------------------------------------------

\* Users whose role a request under way is still to evaluate.
Pending(u) == \E c \in Busy : u \in clients[c].toSync \cup clients[c].touched

\* Whom SCIM has deactivated stays out until a request of SCIM asks for him back:
\* no change of another attribute (patch_user()), of role (sync_user_role()), by
\* an administrator, by the removal of the provider or by a login makes him
\* active again, except for a PATCH that has read the row before.
LeaversStayOut ==
    \A u \in Rows(users) \cap leavers : ~users[u].active

\* The role of a user of a provider is what the provider's groups make it,
\* except for the users in `shaken`: those an administrator has given a role,
\* those whose provider's rules or whose group's name have changed since (no
\* code evaluates roles then), and those of requests that were abandoned or
\* overtaken by another (sync_roles_for_users() and what calls it).
RoleAgrees ==
    \A u \in Rows(users) \ shaken :
        users[u].idp # None /\ ~Pending(u) => users[u].role = Evaluated(u, users[u].idp)
=============================================================================
