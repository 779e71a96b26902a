----------------------------- MODULE MCAccounts -----------------------------
(* Model values for TLC: the tables of people, starting empty ("people") or  *)
(* with two provisioned users ("roles"), the starts of two replicas with     *)
(* restarts ("keys"), or one start of each with everything that gives tokens *)
(* out ("tokens"): one of them in a behaviour.                               *)
EXTENDS Directory, Login, TLC

CONSTANTS u1, u2, m1, m2, i1

VARIABLE mode

vars == <<mode, directoryVars, loginVars>>

\* The two users change places with their e-mail addresses.
Swapped == (u1 :> u2) @@ (u2 :> u1) @@ (m1 :> m2) @@ (m2 :> m1)

Symmetry ==
    Permutations(Replicas) \cup Permutations(Clients) \cup Permutations(Names)
        \cup {Swapped}

Provisioned ==
    (u1 :> User(m1, "member", i1, TRUE)) @@ (u2 :> User(m2, "member", i1, TRUE))

Init ==
    /\ LoginInit
    /\ \/ mode \in {"people", "keys", "tokens"} /\ DirectoryInit
       \/ mode = "roles" /\ DirectoryInitWith(Provisioned)

People ==
    \/ ScimUserNext
    \/ ScimPatchNext
    \/ AdminUserNext
    \/ AdminIdpNext
    \/ \E l \in Logins : LoginNext(l)

Roles ==
    \/ ScimGroupNext
    \/ \E c \in Clients : ClientNext(c)
    \/ \E u \in Users : AdminSetRole(u, "admin")

Next ==
    /\ UNCHANGED mode
    /\ \/ mode = "people" /\ People /\ changes' <= 2 /\ UNCHANGED loginVars
       \/ mode = "roles" /\ Roles /\ UNCHANGED loginVars
       \/ /\ mode = "keys" /\ (StartNext \/ CliNext \/ LoginTick)
          /\ UNCHANGED directoryVars
       \/ /\ mode = "tokens" /\ LoginSteps /\ starts' <= 1
          /\ UNCHANGED directoryVars

Spec == Init /\ [][Next]_vars
=============================================================================
