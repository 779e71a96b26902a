------------------------------- MODULE Login -------------------------------
(***************************************************************************)
(* How people get tokens of the gateway, over several replicas: the key    *)
(* that signs them and its way through the start of a replica (main.rs),   *)
(* the sessions of the CLI in proxy_settings (api/cli_auth.rs), the        *)
(* password of the bootstrap administrator (auth_login() in api/mod.rs),   *)
(* and the one-time tokens of the setup script, which live in the memory   *)
(* of a replica (create_setup_token() in api/admin.rs, auth_setup()).      *)
(*                                                                         *)
(* Every handler that calls check_auth_identity() accepts a token by the   *)
(* signing key in memory, which a replica reads once, when it starts.      *)
(***************************************************************************)
EXTENDS Integers, Sequences, FiniteSets

CONSTANTS
    Replicas,
    Sessions,     \* ids of CLI sessions
    Ttl,          \* SESSION_TTL_SECS, SETUP_TOKEN_TTL_SECS (both 5 minutes)
    Life,         \* session_token_ttl_hours
    Window, MaxAttempts,  \* of the password: 60 s, 10
    Nothing,
    MaxClock,     \* bound of the model
    MaxStarts,    \* bound of the model
    MaxSetups,    \* bound of the model
    MaxLosses   \* bound of the model: statements that fail

ASSUME LoginAssumption ==
    /\ {Ttl, Life, Window, MaxAttempts} \subseteq Nat \ {0}
    /\ {MaxClock, MaxStarts, MaxSetups, MaxLosses} \subseteq Nat
    /\ Nothing \notin Nat

VARIABLES
    stored,    \* the row session_signing_key, or Nothing
    start,     \* per replica: "down", "read", "persist", "up"
    key,       \* per replica: session_signing_key in memory
    apart,     \* history: replicas whose start overlapped another's, or in
               \* whose start a statement failed
    starts,    \* keys generated so far
    rows,      \* rows cli_session:*: [token, at], the token Nothing if pending
    polls,     \* polls between their SELECT and their DELETE
    attempts,  \* per replica: times of password logins
    setups,    \* per replica: setup tokens, [id, at]
    made,      \* setup tokens so far
    opened,    \* history: setup tokens that have given a key away
    issued,    \* tokens given out: [key, exp, apart]
    loginClock, loginFailures

startVars == <<stored, start, key, apart, starts>>
loginVars == <<startVars, rows, polls, attempts, setups, made, opened, issued,
               loginClock, loginFailures>>

\* An ID token of the provider, kept when its validation failed.
Raw == [key |-> Nothing, exp |-> 0, apart |-> FALSE]

LoginInit ==
    /\ stored = Nothing
    /\ start = [r \in Replicas |-> "down"] /\ key = [r \in Replicas |-> Nothing]
    /\ apart = {} /\ starts = 0
    /\ rows = [s \in Sessions |-> Nothing] /\ polls = {}
    /\ attempts = [r \in Replicas |-> <<>>]
    /\ setups = [r \in Replicas |-> {}] /\ made = 0 /\ opened = {}
    /\ issued = {}
    /\ loginClock = 0 /\ loginFailures = 0

Up(r) == start[r] = "up"

StatementFails == loginFailures < MaxLosses /\ loginFailures' = loginFailures + 1

-----------------------------------------------------------------------------
(* The start of a replica *)

\* main() generates a key, ...
Boot(r) ==
    /\ start[r] = "down" /\ starts < MaxStarts
    /\ starts' = starts + 1
    /\ start' = [start EXCEPT ![r] = "read"]
    /\ key' = [key EXCEPT ![r] = starts + 1]
    /\ apart' = apart \ {r}
    /\ UNCHANGED <<stored, rows, polls, attempts, setups, made, opened, issued,
                   loginClock, loginFailures>>

Storing(r) == {q \in Replicas \ {r} : start[q] = "persist"}

\* Faulty: the key that is there is left alone, and the one in memory kept.
ReadKeyFaulty(r) ==
    /\ start[r] = "read"
    /\ start' = [start EXCEPT ![r] = IF stored = Nothing THEN "persist" ELSE "up"]
    /\ apart' = IF Storing(r) = {} THEN apart ELSE apart \cup Storing(r) \cup {r}
    /\ UNCHANGED <<key, loginFailures, stored, starts, rows, polls, attempts, setups,
                   made, opened, issued, loginClock>>

\* ... takes the stored one instead, if there is one, ...
ReadKey(r) ==
    /\ start[r] = "read"
    /\ \/ /\ start' = [start EXCEPT ![r] = IF stored = Nothing THEN "persist" ELSE "up"]
          /\ key' = [key EXCEPT ![r] = IF stored = Nothing THEN @ ELSE stored]
          /\ apart' = IF Storing(r) = {} THEN apart ELSE apart \cup Storing(r) \cup {r}
          /\ UNCHANGED loginFailures
       \/ /\ StatementFails
          /\ start' = [start EXCEPT ![r] = "up"]
          /\ apart' = apart \cup {r}
          /\ UNCHANGED key
    /\ UNCHANGED <<stored, starts, rows, polls, attempts, setups, made, opened,
                   issued, loginClock>>

\* ... and otherwise stores its own, over one that has been stored meanwhile.
PersistKey(r) ==
    /\ start[r] = "persist"
    /\ start' = [start EXCEPT ![r] = "up"]
    /\ \/ stored' = key[r] /\ UNCHANGED <<apart, loginFailures>>
       \/ StatementFails /\ apart' = apart \cup {r} /\ UNCHANGED stored
    /\ UNCHANGED <<key, starts, rows, polls, attempts, setups, made, opened, issued,
                   loginClock>>

\* A replica stops, at any time; its memory is gone.
Stop(r) ==
    /\ start[r] # "down"
    /\ start' = [start EXCEPT ![r] = "down"]
    /\ key' = [key EXCEPT ![r] = Nothing]
    /\ attempts' = [attempts EXCEPT ![r] = <<>>]
    /\ setups' = [setups EXCEPT ![r] = {}]
    /\ polls' = {p \in polls : p.at # r}
    /\ UNCHANGED <<stored, apart, starts, rows, made, opened, issued, loginClock,
                   loginFailures>>

-----------------------------------------------------------------------------
(* Tokens: auth/session.rs *)

\* issue()
Issued(r) == [key |-> key[r], exp |-> loginClock + Life, apart |-> r \in apart]

\* validate()
Accepts(r, t) == t.key # Nothing /\ t.key = key[r] /\ loginClock < t.exp

\* check_auth_identity(), of every handler for administrators and the portal: a
\* token of the gateway, or else one that a provider vouches for.
Identified(r, t, vouched) == Accepts(r, t) \/ (t = Raw /\ vouched)

-----------------------------------------------------------------------------
(* The CLI *)

\* db_cleanup_expired()
CleanedUp ==
    [s \in Sessions |-> IF rows[s] # Nothing /\ loginClock - rows[s].at > Ttl
                        THEN Nothing ELSE rows[s]]

\* cli_login(): sessions that have expired are removed, or not, and the session
\* is begun, or begun again, or not.  Whether there is a provider to send the
\* browser to is only looked up then.
CliLogin(r, s) ==
    /\ Up(r)
    /\ LET Begun(others) == [others EXCEPT ![s] = [token |-> Nothing, at |-> loginClock]]
       IN  \/ rows' = Begun(CleanedUp) /\ UNCHANGED loginFailures
           \/ rows' \in {Begun(rows), CleanedUp} /\ StatementFails
    /\ UNCHANGED <<startVars, polls, attempts, setups, made, opened, issued,
                   loginClock>>

\* The WHERE of db_complete_session()
Completable(s) == rows[s] # Nothing /\ loginClock - rows[s].at < Ttl

\* cli_complete(): the browser brings the provider's token to some replica.
CliComplete(r, s, valid) ==
    /\ Up(r) /\ Completable(s)
    /\ rows' = [rows EXCEPT ![s] = [token |-> IF valid THEN Issued(r) ELSE Raw,
                                    at |-> loginClock]]
    /\ UNCHANGED <<startVars, polls, attempts, setups, made, opened, issued,
                   loginClock, loginFailures>>

\* cli_poll() reads; what is pending is left, what has expired or is complete ...
CliPoll(r, s) ==
    LET row == rows[s]
        expired == loginClock - row.at > Ttl
    IN  /\ Up(r)
        /\ row # Nothing /\ (expired \/ row.token # Nothing)
        /\ polls' = polls \cup {[at |-> r, session |-> s]}
        /\ issued' = IF expired \/ row.token = Raw THEN issued
                     ELSE issued \cup {row.token}
        /\ UNCHANGED <<startVars, rows, attempts, setups, made, opened, loginClock,
                       loginFailures>>

\* ... is then deleted, or not.
CliForget(p) ==
    /\ \/ rows' = [rows EXCEPT ![p.session] = Nothing] /\ UNCHANGED loginFailures
       \/ StatementFails /\ UNCHANGED rows
    /\ polls' = polls \ {p}
    /\ UNCHANGED <<startVars, attempts, setups, made, opened, issued, loginClock>>

-----------------------------------------------------------------------------
(* The password, and the setup tokens *)

Recent(r) == SelectSeq(attempts[r], LAMBDA t : loginClock - t < Window)

\* auth_login()
PasswordLogin(r, right) ==
    /\ Up(r)
    /\ Len(Recent(r)) < MaxAttempts
    /\ attempts' = [attempts EXCEPT ![r] = Append(Recent(r), loginClock)]
    /\ issued' = IF right THEN issued \cup {Issued(r)} ELSE issued
    /\ UNCHANGED <<startVars, rows, polls, setups, made, opened, loginClock,
                   loginFailures>>

\* create_setup_token()
CreateSetup(r) ==
    /\ Up(r) /\ made < MaxSetups
    /\ made' = made + 1
    /\ setups' = [setups EXCEPT ![r] =
         {t \in @ : loginClock - t.at < Ttl} \cup {[id |-> made', at |-> loginClock]}]
    /\ UNCHANGED <<startVars, rows, polls, attempts, opened, issued, loginClock,
                   loginFailures>>

\* auth_setup() with a token: it is gone, and the key given away if it is fresh.
OpenSetup(r, t) ==
    /\ Up(r) /\ t \in setups[r]
    /\ setups' = [setups EXCEPT ![r] = @ \ {t}]
    /\ opened' = IF loginClock - t.at < Ttl THEN opened \cup {t.id} ELSE opened
    /\ UNCHANGED <<startVars, rows, polls, attempts, made, issued, loginClock,
                   loginFailures>>

LoginTick ==
    /\ loginClock < MaxClock
    /\ loginClock' = loginClock + 1
    /\ UNCHANGED <<startVars, rows, polls, attempts, setups, made, opened, issued,
                   loginFailures>>

StartNext ==
    \E r \in Replicas : Boot(r) \/ ReadKey(r) \/ PersistKey(r) \/ Stop(r)

CliNext ==
    \/ \E r \in Replicas, s \in Sessions :
          \/ CliLogin(r, s) \/ CliPoll(r, s)
          \/ \E valid \in BOOLEAN : CliComplete(r, s, valid)
    \/ \E p \in polls : CliForget(p)

PortalNext ==
    \E r \in Replicas :
        \/ \E right \in BOOLEAN : PasswordLogin(r, right)
        \/ CreateSetup(r)
        \/ \E t \in setups[r] : OpenSetup(r, t)

LoginSteps == StartNext \/ CliNext \/ PortalNext \/ LoginTick

LoginSpec == LoginInit /\ [][LoginSteps]_loginVars

-----------------------------------------------------------------------------

\* A token that a replica has given out is accepted by every replica until it
\* expires, restarts included ("so all instances share it", main.rs:167),
\* unless the first starts of two replicas overlapped, or a start could not
\* read or store the key.
TokensHold ==
    \A t \in issued, r \in Replicas :
        ~t.apart /\ Up(r) /\ r \notin apart /\ loginClock < t.exp
            => Identified(r, t, FALSE)
=============================================================================
