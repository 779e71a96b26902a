--------------------------- MODULE AccountsProofs ---------------------------
(***************************************************************************)
(* Proofs about Login and Directory: the key that all replicas share, for  *)
(* any number of replicas and sessions; the roles and the deactivation of  *)
(* users, for any number of them, of groups, providers and requests.       *)
(***************************************************************************)
EXTENDS Directory, Login, TLAPS

-----------------------------------------------------------------------------
(* Tokens of the gateway *)

Key == Nat \cup {Nothing}
Token == [key : Key, exp : Nat, apart : BOOLEAN]

\* A key that is stored, and that no start under way will store over.
Settled(k) ==
    /\ stored # Nothing /\ k = stored
    /\ \A r \in Replicas : start[r] # "persist"

\* A replica that is up has a settled key.  One that is to store its own is
\* alone, and finds nothing.
Shares(r) ==
    /\ start[r] # "down" => key[r] \in Nat
    /\ start[r] = "up" /\ r \notin apart => Settled(key[r])
    /\ start[r] = "persist" /\ r \notin apart => stored = Nothing /\ Storing(r) = {}

\* A token that is given out, or waits for it.
Holds(t) == ~t.apart => Settled(t.key)

StartOK ==
    /\ stored \in Key /\ starts \in Nat
    /\ start \in [Replicas -> {"down", "read", "persist", "up"}]
    /\ key \in [Replicas -> Key]
    /\ \A r \in Replicas : Shares(r)

RowsOK ==
    /\ rows \in [Sessions -> {Nothing} \cup [token : {Nothing} \cup Token, at : Nat]]
    /\ \A s \in Sessions :
         rows[s] # Nothing /\ rows[s].token \notin {Nothing, Raw} => Holds(rows[s].token)

IssuedOK == issued \subseteq Token /\ \A t \in issued : Holds(t)

\* The inductive invariant: no start is about to store over a key with which a
\* token has been signed that still has to hold.
KeyInv == StartOK /\ loginClock \in Nat /\ RowsOK /\ IssuedOK

LEMMA KeyInvInit == LoginInit => KeyInv
  BY DEF LoginInit, KeyInv, StartOK, RowsOK, IssuedOK, Shares, Key

\* What a start leaves of the tokens: settled keys remain so.
LEMMA KeysMove ==
    ASSUME KeyInv, StartOK',
           \A k \in Key : Settled(k) => Settled(k)',
           UNCHANGED <<rows, issued, loginClock>>
    PROVE  KeyInv'
  BY DEF KeyInv, RowsOK, IssuedOK, Holds, Token

LEMMA BootStep ==
    ASSUME KeyInv, NEW r \in Replicas, Boot(r)
    PROVE  KeyInv'
  <1>1. \A k \in Key : Settled(k) => Settled(k)'
    BY DEF Boot, Settled, KeyInv, StartOK
  <1>2. ASSUME NEW q \in Replicas PROVE Shares(q)'
    <2>1. Shares(q)
      BY DEF KeyInv, StartOK
    <2>2. \A p \in Replicas : start'[p] = "persist" => start[p] = "persist"
      BY DEF Boot, KeyInv, StartOK
    <2> QED BY <1>1, <2>1, <2>2 DEF Boot, Shares, KeyInv, StartOK, Storing, Key
  <1>3. StartOK'
    BY <1>2 DEF Boot, KeyInv, StartOK, Key
  <1> QED BY <1>1, <1>3, KeysMove DEF Boot

LEMMA ReadKeyStep ==
    ASSUME KeyInv, NEW r \in Replicas, ReadKey(r)
    PROVE  KeyInv'
  <1>1. start[r] = "read" /\ UNCHANGED <<stored, starts, rows, issued, loginClock>>
    BY DEF ReadKey
  <1>2. \A q \in Replicas : q # r => start'[q] = start[q] /\ key'[q] = key[q]
    BY DEF ReadKey, KeyInv, StartOK
  <1>3. start' \in [Replicas -> {"down", "read", "persist", "up"}]
        /\ key' \in [Replicas -> Key]
    BY DEF ReadKey, KeyInv, StartOK
  <1>4. \A q \in Replicas : Shares(q)
    BY DEF KeyInv, StartOK
  <1>5. start'[r] \in {"persist", "up"} /\ (start'[r] = "persist" => stored = Nothing)
    BY DEF ReadKey, KeyInv, StartOK
  <1>6. apart \subseteq apart'
    BY DEF ReadKey
  <1>7. \A k \in Key : Settled(k) => Settled(k)'
    BY <1>1, <1>2, <1>3, <1>5 DEF Settled
  <1>8. key'[r] \in Nat
    <2>1. key[r] \in Nat
      BY <1>1, <1>4 DEF Shares
    <2> QED BY <2>1 DEF ReadKey, KeyInv, StartOK, Key
  <1>9. ASSUME start'[r] = "up", r \notin apart' PROVE Settled(key[r])'
    <2>1. stored # Nothing /\ Storing(r) = {} /\ key'[r] = stored
      BY <1>9 DEF ReadKey, KeyInv, StartOK
    <2> QED BY <1>1, <1>2, <1>9, <2>1 DEF Settled, Storing
  <1>10. ASSUME start'[r] = "persist", r \notin apart'
         PROVE  stored' = Nothing /\ Storing(r)' = {}
    <2>1. Storing(r) = {}
      BY <1>10 DEF ReadKey, KeyInv, StartOK
    <2> QED BY <1>1, <1>2, <1>5, <1>10, <2>1 DEF Storing
  <1>11. Shares(r)'
    BY <1>8, <1>9, <1>10 DEF Shares
  <1>12. ASSUME NEW q \in Replicas, q # r PROVE Shares(q)'
    <2>1. start[q] = "up" /\ q \notin apart' => Settled(key[q])'
      BY <1>2, <1>4, <1>6, <1>7, <1>12 DEF Shares, KeyInv, StartOK
    <2>2. ASSUME start[q] = "persist", q \notin apart'
          PROVE  stored' = Nothing /\ Storing(q)' = {}
      <3>1. stored = Nothing /\ Storing(q) = {}
        BY <1>4, <1>6, <2>2 DEF Shares
      <3>2. q \in Storing(r)
        BY <1>12, <2>2 DEF Storing
      <3>3. start'[r] = "up"
        BY <1>1, <1>5, <2>2, <3>1, <3>2 DEF ReadKey, KeyInv, StartOK
      <3> QED BY <1>1, <1>2, <3>1, <3>3 DEF Storing
    <2> QED BY <1>2, <1>4, <1>12, <2>1, <2>2 DEF Shares
  <1>13. StartOK'
    BY <1>1, <1>3, <1>11, <1>12 DEF StartOK, KeyInv
  <1> QED BY <1>1, <1>7, <1>13, KeysMove

LEMMA PersistKeyStep ==
    ASSUME KeyInv, NEW r \in Replicas, PersistKey(r)
    PROVE  KeyInv'
  <1>1. start[r] = "persist" /\ UNCHANGED <<key, starts, rows, issued, loginClock>>
    BY DEF PersistKey
  <1>2. /\ start' \in [Replicas -> {"down", "read", "persist", "up"}]
        /\ start'[r] = "up"
        /\ \A q \in Replicas : q # r => start'[q] = start[q]
    BY DEF PersistKey, KeyInv, StartOK
  <1>3. \A q \in Replicas : Shares(q)
    BY DEF KeyInv, StartOK
  <1>4. \A k \in Key : ~Settled(k)
    BY <1>1 DEF Settled
  <1>5. apart \subseteq apart' /\ (r \notin apart' => stored' = key[r])
        /\ stored' \in {stored, key[r]}
    BY DEF PersistKey
  <1>6. key[r] \in Nat
    BY <1>1, <1>3 DEF Shares
  <1>7. Shares(r)'
    <2>1. ASSUME r \notin apart' PROVE Settled(key[r])'
      <3>1. Storing(r) = {}
        BY <1>1, <1>3, <1>5, <2>1 DEF Shares
      <3> QED BY <1>1, <1>2, <1>5, <1>6, <2>1, <3>1, LoginAssumption DEF Settled, Storing
    <2> QED BY <1>1, <1>2, <1>6, <2>1 DEF Shares
  <1>8. ASSUME NEW q \in Replicas, q # r PROVE Shares(q)'
    <2>1. q \notin apart' => start[q] \notin {"up", "persist"}
      <3>1. start[q] = "up" => q \in apart
        BY <1>3, <1>4 DEF Shares, KeyInv, StartOK
      <3>2. start[q] = "persist" => r \in Storing(q)
        BY <1>1, <1>8 DEF Storing
      <3> QED BY <1>3, <1>5, <3>1, <3>2 DEF Shares
    <2> QED BY <1>1, <1>2, <1>3, <1>8, <2>1 DEF Shares
  <1>9. StartOK'
    BY <1>1, <1>2, <1>5, <1>6, <1>7, <1>8 DEF StartOK, KeyInv, Key
  <1> QED BY <1>1, <1>4, <1>9, KeysMove

LEMMA StopStep ==
    ASSUME KeyInv, NEW r \in Replicas, Stop(r)
    PROVE  KeyInv'
  <1>1. /\ start' \in [Replicas -> {"down", "read", "persist", "up"}]
        /\ key' \in [Replicas -> Key]
        /\ start'[r] = "down"
        /\ \A q \in Replicas : q # r => start'[q] = start[q] /\ key'[q] = key[q]
    BY DEF Stop, KeyInv, StartOK, Key
  <1>2. \A k \in Key : Settled(k) => Settled(k)'
    BY <1>1 DEF Stop, Settled
  <1>3. ASSUME NEW q \in Replicas PROVE Shares(q)'
    <2>1. Shares(q)
      BY DEF KeyInv, StartOK
    <2>2. Storing(q)' \subseteq Storing(q)
      BY <1>1 DEF Storing
    <2>3. q # r => key[q] \in Key
      BY DEF KeyInv, StartOK
    <2> QED BY <1>1, <1>2, <2>1, <2>2, <2>3 DEF Shares, Stop
  <1>4. StartOK'
    BY <1>1, <1>3 DEF StartOK, KeyInv, Stop
  <1> QED BY <1>2, <1>4, KeysMove DEF Stop

\* What is left of the starts when tokens move.
LEMMA StartStays ==
    ASSUME UNCHANGED startVars
    PROVE  /\ StartOK => StartOK'
           /\ \A k \in Key : Settled(k)' <=> Settled(k)
  <1>1. /\ stored' = stored /\ start' = start /\ key' = key
        /\ apart' = apart /\ starts' = starts
    BY DEF startVars
  <1>2. \A k \in Key : Settled(k)' <=> Settled(k)
    BY <1>1 DEF Settled
  <1>3. ASSUME StartOK PROVE StartOK'
    <2>1. \A r \in Replicas : Shares(r)'
      BY <1>1, <1>2, <1>3 DEF StartOK, Shares, Storing
    <2> QED BY <1>1, <1>3, <2>1 DEF StartOK
  <1> QED BY <1>2, <1>3

LEMMA IssuedHolds ==
    ASSUME KeyInv, NEW r \in Replicas, Up(r)
    PROVE  Issued(r) \in Token /\ Holds(Issued(r))
  <1>1. Shares(r) /\ key[r] \in Nat
    BY DEF KeyInv, StartOK, Shares, Up
  <1>2. loginClock + Life \in Nat
    BY LoginAssumption DEF KeyInv
  <1>3. CASE r \in apart
    <2>1. Issued(r) = [key |-> key[r], exp |-> loginClock + Life, apart |-> TRUE]
      BY <1>3 DEF Issued
    <2> QED BY <1>1, <1>2, <2>1 DEF Token, Holds, Key
  <1>4. CASE r \notin apart
    <2>1. (r \in apart) = FALSE
      BY <1>4
    <2>2. Issued(r) = [key |-> key[r], exp |-> loginClock + Life, apart |-> FALSE]
      BY <2>1, Zenon DEF Issued
    <2> QED BY <1>1, <1>2, <1>4, <2>2 DEF Token, Holds, Key, Shares, Up
  <1> QED BY <1>3, <1>4

\* A step of the command line: a row is written, or removed, or none is.
LEMMA RowsMove ==
    ASSUME KeyInv, UNCHANGED <<startVars, issued, loginClock>>,
           rows' \in [Sessions -> {Nothing} \cup [token : {Nothing} \cup Token, at : Nat]],
           \A s \in Sessions :
             \/ rows'[s] \in {Nothing, rows[s]}
             \/ rows'[s].token \in {Nothing, Raw}
             \/ rows'[s].token \in Token /\ Holds(rows'[s].token)
    PROVE  KeyInv'
  <1>1. StartOK' /\ \A k \in Key : Settled(k)' <=> Settled(k)
    BY StartStays DEF KeyInv
  <1>2. \A t \in Token : Holds(t)' <=> Holds(t)
    BY <1>1 DEF Holds, Token
  <1>3. ASSUME NEW s \in Sessions, rows'[s] # Nothing, rows'[s].token \notin {Nothing, Raw}
        PROVE  rows'[s].token \in Token /\ Holds(rows'[s].token)
    BY <1>3 DEF KeyInv, RowsOK
  <1>4. RowsOK'
    BY <1>2, <1>3 DEF RowsOK, Holds
  <1>5. IssuedOK'
    BY <1>2 DEF KeyInv, IssuedOK
  <1> QED BY <1>1, <1>4, <1>5 DEF KeyInv

\* One token more is given out, or none.
LEMMA GivenOut ==
    ASSUME KeyInv, NEW t \in Token, Holds(t), issued' \in {issued, issued \cup {t}},
           UNCHANGED <<startVars, rows>>, loginClock' \in Nat
    PROVE  KeyInv'
  <1>1. StartOK' /\ \A k \in Key : Settled(k)' <=> Settled(k)
    BY StartStays DEF KeyInv
  <1>2. \A u \in Token : Holds(u)' <=> Holds(u)
    BY <1>1 DEF Holds, Token
  <1>3. RowsOK'
    BY <1>2 DEF KeyInv, RowsOK, Holds
  <1>4. IssuedOK'
    BY <1>2 DEF KeyInv, IssuedOK
  <1> QED BY <1>1, <1>3, <1>4 DEF KeyInv

LEMMA RawToken == Raw \in Token
  BY DEF Raw, Token, Key

LEMMA CliStep ==
    ASSUME KeyInv, NEW r \in Replicas, NEW s \in Sessions
    PROVE  /\ CliLogin(r, s) => KeyInv'
           /\ \A valid \in BOOLEAN : CliComplete(r, s, valid) => KeyInv'
           /\ CliPoll(r, s) => KeyInv'
  <1> DEFINE Rows0 == [Sessions -> {Nothing} \cup [token : {Nothing} \cup Token, at : Nat]]
  <1>1. rows \in Rows0 /\ loginClock \in Nat
    BY DEF KeyInv, RowsOK
  <1>2. CASE CliLogin(r, s)
    <2> DEFINE new == [token |-> Nothing, at |-> loginClock]
    <2>1. new \in [token : {Nothing} \cup Token, at : Nat] /\ new.token = Nothing
      BY <1>1
    <2> HIDE DEF new
    <2>2. CleanedUp \in Rows0 /\ \A q \in Sessions : CleanedUp[q] \in {Nothing, rows[q]}
      BY <1>1 DEF CleanedUp
    <2>3. \/ rows' = [CleanedUp EXCEPT ![s] = new]
          \/ rows' = [rows EXCEPT ![s] = new]
          \/ rows' = CleanedUp
      BY <1>2 DEF CliLogin, new
    <2>4. rows' \in Rows0
      BY <1>1, <2>1, <2>2, <2>3
    <2>5. \A q \in Sessions : rows'[q] \in {Nothing, rows[q]} \/ rows'[q].token = Nothing
      BY <1>1, <2>1, <2>2, <2>3
    <2> QED BY <1>2, <2>4, <2>5, RowsMove DEF CliLogin
  <1>3. ASSUME NEW valid \in BOOLEAN, CliComplete(r, s, valid) PROVE KeyInv'
    <2> DEFINE tok == IF valid THEN Issued(r) ELSE Raw
    <2> DEFINE new == [token |-> tok, at |-> loginClock]
    <2>1. Issued(r) \in Token /\ Holds(Issued(r))
      BY <1>3, IssuedHolds DEF CliComplete
    <2>2. tok \in Token /\ (tok = Raw \/ Holds(tok))
      BY <2>1, RawToken
    <2>3. rows' = [rows EXCEPT ![s] = new]
      BY <1>3 DEF CliComplete
    <2> HIDE DEF tok
    <2>4. new \in [token : {Nothing} \cup Token, at : Nat] /\ new.token = tok
      BY <1>1, <2>2
    <2> HIDE DEF new
    <2>5. rows' \in Rows0
      BY <1>1, <2>3, <2>4
    <2>6. \A q \in Sessions :
             \/ rows'[q] = rows[q]
             \/ rows'[q].token = Raw
             \/ rows'[q].token \in Token /\ Holds(rows'[q].token)
      BY <1>1, <2>2, <2>3, <2>4
    <2> QED BY <1>3, <2>5, <2>6, RowsMove DEF CliComplete
  <1>4. CASE CliPoll(r, s)
    <2>1. rows[s] # Nothing
      BY <1>4 DEF CliPoll
    <2>2. \/ issued' = issued
          \/ /\ rows[s].token \notin {Nothing, Raw}
             /\ issued' = issued \cup {rows[s].token}
      <3>1. CASE loginClock - rows[s].at > Ttl
        BY <1>4, <3>1 DEF CliPoll
      <3>2. CASE ~(loginClock - rows[s].at > Ttl)
        BY <1>4, <3>2 DEF CliPoll
      <3> QED BY <3>1, <3>2
    <2>3. rows[s].token \in {Nothing} \cup Token
      BY <1>1, <2>1
    <2>4. \E t \in Token : Holds(t) /\ issued' \in {issued, issued \cup {t}}
      <3>1. CASE rows[s].token \notin {Nothing, Raw}
        BY <2>1, <2>2, <2>3, <3>1 DEF KeyInv, RowsOK
      <3>2. CASE rows[s].token \in {Nothing, Raw}
        <4> DEFINE t == [key |-> Nothing, exp |-> 0, apart |-> TRUE]
        <4>1. t \in Token /\ Holds(t)
          BY DEF Token, Key, Holds
        <4> QED BY <2>2, <3>2, <4>1
      <3> QED BY <3>1, <3>2
    <2> QED BY <1>1, <1>4, <2>4, GivenOut DEF CliPoll
  <1> QED BY <1>2, <1>3, <1>4

LEMMA KeyInvNext == KeyInv /\ [LoginSteps]_loginVars => KeyInv'
  <1> SUFFICES ASSUME KeyInv, [LoginSteps]_loginVars PROVE KeyInv'
    OBVIOUS
  <1>1. ASSUME NEW r \in Replicas, Boot(r) \/ ReadKey(r) \/ PersistKey(r) \/ Stop(r)
        PROVE  KeyInv'
    BY <1>1, BootStep, ReadKeyStep, PersistKeyStep, StopStep
  <1>2. CASE CliNext
    <2>1. ASSUME NEW p \in polls, CliForget(p) PROVE KeyInv'
      <3>1. rows \in [Sessions -> {Nothing} \cup [token : {Nothing} \cup Token, at : Nat]]
        BY DEF KeyInv, RowsOK
      <3>2. rows' = rows \/ rows' = [rows EXCEPT ![p.session] = Nothing]
        BY <2>1 DEF CliForget
      <3>3. rows' \in [Sessions -> {Nothing} \cup [token : {Nothing} \cup Token, at : Nat]]
            /\ \A s \in Sessions : rows'[s] \in {Nothing, rows[s]}
        BY <3>1, <3>2
      <3> QED BY <2>1, <3>3, RowsMove DEF CliForget
    <2> QED BY <1>2, <2>1, CliStep DEF CliNext
  <1>3. CASE PortalNext
    <2>1. ASSUME NEW r \in Replicas, NEW right \in BOOLEAN, PasswordLogin(r, right)
          PROVE  KeyInv'
      <3>1. Issued(r) \in Token /\ Holds(Issued(r))
        BY <2>1, IssuedHolds DEF PasswordLogin
      <3>2. issued' \in {issued, issued \cup {Issued(r)}}
            /\ UNCHANGED <<startVars, rows, loginClock>>
        BY <2>1 DEF PasswordLogin
      <3>3. loginClock' \in Nat
        BY <3>2 DEF KeyInv
      <3> QED BY <3>1, <3>2, <3>3, GivenOut
    <2>2. ASSUME NEW r \in Replicas,
                 CreateSetup(r) \/ \E t \in setups[r] : OpenSetup(r, t)
          PROVE  KeyInv'
      <3>1. UNCHANGED <<startVars, rows, issued, loginClock>>
        BY <2>2 DEF CreateSetup, OpenSetup
      <3> QED BY <3>1, RowsMove DEF KeyInv, RowsOK
    <2> QED BY <1>3, <2>1, <2>2 DEF PortalNext
  <1>4. CASE LoginTick \/ UNCHANGED loginVars
    <2> DEFINE t == [key |-> Nothing, exp |-> 0, apart |-> TRUE]
    <2>1. t \in Token /\ Holds(t)
      BY DEF Token, Key, Holds
    <2>2. UNCHANGED <<startVars, rows, issued>> /\ loginClock' \in Nat
      BY <1>4 DEF LoginTick, loginVars, KeyInv
    <2> HIDE DEF t
    <2> QED BY <2>1, <2>2, GivenOut
  <1> QED BY <1>1, <1>2, <1>3, <1>4 DEF LoginSteps, StartNext

LEMMA KeyInvHolds == KeyInv => TokensHold
  <1> SUFFICES ASSUME KeyInv, NEW t \in issued, NEW r \in Replicas,
                      ~t.apart, Up(r), r \notin apart, loginClock < t.exp
               PROVE  Identified(r, t, FALSE)
    BY DEF TokensHold
  <1>1. Settled(key[r]) /\ Settled(t.key)
    BY DEF KeyInv, StartOK, Shares, Up, IssuedOK, Holds
  <1> QED BY <1>1 DEF Settled, Identified, Accepts

\* A token that a replica has given out (SessionToken::issue(), whichever
\* handler gave it) is accepted by every replica that is up, until it expires,
\* however often replicas stop and start: the key that main() takes from the
\* row session_signing_key, or stores there, is the one that has signed it.
\* Excepted are first starts that overlap and starts that cannot read or store
\* the row, as the property says.
THEOREM TokensKeep == LoginSpec => []TokensHold
  <1>1. LoginInit => KeyInv
    BY KeyInvInit
  <1>2. KeyInv /\ [LoginSteps]_loginVars => KeyInv'
    BY KeyInvNext
  <1>3. KeyInv => TokensHold
    BY KeyInvHolds
  <1> QED BY <1>1, <1>2, <1>3, PTL DEF LoginSpec

-----------------------------------------------------------------------------
(* Users, groups and roles: types *)

PatchReq == [phase : {"user"}, user : Users, asked : Asked, read : UserRow,
             toSync : {{}}, touched : {{}}, overtaken : BOOLEAN]

GroupRec == [phase : {"change", "sync"}, kind : {"post", "put", "patch", "delete"},
             idp : Idps, group : Groups, name : Names, toSync : SUBSET Users,
             touched : SUBSET Users, found : Role \cup {None},
             now : Users \cup {None}, overtaken : BOOLEAN]

GroupReq == {r \in GroupRec : r.now = None \/ r.found \in Role}

Client == {NoClient} \cup PatchReq \cup GroupReq

LoginRec == {NoLogin} \cup [phase : {"idps", "create", "in", "out"}, email : Emails,
                            idp : Idps, role : Role \cup {None}]

TablesOK ==
    /\ users \in [Users -> UserRow \cup {None}]
    /\ idps \in [Idps -> IdpRow \cup {None}]
    /\ groups \in [Groups -> GroupRow \cup {None}]
    /\ tokens \subseteq Idps
    /\ members \subseteq Groups \X Users

\* The type invariant
DirectoryOK ==
    /\ TablesOK
    /\ clients \in [Clients -> Client]
    /\ logins \in [Logins -> LoginRec]
    /\ shaken \subseteq Users /\ leavers \subseteq Users

LEMMA Phases ==
    ASSUME NEW r \in Client
    PROVE  /\ r.phase \in {"none", "user", "change", "sync"}
           /\ r.phase = "none" => r = NoClient
           /\ r.phase = "user" => r \in PatchReq
           /\ r.phase \in {"change", "sync"} => r \in GroupReq
  BY DEF Client, NoClient, PatchReq, GroupReq, GroupRec

\* One update of a record at a time
LEMMA GroupFields ==
    ASSUME NEW r \in GroupReq
    PROVE  /\ \A U \in SUBSET Users : [r EXCEPT !.toSync = U] \in GroupReq
           /\ \A U \in SUBSET Users : [r EXCEPT !.touched = U] \in GroupReq
           /\ \A p \in {"change", "sync"} : [r EXCEPT !.phase = p] \in GroupReq
           /\ \A n \in Names : [r EXCEPT !.name = n] \in GroupReq
           /\ \A u \in Users, f \in Role :
                [[r EXCEPT !.now = u] EXCEPT !.found = f] \in GroupReq
           /\ [[r EXCEPT !.now = None] EXCEPT !.found = None] \in GroupReq
           /\ [r EXCEPT !.overtaken = TRUE] \in GroupReq
  <1>1. r \in GroupRec
    BY DEF GroupReq
  <1>2. ASSUME NEW u \in Users, NEW f \in Role
        PROVE  [[r EXCEPT !.now = u] EXCEPT !.found = f] \in GroupReq
    BY <1>1 DEF GroupReq, GroupRec
  <1>3. [[r EXCEPT !.now = None] EXCEPT !.found = None] \in GroupReq
    BY <1>1 DEF GroupReq, GroupRec
  <1>4. \A U \in SUBSET Users : [r EXCEPT !.toSync = U] \in GroupReq
    BY <1>1 DEF GroupReq, GroupRec
  <1>5. \A U \in SUBSET Users : [r EXCEPT !.touched = U] \in GroupReq
    BY <1>1 DEF GroupReq, GroupRec
  <1>6. \A p \in {"change", "sync"} : [r EXCEPT !.phase = p] \in GroupReq
    BY <1>1 DEF GroupReq, GroupRec
  <1>7. \A n \in Names : [r EXCEPT !.name = n] \in GroupReq
    BY <1>1 DEF GroupReq, GroupRec
  <1>8. [r EXCEPT !.overtaken = TRUE] \in GroupReq
    BY <1>1 DEF GroupReq, GroupRec
  <1> QED BY <1>2, <1>3, <1>4, <1>5, <1>6, <1>7, <1>8

LEMMA UserFields ==
    ASSUME NEW r \in UserRow
    PROVE  /\ \A e \in Emails : [r EXCEPT !.email = e] \in UserRow
           /\ \A x \in Role : [r EXCEPT !.role = x] \in UserRow
           /\ \A b \in BOOLEAN : [r EXCEPT !.active = b] \in UserRow
           /\ [r EXCEPT !.idp = None] \in UserRow
  BY DEF UserRow

LEMMA NewUser ==
    ASSUME NEW e \in Emails, NEW x \in Role, NEW i \in Idps \cup {None}, NEW b \in BOOLEAN
    PROVE  User(e, x, i, b) \in UserRow
  BY DEF User, UserRow

\* A request that is overtaken differs in nothing else.
LEMMA Overtaken ==
    ASSUME NEW r \in Client, r.phase # "none"
    PROVE  /\ [r EXCEPT !.overtaken = TRUE] \in Client
           /\ [r EXCEPT !.overtaken = TRUE].overtaken
           /\ [r EXCEPT !.overtaken = TRUE].phase = r.phase
           /\ [r EXCEPT !.overtaken = TRUE].toSync = r.toSync
           /\ [r EXCEPT !.overtaken = TRUE].touched = r.touched
           /\ r.phase = "user" =>
                /\ [r EXCEPT !.overtaken = TRUE].user = r.user
                /\ [r EXCEPT !.overtaken = TRUE].read = r.read
           /\ r.phase \in {"change", "sync"} =>
                /\ [r EXCEPT !.overtaken = TRUE].kind = r.kind
                /\ [r EXCEPT !.overtaken = TRUE].group = r.group
                /\ [r EXCEPT !.overtaken = TRUE].idp = r.idp
                /\ [r EXCEPT !.overtaken = TRUE].now = r.now
                /\ [r EXCEPT !.overtaken = TRUE].found = r.found
  <1>1. CASE r \in PatchReq
    BY <1>1 DEF PatchReq, Client
  <1>2. CASE r \in GroupReq
    BY <1>2 DEF GroupReq, GroupRec, Client
  <1> QED BY <1>1, <1>2, Phases

LEMMA OvertakeClients ==
    ASSUME clients \in [Clients -> Client]
    PROVE  Overtake(clients) \in [Clients -> Client]
  <1>1. ASSUME NEW c \in Clients, c \in Busy
        PROVE  [clients[c] EXCEPT !.overtaken = TRUE] \in Client
    <2>1. clients[c] \in Client /\ clients[c].phase # "none"
      BY <1>1 DEF Busy
    <2> QED BY <2>1, Overtaken
  <1> QED BY <1>1 DEF Overtake

LEMMA RowUpdate ==
    ASSUME TablesOK, NEW u \in Users, NEW row \in UserRow \cup {None}
    PROVE  [users EXCEPT ![u] = row] \in [Users -> UserRow \cup {None}]
  BY DEF TablesOK

LEMMA KnownUser ==
    ASSUME TablesOK, NEW u \in Users, users[u] # None
    PROVE  users[u] \in UserRow
  BY DEF TablesOK

\* Steps that leave the requests alone, or overtake them.
LEMMA TypesAtOnce ==
    ASSUME DirectoryOK, TablesOK', clients' \in {clients, Overtake(clients)},
           logins' \in [Logins -> LoginRec],
           shaken' \subseteq Users, leavers' \subseteq Users
    PROVE  DirectoryOK'
  BY OvertakeClients DEF DirectoryOK

LEMMA TypesUserStep ==
    ASSUME DirectoryOK, ScimUserNext \/ AdminUserNext
    PROVE  DirectoryOK'
  <1>1. ASSUME NEW i \in Idps, NEW u \in Users, NEW e \in Emails, ScimCreateUser(i, u, e)
        PROVE  DirectoryOK'
    <2>1. DefaultRole(i) \in Role
      BY DEF DefaultRole, DirectoryOK, TablesOK, IdpRow, Role
    <2> DEFINE row == User(e, DefaultRole(i), i, TRUE)
    <2>2. row \in UserRow
      BY <2>1, NewUser
    <2>3. users' = [users EXCEPT ![u] = row]
      BY <1>1 DEF ScimCreateUser
    <2> HIDE DEF row
    <2>4. TablesOK'
      BY ZenonT(40), <1>1, <2>2, <2>3, RowUpdate DEF ScimCreateUser, DirectoryOK, TablesOK
    <2> QED BY <1>1, <2>4, TypesAtOnce DEF ScimCreateUser, AtOnce, DirectoryOK
  <1>2. ASSUME NEW i \in Idps, NEW u \in Users, NEW e \in Emails, NEW active \in BOOLEAN,
               ScimReplaceUser(i, u, e, active)
        PROVE  DirectoryOK'
    <2> DEFINE row == [[users[u] EXCEPT !.email = e] EXCEPT !.active = active]
    <2>1. users[u] \in UserRow
      BY <1>2, KnownUser DEF ScimReplaceUser, InScope, DirectoryOK
    <2>2. row \in UserRow
      BY <2>1, UserFields
    <2>3. users' = [users EXCEPT ![u] = row]
      BY <1>2 DEF ScimReplaceUser, DirectoryOK, TablesOK
    <2> HIDE DEF row
    <2>4. TablesOK'
      BY ZenonT(40), <1>2, <2>2, <2>3, RowUpdate DEF ScimReplaceUser, DirectoryOK, TablesOK
    <2> QED BY <1>2, <2>4, TypesAtOnce DEF ScimReplaceUser, AtOnce, DirectoryOK
  <1>3. ASSUME NEW i \in Idps, NEW u \in Users, ScimDeleteUser(i, u)
        PROVE  DirectoryOK'
    <2> DEFINE row == [users[u] EXCEPT !.active = FALSE]
    <2>1. users[u] \in UserRow
      BY <1>3, KnownUser DEF ScimDeleteUser, InScope, DirectoryOK
    <2>2. row \in UserRow
      BY <2>1, UserFields
    <2>3. users' = [users EXCEPT ![u] = row]
      BY <1>3 DEF ScimDeleteUser
    <2> HIDE DEF row
    <2>4. TablesOK'
      BY <1>3, <2>2, <2>3, RowUpdate DEF ScimDeleteUser, DirectoryOK, TablesOK
    <2> QED BY <1>3, <2>4, TypesAtOnce DEF ScimDeleteUser, AtOnce, DirectoryOK
  <1>4. ASSUME NEW u \in Users, NEW role \in Role, NEW e \in Emails,
               AdminCreateUser(u, e, role)
        PROVE  DirectoryOK'
    <2> DEFINE row == User(e, role, None, FALSE)
    <2>1. row \in UserRow
      BY NewUser
    <2>2. users' = [users EXCEPT ![u] = row]
      BY <1>4 DEF AdminCreateUser
    <2> HIDE DEF row
    <2>3. users' \in [Users -> UserRow \cup {None}]
      BY <2>1, <2>2, RowUpdate DEF DirectoryOK
    <2>4. TablesOK'
      BY <1>4, <2>3 DEF AdminCreateUser, DirectoryOK, TablesOK
    <2> QED BY <1>4, <2>4, TypesAtOnce DEF AdminCreateUser, AtOnce, DirectoryOK
  <1>5. ASSUME NEW u \in Users, NEW role \in Role, AdminSetRole(u, role)
        PROVE  DirectoryOK'
    <2> DEFINE row == [users[u] EXCEPT !.role = role]
    <2>1. users[u] \in UserRow
      BY <1>5, KnownUser DEF AdminSetRole, DirectoryOK
    <2>2. row \in UserRow
      BY <2>1, UserFields
    <2>3. users' = [users EXCEPT ![u] = row]
      BY <1>5 DEF AdminSetRole
    <2> HIDE DEF row
    <2>4. TablesOK'
      BY <1>5, <2>2, <2>3, RowUpdate DEF AdminSetRole, DirectoryOK, TablesOK
    <2> QED BY <1>5, <2>4, TypesAtOnce DEF AdminSetRole, AtOnce, DirectoryOK
  <1>6. ASSUME NEW u \in Users, AdminDeleteUser(u)
        PROVE  DirectoryOK'
    <2>1. TablesOK'
      BY <1>6 DEF AdminDeleteUser, DirectoryOK, TablesOK
    <2> QED BY <1>6, <2>1, TypesAtOnce DEF AdminDeleteUser, AtOnce, DirectoryOK
  <1> QED BY <1>1, <1>2, <1>3, <1>4, <1>5, <1>6 DEF ScimUserNext, AdminUserNext

LEMMA TypesIdpStep ==
    ASSUME DirectoryOK, AdminIdpNext
    PROVE  DirectoryOK'
  <1>1. ASSUME NEW i \in Idps, NEW A \in SUBSET Names, SetAdminGroups(i, A)
        PROVE  DirectoryOK'
    <2>1. [idps[i] EXCEPT !.admins = A] \in IdpRow
      BY <1>1 DEF SetAdminGroups, DirectoryOK, TablesOK, IdpRow
    <2>2. TablesOK'
      BY <1>1, <2>1 DEF SetAdminGroups, DirectoryOK, TablesOK
    <2> QED BY <1>1, <2>2, TypesAtOnce
            DEF SetAdminGroups, AtOnce, DirectoryOK, ManagedBy, Rows, TablesOK
  <1>2. ASSUME NEW i \in Idps, NEW on \in BOOLEAN, SetScim(i, on)
        PROVE  DirectoryOK'
    <2>1. [idps[i] EXCEPT !.scim = on] \in IdpRow
      BY <1>2 DEF SetScim, DirectoryOK, TablesOK, IdpRow
    <2>2. TablesOK'
      BY <1>2, <2>1 DEF SetScim, DirectoryOK, TablesOK
    <2> QED BY <1>2, <2>2, TypesAtOnce DEF SetScim, AtOnce, DirectoryOK
  <1>3. ASSUME NEW i \in Idps, NEW on \in BOOLEAN, SetToken(i, on)
        PROVE  DirectoryOK'
    <2>1. TablesOK'
      BY <1>3 DEF SetToken, DirectoryOK, TablesOK
    <2> QED BY <1>3, <2>1, TypesAtOnce DEF SetToken, AtOnce, DirectoryOK
  <1>4. ASSUME NEW i \in Idps, NEW role \in Role, UpdateIdp(i, role)
        PROVE  DirectoryOK'
    <2>1. [idps[i] EXCEPT !.role = role] \in IdpRow
      BY <1>4 DEF UpdateIdp, DirectoryOK, TablesOK, IdpRow
    <2>2. TablesOK'
      BY <1>4, <2>1 DEF UpdateIdp, DirectoryOK, TablesOK
    <2> QED BY <1>4, <2>2, TypesAtOnce
            DEF UpdateIdp, AtOnce, DirectoryOK, ManagedBy, Rows, TablesOK
  <1>5. ASSUME NEW i \in Idps, NEW role \in Role, CreateIdp(i, role)
        PROVE  DirectoryOK'
    <2>1. [role |-> role, admins |-> {}, scim |-> FALSE] \in IdpRow
      BY DEF IdpRow
    <2>2. TablesOK'
      BY <1>5, <2>1 DEF CreateIdp, DirectoryOK, TablesOK
    <2> QED BY <1>5, <2>2, TypesAtOnce DEF CreateIdp, AtOnce, DirectoryOK
  <1>6. ASSUME NEW i \in Idps, DeleteIdp(i)
        PROVE  DirectoryOK'
    <2>1. ASSUME NEW u \in Users
          PROVE  (IF u \in ManagedBy(i) THEN [users[u] EXCEPT !.idp = None] ELSE users[u])
                   \in UserRow \cup {None}
      BY UserFields, KnownUser DEF ManagedBy, Rows, DirectoryOK, TablesOK
    <2>2. users' \in [Users -> UserRow \cup {None}]
      BY <1>6, <2>1 DEF DeleteIdp
    <2>3. TablesOK'
      BY <1>6, <2>2 DEF DeleteIdp, DirectoryOK, TablesOK
    <2> QED BY <1>6, <2>3, TypesAtOnce DEF DeleteIdp, AtOnce, DirectoryOK
  <1> QED BY <1>1, <1>2, <1>3, <1>4, <1>5, <1>6 DEF AdminIdpNext

LEMMA TypesLoginStep ==
    ASSUME DirectoryOK, NEW l \in Logins, LoginNext(l)
    PROVE  DirectoryOK'
  <1>1. TablesOK /\ logins[l] \in LoginRec /\ logins \in [Logins -> LoginRec]
    BY DEF DirectoryOK
  <1>2. ASSUME NEW e \in Emails, NEW i \in Idps, LookUp(l, e, i)
        PROVE  DirectoryOK'
    <2> DEFINE Found(row) == [phase |-> IF row = None THEN "idps"
                                        ELSE IF row.active THEN "in" ELSE "out",
                              email |-> e, idp |-> i,
                              role |-> IF row = None THEN None ELSE row.role]
    <2>1. \A row \in UserRow \cup {None} : Found(row) \in LoginRec
      BY DEF LoginRec, UserRow
    <2>2. \E row \in UserRow \cup {None} : logins' = [logins EXCEPT ![l] = Found(row)]
      <3>1. CASE logins' = [logins EXCEPT ![l] = Found(None)]
        BY <3>1
      <3>2. CASE \E u \in Rows(users) : logins' = [logins EXCEPT ![l] = Found(users[u])]
        BY <1>1, <3>2 DEF Rows, TablesOK
      <3> QED BY <1>2, <3>1, <3>2 DEF LookUp
    <2> HIDE DEF Found
    <2>3. logins' \in [Logins -> LoginRec]
      BY <1>1, <2>1, <2>2
    <2>4. TablesOK'
      BY <1>1, <1>2 DEF LookUp, TablesOK, tables
    <2> QED BY <1>2, <2>3, <2>4, TypesAtOnce DEF LookUp, DirectoryOK
  <1>3. CASE CheckScim(l)
    <2>1. \E p \in {"out", "create"} : logins' = [logins EXCEPT ![l].phase = p]
      BY <1>3 DEF CheckScim
    <2>2. \A p \in {"out", "create"} : [logins[l] EXCEPT !.phase = p] \in LoginRec
      BY <1>1, <1>3 DEF CheckScim, LoginRec, NoLogin
    <2>3. logins' \in [Logins -> LoginRec]
      BY <1>1, <2>1, <2>2
    <2>4. TablesOK'
      BY <1>1, <1>3 DEF CheckScim, TablesOK, tables
    <2> QED BY <1>3, <2>3, <2>4, TypesAtOnce DEF CheckScim, DirectoryOK
  <1>4. CASE Provision(l)
    <2>1. logins[l].phase = "create" /\ logins[l].email \in Emails
      BY <1>1, <1>4 DEF Provision, LoginRec, NoLogin
    <2> DEFINE r == [[logins[l] EXCEPT !.phase = "in"] EXCEPT !.role = "member"]
    <2>2. r \in LoginRec
      <3>1. logins[l] \in LoginRec \ {NoLogin}
        BY <1>1, <2>1 DEF NoLogin
      <3>2. [logins[l] EXCEPT !.phase = "in"] \in LoginRec \ {NoLogin}
        BY <3>1 DEF LoginRec, NoLogin
      <3> QED BY <3>2 DEF LoginRec, Role
    <2>3. logins' = [logins EXCEPT ![l] = r]
      BY <1>1, <1>4 DEF Provision
    <2> HIDE DEF r
    <2>4. logins' \in [Logins -> LoginRec]
      BY <1>1, <2>2, <2>3
    <2>5. User(logins[l].email, "member", None, FALSE) \in UserRow
      BY <2>1, NewUser DEF Role
    <2>6. TablesOK'
      BY <1>1, <1>4, <2>5, RowUpdate DEF Provision, TablesOK
    <2> QED BY <1>4, <2>4, <2>6, TypesAtOnce DEF Provision, DirectoryOK
  <1>5. CASE Leave(l)
    <2>1. logins' \in [Logins -> LoginRec]
      BY <1>1, <1>5 DEF Leave, LoginRec
    <2>2. TablesOK'
      BY <1>1, <1>5 DEF Leave, TablesOK, tables
    <2> QED BY <1>5, <2>1, <2>2, TypesAtOnce DEF Leave, DirectoryOK
  <1> QED BY <1>2, <1>3, <1>4, <1>5 DEF LoginNext

\* Steps of one request
LEMMA TypesOfOne ==
    ASSUME DirectoryOK, TablesOK', NEW c \in Clients, NEW r \in Client,
           \/ clients' = [clients EXCEPT ![c] = r]
           \/ clients' = [Overtake(clients) EXCEPT ![c] = r],
           UNCHANGED logins, shaken' \subseteq Users, leavers' \subseteq Users
    PROVE  DirectoryOK'
  BY OvertakeClients DEF DirectoryOK

LEMMA SameTables == ASSUME TablesOK, UNCHANGED tables PROVE TablesOK'
  BY DEF TablesOK, tables

LEMMA TypesPatchStep ==
    ASSUME DirectoryOK, ScimPatchNext
    PROVE  DirectoryOK'
  <1>1. ASSUME NEW c \in Clients, NEW i \in Idps, NEW u \in Users, NEW asked \in Asked,
               BeginPatchUser(c, i, u, asked)
        PROVE  DirectoryOK'
    <2> DEFINE r == [phase |-> "user", user |-> u, asked |-> asked, read |-> users[u],
                     toSync |-> {}, touched |-> {}, overtaken |-> FALSE]
    <2>1. users[u] \in UserRow
      BY <1>1, KnownUser DEF BeginPatchUser, InScope, DirectoryOK
    <2>2. r \in Client
      BY <2>1 DEF Client, PatchReq
    <2>3. clients' = [clients EXCEPT ![c] = r]
      BY <1>1 DEF BeginPatchUser
    <2> HIDE DEF r
    <2> QED BY <1>1, <2>2, <2>3, TypesOfOne, SameTables DEF BeginPatchUser, DirectoryOK
  <1>2. ASSUME NEW c \in Clients, WritePatchUser(c)
        PROVE  DirectoryOK'
    <2> DEFINE u == clients[c].user
    <2> DEFINE row == Patched(clients[c].read, clients[c].asked)
    <2>1. clients[c] \in PatchReq
      BY <1>2, Phases DEF WritePatchUser, DirectoryOK
    <2>2. u \in Users /\ row.email \in Emails /\ row.active \in BOOLEAN
      <3>1. clients[c].read \in UserRow /\ clients[c].asked \in Asked /\ u \in Users
        BY <2>1 DEF PatchReq
      <3> QED BY <3>1 DEF Patched, Asked, UserRow
    <2>3. users' = users \/ /\ users[u] # None
                            /\ users' = [users EXCEPT ![u] =
                                 [[users[u] EXCEPT !.email = row.email]
                                      EXCEPT !.active = row.active]]
      BY <1>2, <2>2 DEF WritePatchUser, DirectoryOK, TablesOK
    <2>4. leavers' \subseteq Users
      BY <1>2, <2>2 DEF WritePatchUser, DirectoryOK
    <2>5. clients' = [Overtake(clients) EXCEPT ![c] = NoClient]
      BY <1>2 DEF WritePatchUser
    <2> HIDE DEF u, row
    <2>6. users' \in [Users -> UserRow \cup {None}]
      <3>1. CASE users' = users
        BY <3>1 DEF DirectoryOK, TablesOK
      <3>2. CASE users' # users
        <4> DEFINE new == [[users[u] EXCEPT !.email = row.email] EXCEPT !.active = row.active]
        <4>1. new \in UserRow
          BY <2>2, <2>3, <3>2, KnownUser, UserFields DEF DirectoryOK
        <4>2. users' = [users EXCEPT ![u] = new]
          BY <2>3, <3>2
        <4> HIDE DEF new
        <4> QED BY <2>2, <4>1, <4>2, RowUpdate DEF DirectoryOK
      <3> QED BY <3>1, <3>2
    <2>7. TablesOK'
      BY <1>2, <2>6 DEF WritePatchUser, DirectoryOK, TablesOK
    <2>8. NoClient \in Client
      BY DEF Client
    <2> QED BY <1>2, <2>4, <2>5, <2>7, <2>8, TypesOfOne DEF WritePatchUser, DirectoryOK
  <1> QED BY <1>1, <1>2 DEF ScimPatchNext

\* What a group's request begins as
Begun(kind, i, g, name, toSync, late) ==
    [phase |-> "change", kind |-> kind, idp |-> i, group |-> g, name |-> name,
     toSync |-> toSync, touched |-> {}, found |-> None, now |-> None,
     overtaken |-> late]

LEMMA BeginsAs ==
    ASSUME NEW c \in Clients, NEW i \in Idps, NEW g \in Groups, NEW name \in Names,
           NEW kind \in {"post", "put", "patch", "delete"}, NEW toSync \in SUBSET Users,
           Begin(c, kind, i, g, name, toSync)
    PROVE  \E late \in BOOLEAN :
             /\ late = (Busy # {})
             /\ Begun(kind, i, g, name, toSync, late) \in GroupReq
             /\ clients' = [Overtake(clients) EXCEPT ![c] =
                              Begun(kind, i, g, name, toSync, late)]
             /\ UNCHANGED logins
  <1>1. \A late \in BOOLEAN : Begun(kind, i, g, name, toSync, late) \in GroupReq
    BY DEF Begun, GroupReq, GroupRec
  <1> DEFINE late == Busy # {}
  <1>2. late \in BOOLEAN /\ clients' = [Overtake(clients) EXCEPT ![c] =
                                 Begun(kind, i, g, name, toSync, late)]
        /\ UNCHANGED logins
    BY DEF Begin, Begun
  <1> QED BY <1>1, <1>2

LEMMA MembersOf == \A g \in Groups : Of(g) \subseteq Users
  BY DEF Of

LEMMA TypesGroupStep ==
    ASSUME DirectoryOK, ScimGroupNext
    PROVE  DirectoryOK'
  <1>1. ASSUME NEW i \in Idps, NEW c \in Clients, NEW g \in Groups, NEW name \in Names,
               BeginPost(c, i, g, name) \/ BeginPut(c, i, g, name)
        PROVE  DirectoryOK'
    <2>1. \E r \in Client : clients' = [Overtake(clients) EXCEPT ![c] = r]
      BY <1>1, BeginsAs, MembersOf DEF BeginPost, BeginPut, Client
    <2>2. TablesOK'
      <3>1. CASE BeginPost(c, i, g, name)
        <4>1. [name |-> name, idp |-> i] \in GroupRow
          BY DEF GroupRow
        <4> QED BY <3>1, <4>1 DEF BeginPost, DirectoryOK, TablesOK
      <3>2. CASE BeginPut(c, i, g, name)
        <4>1. [groups[g] EXCEPT !.name = name] \in GroupRow
          BY <3>2 DEF BeginPut, GroupInScope, GroupRow, DirectoryOK, TablesOK
        <4> QED BY <3>2, <4>1 DEF BeginPut, DirectoryOK, TablesOK
      <3> QED BY <1>1, <3>1, <3>2
    <2> QED BY <1>1, <2>1, <2>2, TypesOfOne DEF BeginPost, BeginPut, Begin, DirectoryOK
  <1>2. ASSUME NEW i \in Idps, NEW c \in Clients, NEW g \in Groups,
               BeginPatch(c, i, g) \/ BeginDelete(c, i, g)
        PROVE  DirectoryOK'
    <2>1. groups[g].name \in Names
      BY <1>2 DEF BeginPatch, BeginDelete, GroupInScope, GroupRow, DirectoryOK, TablesOK
    <2>2. \E r \in Client : clients' = [Overtake(clients) EXCEPT ![c] = r]
      BY <1>2, <2>1, BeginsAs, MembersOf DEF BeginPatch, BeginDelete, Client
    <2> QED BY <1>2, <2>2, TypesOfOne, SameTables
            DEF BeginPatch, BeginDelete, Begin, DirectoryOK
  <1> QED BY <1>1, <1>2 DEF ScimGroupNext

LEMMA TypesClientStep ==
    ASSUME DirectoryOK, NEW c \in Clients, ClientNext(c)
    PROVE  DirectoryOK'
  <1> DEFINE req == clients[c]
  <1> DEFINE g == clients[c].group
  <1>1. req \in Client /\ TablesOK
    BY DEF DirectoryOK
  <1>2. GroupReq \subseteq Client /\ NoClient \in Client
    BY DEF Client
  <1>3. req.phase \in {"change", "sync"} =>
          /\ req \in GroupReq /\ g \in Groups /\ req.name \in Names
          /\ req.toSync \in SUBSET Users /\ req.touched \in SUBSET Users
          /\ req.now \in Users \cup {None} /\ req.found \in Role \cup {None}
          /\ req.idp \in Idps
    BY <1>1, Phases DEF GroupReq, GroupRec
  <1>4. ASSUME NEW U \in SUBSET Users, SetMembers(c, U)
        PROVE  DirectoryOK'
    <2> DEFINE V == req.toSync \cup U \cup (IF req.kind = "patch" THEN Of(g) ELSE {})
    <2> DEFINE W == req.touched \cup Moved(g, U)
    <2> DEFINE p == IF req.kind = "patch" THEN "change" ELSE "sync"
    <2> DEFINE r == [[[req EXCEPT !.toSync = V] EXCEPT !.touched = W] EXCEPT !.phase = p]
    <2>1. req \in GroupReq /\ V \in SUBSET Users /\ W \in SUBSET Users
          /\ p \in {"change", "sync"}
      BY <1>3, <1>4, MembersOf DEF SetMembers, Changing, Moved
    <2>2. clients' = [clients EXCEPT ![c] = r]
      BY <1>4 DEF SetMembers, DirectoryOK
    <2> HIDE DEF V, W, p
    <2>3. r \in Client
      BY <1>2, <2>1, GroupFields
    <2> HIDE DEF r
    <2>4. TablesOK'
      BY <1>1, <1>3, <1>4 DEF SetMembers, Changing, WithMembers, TablesOK
    <2> QED BY <1>4, <2>2, <2>3, <2>4, TypesOfOne DEF SetMembers, DirectoryOK
  <1>5. ASSUME NEW u \in Users, AddMember(c, u)
        PROVE  DirectoryOK'
    <2> DEFINE V == req.toSync \cup {u}
    <2> DEFINE W == req.touched \cup Moved(g, Of(g) \cup {u})
    <2> DEFINE r == [[req EXCEPT !.toSync = V] EXCEPT !.touched = W]
    <2>1. req \in GroupReq /\ V \in SUBSET Users /\ W \in SUBSET Users
      BY <1>3, <1>5, MembersOf DEF AddMember, Changing, Moved
    <2>2. clients' = [clients EXCEPT ![c] = r]
      BY <1>5 DEF AddMember, DirectoryOK
    <2> HIDE DEF V, W
    <2>3. r \in Client
      BY <1>2, <2>1, GroupFields
    <2> HIDE DEF r
    <2>4. TablesOK'
      BY <1>1, <1>3, <1>5 DEF AddMember, Changing, TablesOK
    <2> QED BY <1>5, <2>2, <2>3, <2>4, TypesOfOne DEF AddMember, DirectoryOK
  <1>6. ASSUME NEW u \in Users, RemoveMember(c, u)
        PROVE  DirectoryOK'
    <2> DEFINE V == req.toSync \cup {u}
    <2> DEFINE W == req.touched \cup Moved(g, Of(g) \ {u})
    <2> DEFINE r == [[req EXCEPT !.toSync = V] EXCEPT !.touched = W]
    <2>1. req \in GroupReq /\ V \in SUBSET Users /\ W \in SUBSET Users
      BY <1>3, <1>6, MembersOf DEF RemoveMember, Changing, Moved
    <2>2. clients' = [clients EXCEPT ![c] = r]
      BY <1>6 DEF RemoveMember, DirectoryOK
    <2> HIDE DEF V, W
    <2>3. r \in Client
      BY <1>2, <2>1, GroupFields
    <2> HIDE DEF r
    <2>4. TablesOK'
      BY <1>1, <1>6 DEF RemoveMember, TablesOK
    <2> QED BY <1>6, <2>2, <2>3, <2>4, TypesOfOne DEF RemoveMember, DirectoryOK
  <1>7. ASSUME NEW u \in Users, EvaluateRole(c, u)
        PROVE  DirectoryOK'
    <2> DEFINE f == Evaluated(u, req.idp)
    <2> DEFINE r == [[req EXCEPT !.now = u] EXCEPT !.found = f]
    <2>1. req \in GroupReq
      BY <1>3, <1>7 DEF EvaluateRole
    <2>2. f \in Role
      BY <1>1, <1>3, <1>7 DEF Evaluated, DefaultRole, Role, EvaluateRole, TablesOK, IdpRow
    <2>3. clients' = [clients EXCEPT ![c] = r]
      BY <1>7 DEF EvaluateRole, DirectoryOK
    <2> HIDE DEF f
    <2>4. r \in Client
      BY <1>2, <2>1, <2>2, GroupFields
    <2> HIDE DEF r
    <2> QED BY <1>1, <1>7, <2>3, <2>4, TypesOfOne, SameTables
            DEF EvaluateRole, DirectoryOK
  <1>8. ASSUME NEW name \in Names, Rename(c, name)
        PROVE  DirectoryOK'
    <2> DEFINE r == [req EXCEPT !.name = name]
    <2>1. r \in Client
      BY <1>2, <1>3, <1>8, GroupFields DEF Rename, Changing
    <2>2. clients' = [clients EXCEPT ![c] = r]
      BY <1>8 DEF Rename
    <2> HIDE DEF r
    <2> QED BY <1>1, <1>8, <2>1, <2>2, TypesOfOne, SameTables DEF Rename, DirectoryOK
  <1>9. CASE WriteGroup(c)
    <2>1. req \in GroupReq /\ g \in Groups /\ req.name \in Names
          /\ req.touched \in SUBSET Users
      BY <1>3, <1>9 DEF WriteGroup, Changing
    <2>2. CASE groups[g] = None
      <3>1. TablesOK' /\ clients' = [clients EXCEPT ![c] = NoClient]
            /\ shaken' \subseteq Users
        BY <1>1, <1>9, <2>1, <2>2 DEF WriteGroup, End, TablesOK, DirectoryOK
      <3> QED BY <1>2, <1>9, <3>1, TypesOfOne DEF WriteGroup, DirectoryOK
    <2>3. CASE groups[g] # None
      <3> DEFINE r == [req EXCEPT !.phase = "sync"]
      <3>1. r \in Client /\ clients' = [clients EXCEPT ![c] = r]
        BY <1>2, <1>9, <2>1, <2>3, GroupFields DEF WriteGroup
      <3>2. [groups[g] EXCEPT !.name = req.name] \in GroupRow
        BY <1>1, <2>1, <2>3 DEF TablesOK, GroupRow
      <3>3. TablesOK'
        BY <1>1, <1>9, <2>3, <3>2 DEF WriteGroup, TablesOK
      <3>4. shaken' \subseteq Users
        BY <1>9, <2>1, <2>3, MembersOf DEF WriteGroup, DirectoryOK
      <3> HIDE DEF r
      <3> QED BY <1>9, <3>1, <3>3, <3>4, TypesOfOne DEF WriteGroup, DirectoryOK
    <2> QED BY <2>2, <2>3
  <1>10. CASE DeleteGroup(c)
    <2> DEFINE W == req.touched \cup Of(g)
    <2> DEFINE r == [[req EXCEPT !.phase = "sync"] EXCEPT !.touched = W]
    <2>1. req \in GroupReq /\ W \in SUBSET Users /\ g \in Groups
      BY <1>3, <1>10, MembersOf DEF DeleteGroup, Changing
    <2>2. clients' = [clients EXCEPT ![c] = r]
      BY <1>10 DEF DeleteGroup, DirectoryOK
    <2> HIDE DEF W
    <2>3. r \in Client
      BY <1>2, <2>1, GroupFields
    <2> HIDE DEF r
    <2>4. TablesOK'
      BY <1>1, <1>10, <2>1 DEF DeleteGroup, WithMembers, TablesOK
    <2> QED BY <1>10, <2>2, <2>3, <2>4, TypesOfOne DEF DeleteGroup, DirectoryOK
  <1>11. CASE Abandon(c)
    <2>1. req.touched \in SUBSET Users /\ req.toSync \in SUBSET Users
      <3>1. CASE req.phase = "user"
        BY <1>1, <3>1, Phases DEF PatchReq
      <3> QED BY <1>1, <1>3, <1>11, <3>1, Phases DEF Abandon
    <2> QED BY <1>1, <1>2, <1>11, <2>1, TypesOfOne, SameTables
            DEF Abandon, End, DirectoryOK
  <1>12. CASE WriteRole(c)
    <2> DEFINE u == req.now
    <2> DEFINE V == req.toSync \ {u}
    <2> DEFINE r == [[[req EXCEPT !.toSync = V] EXCEPT !.now = None] EXCEPT !.found = None]
    <2>1. req \in GroupReq /\ V \in SUBSET Users /\ u \in Users
      BY <1>3, <1>12 DEF WriteRole
    <2>2. clients' = [clients EXCEPT ![c] = r]
      BY <1>12 DEF WriteRole, DirectoryOK
    <2>3. req.found \in Role
      BY <1>12, <2>1 DEF WriteRole, GroupReq
    <2> HIDE DEF V
    <2>4. r \in Client
      BY <1>2, <2>1, GroupFields
    <2>5. users' = users \/ /\ users[u] # None
                            /\ users' = [users EXCEPT ![u] =
                                           [users[u] EXCEPT !.role = req.found]]
      BY <1>12 DEF WriteRole
    <2>6. users' \in [Users -> UserRow \cup {None}]
      <3>1. CASE users' = users
        BY <1>1, <3>1 DEF TablesOK
      <3>2. CASE users' # users
        <4>1. [users[u] EXCEPT !.role = req.found] \in UserRow
          BY <1>1, <2>1, <2>3, <2>5, <3>2, KnownUser, UserFields
        <4> QED BY <1>1, <2>1, <2>5, <3>2, <4>1, RowUpdate
      <3> QED BY <3>1, <3>2
    <2>7. TablesOK'
      BY <1>1, <1>12, <2>6 DEF WriteRole, TablesOK
    <2>8. shaken' \subseteq Users
      BY <1>12, <2>1 DEF WriteRole, DirectoryOK
    <2> HIDE DEF r
    <2> QED BY <1>12, <2>2, <2>4, <2>7, <2>8, TypesOfOne DEF WriteRole, DirectoryOK
  <1>13. CASE Respond(c)
    BY <1>1, <1>2, <1>13, TypesOfOne, SameTables DEF Respond, End, DirectoryOK
  <1> QED BY <1>4, <1>5, <1>6, <1>7, <1>8, <1>9, <1>10, <1>11, <1>12, <1>13 DEF ClientNext

LEMMA TypesInit ==
    ASSUME NEW table \in [Users -> UserRow \cup {None}], DirectoryInitWith(table)
    PROVE  DirectoryOK
  <1>1. \A A \in SUBSET Names :
          [role |-> "member", admins |-> A, scim |-> TRUE] \in IdpRow
    BY DEF IdpRow, Role
  <1>2. idps \in [Idps -> IdpRow \cup {None}]
    BY <1>1 DEF DirectoryInitWith
  <1>3. clients \in [Clients -> Client] /\ logins \in [Logins -> LoginRec]
    BY DEF DirectoryInitWith, Client, LoginRec
  <1> QED BY <1>2, <1>3 DEF DirectoryInitWith, DirectoryOK, TablesOK

LEMMA TypesNext == DirectoryOK /\ [DirectoryNext]_directoryVars => DirectoryOK'
  <1> SUFFICES ASSUME DirectoryOK, [DirectoryNext]_directoryVars PROVE DirectoryOK'
    OBVIOUS
  <1>1. CASE UNCHANGED directoryVars
    BY <1>1 DEF directoryVars, DirectoryOK, TablesOK, tables
  <1> QED BY <1>1, TypesUserStep, TypesIdpStep, TypesLoginStep, TypesPatchStep,
             TypesGroupStep, TypesClientStep DEF DirectoryNext

-----------------------------------------------------------------------------
(* Leavers *)

\* What a PATCH has read is what is there, as far as nobody has overtaken it.
Current(c) ==
    clients[c].phase = "user" /\ ~clients[c].overtaken =>
        /\ users[clients[c].user] # None
        /\ users[clients[c].user].active = clients[c].read.active

\* The inductive invariant of LeaversStayOut
LeaverInv ==
    /\ leavers \subseteq Rows(users)
    /\ LeaversStayOut
    /\ \A c \in Clients : Current(c)

\* No PATCH of a user begins or goes on unnoticed.
Unheard == \A c \in Clients :
    clients'[c].phase = "user" /\ ~clients'[c].overtaken => clients'[c] = clients[c]

AllOvertaken == \A c \in Clients :
    clients'[c].phase = "user" => clients'[c].overtaken

LEMMA OvertakeUnheard ==
    ASSUME DirectoryOK, NEW c \in Clients, NEW r, r.phase # "user"
    PROVE  /\ clients' = Overtake(clients) => AllOvertaken
           /\ clients' = [Overtake(clients) EXCEPT ![c] = r] => AllOvertaken
           /\ clients' = [clients EXCEPT ![c] = r] => Unheard
  <1>1. ASSUME NEW d \in Clients, Overtake(clients)[d].phase = "user"
        PROVE  Overtake(clients)[d].overtaken
    <2>1. clients[d] \in Client
      BY DEF DirectoryOK
    <2>2. CASE clients[d].phase # "none"
      BY <2>1, <2>2, Overtaken DEF Overtake, Busy
    <2>3. CASE clients[d].phase = "none"
      BY <1>1, <2>3 DEF Overtake, Busy
    <2> QED BY <2>2, <2>3
  <1>2. Overtake(clients) \in [Clients -> Client] /\ clients \in [Clients -> Client]
    BY OvertakeClients DEF DirectoryOK
  <1>3. clients' = Overtake(clients) => AllOvertaken
    BY <1>1 DEF AllOvertaken
  <1>4. clients' = [Overtake(clients) EXCEPT ![c] = r] => AllOvertaken
    BY <1>1, <1>2 DEF AllOvertaken
  <1>5. clients' = [clients EXCEPT ![c] = r] => Unheard
    BY <1>2 DEF Unheard
  <1> QED BY <1>3, <1>4, <1>5

\* Steps that leave who is active as it is, of the rows that are there
LEMMA LeaversSame ==
    ASSUME DirectoryOK, LeaverInv, DirectoryOK', UNCHANGED leavers, Unheard,
           \A u \in Users : users[u] # None =>
             users'[u] # None /\ users'[u].active = users[u].active
    PROVE  LeaverInv'
  <1>1. \A u \in Users : u \in Rows(users) <=> users[u] # None
    BY DEF DirectoryOK, TablesOK, Rows
  <1>2. \A u \in Users : u \in Rows(users') <=> users'[u] # None
    BY DEF DirectoryOK, TablesOK, Rows
  <1>3. leavers' \subseteq Rows(users')
    BY <1>1, <1>2 DEF LeaverInv, DirectoryOK
  <1>4. ASSUME NEW u \in Rows(users') \cap leavers' PROVE ~users'[u].active
    <2>1. u \in Rows(users) \cap leavers /\ u \in Users
      BY <1>1 DEF LeaverInv, DirectoryOK
    <2> QED BY <1>1, <2>1 DEF LeaverInv, LeaversStayOut
  <1>5. ASSUME NEW c \in Clients PROVE Current(c)'
    <2> SUFFICES ASSUME clients'[c].phase = "user", ~clients'[c].overtaken
                 PROVE  /\ users'[clients'[c].user] # None
                        /\ users'[clients'[c].user].active = clients'[c].read.active
      BY DEF Current
    <2>1. clients'[c] = clients[c]
      BY DEF Unheard
    <2>2. clients[c].user \in Users
      BY <2>1, Phases DEF DirectoryOK, PatchReq
    <2> QED BY <2>1, <2>2 DEF LeaverInv, Current
  <1> QED BY <1>3, <1>4, <1>5 DEF LeaverInv, LeaversStayOut

\* Steps that change one row, and whether it is a leaver's
LEMMA LeaversOne ==
    ASSUME DirectoryOK, LeaverInv, DirectoryOK', NEW u \in Users, NEW row,
           users' = [users EXCEPT ![u] = row],
           \/ leavers' = leavers \ {u}
           \/ leavers' = leavers \cup {u} /\ row # None /\ ~row.active,
           AllOvertaken
    PROVE  LeaverInv'
  <1>1. \A v \in Users : v # u => users'[v] = users[v]
    BY DEF DirectoryOK, TablesOK
  <1>2. users'[u] = row
    BY DEF DirectoryOK, TablesOK
  <1>3. \A v \in Users : /\ v \in Rows(users) <=> users[v] # None
                         /\ v \in Rows(users') <=> users'[v] # None
    BY DEF DirectoryOK, TablesOK, Rows
  <1>4. leavers' \subseteq Rows(users')
    BY <1>1, <1>2, <1>3 DEF LeaverInv, DirectoryOK
  <1>5. ASSUME NEW v \in Rows(users') \cap leavers' PROVE ~users'[v].active
    <2>1. v \in Users
      BY DEF DirectoryOK
    <2>2. CASE v = u
      BY <1>2, <2>2
    <2>3. CASE v # u
      BY <1>1, <1>3, <2>1, <2>3 DEF LeaverInv, LeaversStayOut
    <2> QED BY <2>2, <2>3
  <1> QED BY <1>4, <1>5 DEF LeaverInv, LeaversStayOut, Current, AllOvertaken

LEMMA AtOnceOvertakes ==
    ASSUME DirectoryOK, AtOnce PROVE AllOvertaken
  <1>1. clients' = Overtake(clients)
    BY DEF AtOnce
  <1>2. CASE Clients = {}
    BY <1>2 DEF AllOvertaken
  <1>3. CASE Clients # {}
    <2>1. NoClient.phase # "user"
      BY DEF NoClient
    <2> QED BY <1>1, <1>3, <2>1, OvertakeUnheard
  <1> QED BY <1>2, <1>3

LEMMA ClientShape ==
    ASSUME DirectoryOK, NEW c \in Clients, ClientNext(c)
    PROVE  clients'[c] \in {NoClient} \cup GroupReq
  <1>1. clients' \in [Clients -> Client] /\ clients[c] \in Client
    BY TypesClientStep DEF DirectoryOK
  <1>2. clients'[c].phase # "user" => clients'[c] \in {NoClient} \cup GroupReq
    BY <1>1, Phases
  <1>3. clients[c].phase \in {"change", "sync"} => clients[c] \in GroupRec
    BY <1>1, Phases DEF GroupReq
  <1>4. ASSUME NEW u, NEW U, SetMembers(c, U) \/ AddMember(c, u) \/ RemoveMember(c, u)
        PROVE  clients'[c].phase # "user"
    <2>1. CASE SetMembers(c, U)
      BY <1>1, <1>3, <2>1 DEF SetMembers, Changing, GroupRec, DirectoryOK
    <2>2. CASE AddMember(c, u)
      BY <1>1, <1>3, <2>2 DEF AddMember, Changing, GroupRec, DirectoryOK
    <2>3. CASE RemoveMember(c, u)
      BY <1>1, <1>3, <2>3 DEF RemoveMember, Changing, GroupRec, DirectoryOK
    <2> QED BY <1>4, <2>1, <2>2, <2>3
  <1>5. ASSUME NEW u, NEW name, EvaluateRole(c, u) \/ Rename(c, name) \/ WriteRole(c)
        PROVE  clients'[c].phase # "user"
    <2>1. CASE EvaluateRole(c, u)
      BY <1>1, <1>3, <2>1 DEF EvaluateRole, GroupRec, DirectoryOK
    <2>2. CASE Rename(c, name)
      BY <1>1, <1>3, <2>2 DEF Rename, Changing, GroupRec, DirectoryOK
    <2>3. CASE WriteRole(c)
      BY <1>1, <1>3, <2>3 DEF WriteRole, GroupRec, DirectoryOK
    <2> QED BY <1>5, <2>1, <2>2, <2>3
  <1>6. ASSUME WriteGroup(c) \/ DeleteGroup(c) \/ Abandon(c) \/ Respond(c)
        PROVE  clients'[c].phase # "user"
    <2>1. CASE WriteGroup(c)
      BY <1>1, <1>3, <2>1 DEF WriteGroup, End, Changing, GroupRec, NoClient, DirectoryOK
    <2>2. CASE DeleteGroup(c)
      BY <1>1, <1>3, <2>2 DEF DeleteGroup, Changing, GroupRec, DirectoryOK
    <2>3. CASE Abandon(c) \/ Respond(c)
      BY <1>1, <2>3 DEF Abandon, Respond, End, NoClient, DirectoryOK
    <2> QED BY <1>6, <2>1, <2>2, <2>3
  <1> QED BY <1>2, <1>4, <1>5, <1>6 DEF ClientNext

LEMMA ClientKeepsUsers ==
    ASSUME NEW c \in Clients, ClientNext(c), ~WriteRole(c)
    PROVE  UNCHANGED users
  <1>1. ASSUME NEW u, NEW U, SetMembers(c, U) \/ AddMember(c, u) \/ RemoveMember(c, u)
        PROVE  UNCHANGED users
    BY <1>1 DEF SetMembers, AddMember, RemoveMember
  <1>2. ASSUME NEW u, NEW name, EvaluateRole(c, u) \/ Rename(c, name)
        PROVE  UNCHANGED users
    BY <1>2 DEF EvaluateRole, Rename, tables
  <1>3. ASSUME WriteGroup(c) \/ DeleteGroup(c) \/ Abandon(c) \/ Respond(c)
        PROVE  UNCHANGED users
    BY <1>3 DEF WriteGroup, DeleteGroup, Abandon, Respond, tables
  <1> QED BY <1>1, <1>2, <1>3 DEF ClientNext

LEMMA LeaversNext ==
    LeaverInv /\ DirectoryOK /\ DirectoryOK' /\ [DirectoryNext]_directoryVars => LeaverInv'
  <1> SUFFICES ASSUME LeaverInv, DirectoryOK, DirectoryOK',
                      [DirectoryNext]_directoryVars
               PROVE  LeaverInv'
    OBVIOUS
  <1>0. /\ users \in [Users -> UserRow \cup {None}]
        /\ AllOvertaken => Unheard
    BY DEF DirectoryOK, TablesOK, AllOvertaken, Unheard
  <1>1. CASE ScimUserNext
    <2>1. ASSUME NEW i \in Idps, NEW u \in Users, NEW e \in Emails,
                 ScimCreateUser(i, u, e)
          PROVE  LeaverInv'
      <3>1. users[u] = None /\ UNCHANGED leavers /\ AllOvertaken
            /\ \A v \in Users : v # u => users'[v] = users[v]
        BY <1>0, <2>1, AtOnceOvertakes DEF ScimCreateUser
      <3> QED BY <1>0, <3>1, LeaversSame
    <2>2. ASSUME NEW i \in Idps, NEW u \in Users, NEW e \in Emails,
                 NEW active \in BOOLEAN, ScimReplaceUser(i, u, e, active)
          PROVE  LeaverInv'
      <3> DEFINE row == [[users[u] EXCEPT !.email = e] EXCEPT !.active = active]
      <3>1. users[u] \in UserRow
        BY <1>0, <2>2 DEF ScimReplaceUser, InScope
      <3>2. row \in UserRow
        BY <3>1, UserFields
      <3>3. row # None /\ row.active = active
        BY <3>1, <3>2, DirectoryAssumption DEF UserRow
      <3>4. users' = [users EXCEPT ![u] = row] /\ AllOvertaken
        BY <1>0, <2>2, AtOnceOvertakes DEF ScimReplaceUser
      <3> HIDE DEF row
      <3>5. leavers' = IF active THEN leavers \ {u} ELSE leavers \cup {u}
        BY <2>2 DEF ScimReplaceUser
      <3> QED BY <3>3, <3>4, <3>5, LeaversOne
    <2>3. ASSUME NEW i \in Idps, NEW u \in Users, ScimDeleteUser(i, u)
          PROVE  LeaverInv'
      <3> DEFINE row == [users[u] EXCEPT !.active = FALSE]
      <3>1. users[u] \in UserRow
        BY <1>0, <2>3 DEF ScimDeleteUser, InScope
      <3>2. row \in UserRow
        BY <3>1, UserFields
      <3>3. row # None /\ ~row.active
        BY <3>1, <3>2, DirectoryAssumption DEF UserRow
      <3>4. users' = [users EXCEPT ![u] = row] /\ AllOvertaken
            /\ leavers' = leavers \cup {u}
        BY <2>3, AtOnceOvertakes DEF ScimDeleteUser
      <3> HIDE DEF row
      <3> QED BY <3>3, <3>4, LeaversOne
    <2> QED BY <1>1, <2>1, <2>2, <2>3 DEF ScimUserNext
  <1>2. CASE ScimPatchNext
    <2>1. ASSUME NEW c \in Clients, NEW i \in Idps, NEW u \in Users, NEW asked \in Asked,
                 BeginPatchUser(c, i, u, asked)
          PROVE  LeaverInv'
      <3>1. UNCHANGED <<users, leavers>> /\ users[u] # None
            /\ clients'[c].user = u /\ clients'[c].read = users[u]
            /\ \A d \in Clients : d # c => clients'[d] = clients[d]
        BY <2>1 DEF BeginPatchUser, InScope, tables, DirectoryOK
      <3>2. \A d \in Clients : Current(d)'
        BY <3>1 DEF LeaverInv, Current
      <3> QED BY <3>1, <3>2 DEF LeaverInv, LeaversStayOut, Rows
    <2>2. ASSUME NEW c \in Clients, WritePatchUser(c)
          PROVE  LeaverInv'
      <3> DEFINE u == clients[c].user
      <3> DEFINE row == Patched(clients[c].read, clients[c].asked)
      <3>1. clients[c] \in PatchReq
        BY <2>2, Phases DEF WritePatchUser, DirectoryOK
      <3>2. u \in Users /\ row.email \in Emails /\ row.active \in BOOLEAN
            /\ (clients[c].asked.active = None => row.active = clients[c].read.active)
        <4>1. clients[c].read \in UserRow /\ clients[c].asked \in Asked /\ u \in Users
          BY <3>1 DEF PatchReq
        <4> QED BY <4>1 DEF Patched, Asked, UserRow
      <3>3. AllOvertaken
        <4>1. NoClient.phase # "user"
          BY DEF NoClient
        <4> QED BY <2>2, <4>1, OvertakeUnheard DEF WritePatchUser
      <3>4. CASE UNCHANGED <<users, leavers>>
        BY <1>0, <3>3, <3>4, LeaversSame
      <3>5. CASE ~UNCHANGED <<users, leavers>>
        <4> DEFINE new == [[users[u] EXCEPT !.email = row.email] EXCEPT !.active = row.active]
        <4>1. users[u] # None
              /\ users' = [[users EXCEPT ![u].email = row.email] EXCEPT ![u].active = row.active]
              /\ leavers' = (IF ~row.active THEN leavers \cup {u}
                             ELSE IF ~clients[c].overtaken /\ clients[c].asked.active = None
                                  THEN leavers
                             ELSE leavers \ {u})
          BY <2>2, <3>5 DEF WritePatchUser
        <4>2. users' = [users EXCEPT ![u] = new] /\ users[u] \in UserRow
          BY <1>0, <3>2, <4>1
        <4>3. new \in UserRow
          BY <3>2, <4>2, UserFields
        <4>4. new # None /\ new.active = row.active
          BY <3>2, <4>2, <4>3, DirectoryAssumption DEF UserRow
        <4> HIDE DEF new
        <4>5. CASE ~row.active
          BY <3>2, <3>3, <4>1, <4>2, <4>4, <4>5, LeaversOne
        <4>6. CASE row.active /\ ~clients[c].overtaken /\ clients[c].asked.active = None
          <5>1. clients[c].phase = "user"
            BY <2>2 DEF WritePatchUser
          <5>2. users[u].active = row.active
            BY <3>2, <4>6, <5>1 DEF LeaverInv, Current
          <5>3. \A v \in Users : users'[v] = IF v = u THEN new ELSE users[v]
            BY <1>0, <4>2
          <5>4. UNCHANGED leavers
            BY <4>1, <4>6
          <5> HIDE DEF u, row
          <5> QED BY <1>0, <3>3, <4>4, <5>2, <5>3, <5>4, LeaversSame
        <4>7. CASE row.active /\ ~(~clients[c].overtaken /\ clients[c].asked.active = None)
          <5>1. leavers' = leavers \ {u}
            BY <4>1, <4>7
          <5> QED BY <3>2, <3>3, <4>2, <5>1, LeaversOne
        <4> QED BY <4>5, <4>6, <4>7
      <3> QED BY <3>4, <3>5
    <2> QED BY <1>2, <2>1, <2>2 DEF ScimPatchNext
  <1>3. CASE ScimGroupNext
    <2>1. ASSUME NEW i \in Idps, NEW c \in Clients, NEW g \in Groups, NEW name,
                 NEW kind, NEW U, Begin(c, kind, i, g, name, U), UNCHANGED <<users, leavers>>
          PROVE  LeaverInv'
      <3> DEFINE r == Begun(kind, i, g, name, U, Busy # {})
      <3>1. clients' = [Overtake(clients) EXCEPT ![c] = r] /\ r.phase = "change"
        BY <2>1 DEF Begin, Begun
      <3> HIDE DEF r
      <3> QED BY <1>0, <2>1, <3>1, OvertakeUnheard, LeaversSame
    <2> QED BY <1>3, <2>1
            DEF ScimGroupNext, BeginPost, BeginPut, BeginPatch, BeginDelete, tables
  <1>4. ASSUME NEW c \in Clients, ClientNext(c)
        PROVE  LeaverInv'
    <2>1. clients' \in [Clients -> Client] /\ UNCHANGED leavers
          /\ \A d \in Clients : d # c => clients'[d] = clients[d]
      BY <1>4 DEF ClientNext, SetMembers, AddMember, RemoveMember, EvaluateRole, Rename,
                  WriteGroup, DeleteGroup, Abandon, WriteRole, Respond, End, DirectoryOK
    <2>2. clients'[c].phase # "user"
      BY <1>4, ClientShape DEF GroupReq, GroupRec, NoClient
    <2>3. ASSUME NEW u \in Users, users[u] # None
          PROVE  users'[u] # None /\ users'[u].active = users[u].active
      <3>1. CASE WriteRole(c)
        <4> DEFINE v == clients[c].now
        <4> DEFINE row == [users[v] EXCEPT !.role = clients[c].found]
        <4>0. clients[c] \in GroupReq
          BY <3>1, Phases DEF WriteRole, DirectoryOK
        <4>1. \/ users' = users
              \/ /\ v \in Users /\ users[v] # None
                 /\ users' = [users EXCEPT ![v] = row]
          BY <3>1, <4>0 DEF WriteRole, GroupReq, GroupRec
        <4>2. users[u] \in UserRow /\ users'[u] \in UserRow \cup {None}
          BY <1>0, <2>3 DEF DirectoryOK, TablesOK
        <4>3. CASE users' = users
          BY <2>3, <4>3
        <4>4. CASE users' # users
          <5>2. clients[c].found \in Role
            BY <3>1, <4>0 DEF WriteRole, GroupReq
          <5>3. row \in UserRow /\ (v = u => row.active = users[u].active)
            BY <1>0, <4>1, <4>2, <4>4, <5>2, UserFields DEF UserRow
          <5> HIDE DEF row, v
          <5> QED BY <1>0, <2>3, <4>1, <4>4, <5>3, DirectoryAssumption
        <4> QED BY <4>3, <4>4
      <3>2. CASE ~WriteRole(c)
        <4>1. UNCHANGED users
          BY <1>4, <3>2, ClientKeepsUsers
        <4> QED BY <2>3, <4>1
      <3> QED BY <3>1, <3>2
    <2>4. Unheard
      BY <2>1, <2>2 DEF Unheard
    <2> QED BY <2>1, <2>3, <2>4, LeaversSame
  <1>5. CASE AdminUserNext
    <2>1. ASSUME NEW u \in Users, NEW e, NEW role, AdminCreateUser(u, e, role)
          PROVE  LeaverInv'
      <3>1. users[u] = None /\ UNCHANGED leavers /\ AllOvertaken
            /\ \A v \in Users : v # u => users'[v] = users[v]
        BY <1>0, <2>1, AtOnceOvertakes DEF AdminCreateUser
      <3> QED BY <1>0, <3>1, LeaversSame
    <2>2. ASSUME NEW u \in Users, NEW role \in Role, AdminSetRole(u, role)
          PROVE  LeaverInv'
      <3> DEFINE row == [users[u] EXCEPT !.role = role]
      <3>1. users[u] \in UserRow
        BY <1>0, <2>2 DEF AdminSetRole
      <3>2. row \in UserRow /\ row.active = users[u].active
        BY <3>1, UserFields DEF UserRow
      <3>3. users' = [users EXCEPT ![u] = row] /\ UNCHANGED leavers /\ AllOvertaken
        BY <2>2, AtOnceOvertakes DEF AdminSetRole
      <3> HIDE DEF row
      <3>4. \A v \in Users : users'[v] = IF v = u THEN row ELSE users[v]
        BY <1>0, <3>3
      <3> QED BY <1>0, <3>2, <3>3, <3>4, DirectoryAssumption, LeaversSame
    <2>3. ASSUME NEW u \in Users, AdminDeleteUser(u)
          PROVE  LeaverInv'
      BY <2>3, AtOnceOvertakes, LeaversOne DEF AdminDeleteUser
    <2> QED BY <1>5, <2>1, <2>2, <2>3 DEF AdminUserNext
  <1>6. CASE AdminIdpNext
    <2>1. UNCHANGED leavers /\ AllOvertaken
      BY <1>6, AtOnceOvertakes DEF AdminIdpNext, SetAdminGroups, SetScim, SetToken,
           UpdateIdp, CreateIdp, DeleteIdp
    <2>2. ASSUME NEW u \in Users, users[u] # None
          PROVE  users'[u] # None /\ users'[u].active = users[u].active
      <3>1. CASE \E i \in Idps : DeleteIdp(i)
        <4>1. users[u] \in UserRow
          BY <1>0, <2>2
        <4>2. [users[u] EXCEPT !.idp = None] \in UserRow
              /\ [users[u] EXCEPT !.idp = None].active = users[u].active
          BY <4>1, UserFields DEF UserRow
        <4>3. users'[u] \in {users[u], [users[u] EXCEPT !.idp = None]}
          BY <3>1 DEF DeleteIdp
        <4> QED BY <4>1, <4>2, <4>3, DirectoryAssumption
      <3>2. CASE ~\E i \in Idps : DeleteIdp(i)
        BY <1>6, <2>2, <3>2 DEF AdminIdpNext, SetAdminGroups, SetScim, SetToken,
             UpdateIdp, CreateIdp
      <3> QED BY <3>1, <3>2
    <2> QED BY <1>0, <2>1, <2>2, LeaversSame
  <1>7. ASSUME NEW l \in Logins, LoginNext(l) PROVE LeaverInv'
    <2>1. UNCHANGED <<clients, leavers>>
          /\ \A u \in Users : users[u] # None => users'[u] = users[u]
      BY <1>0, <1>7 DEF LoginNext, LookUp, CheckScim, Provision, Leave, tables
    <2>2. Unheard
      BY <2>1 DEF Unheard
    <2> QED BY <2>1, <2>2, LeaversSame
  <1>8. CASE UNCHANGED directoryVars
    BY <1>8 DEF directoryVars, tables, LeaverInv, LeaversStayOut, Rows, Current
  <1> QED BY <1>1, <1>2, <1>3, <1>4, <1>5, <1>6, <1>7, <1>8 DEF DirectoryNext

\* Whom SCIM has deactivated (replace_user(), patch_user(), delete_user() of
\* scim/users.rs) stays deactivated until a request of SCIM asks for him back,
\* whatever administrators, logins and requests on groups do, and however a
\* PATCH is interleaved with them: it may undo only what nobody has overtaken.
THEOREM LeaversAreOut ==
    ASSUME NEW table \in [Users -> UserRow \cup {None}]
    PROVE  DirectoryInitWith(table) /\ [][DirectoryNext]_directoryVars => []LeaversStayOut
  <1>1. DirectoryInitWith(table) => DirectoryOK /\ LeaverInv
    <2>1. DirectoryInitWith(table) => LeaverInv
      BY DEF DirectoryInitWith, LeaverInv, Current, LeaversStayOut, NoClient
    <2> QED BY <2>1, TypesInit
  <1>2. (DirectoryOK /\ LeaverInv) /\ [DirectoryNext]_directoryVars
          => (DirectoryOK /\ LeaverInv)'
    BY TypesNext, LeaversNext
  <1>3. DirectoryOK /\ LeaverInv => LeaversStayOut
    BY DEF LeaverInv
  <1> QED BY <1>1, <1>2, <1>3, PTL

-----------------------------------------------------------------------------
(* Roles *)

InGroup(r) == r.phase \in {"change", "sync"}

\* The users whose roles request r may have made wrong, and will write: once
\* it evaluates those that are left, before those it has touched.  A PUT has
\* changed the name of the group when it begins.
Owes(r) ==
    {u \in Users : \/ r.phase = "sync" /\ u \in r.toSync
                   \/ /\ r.phase = "change"
                      /\ u \in r.touched \/ (r.kind = "put" /\ u \in r.toSync)}

\* What a request knows before it evaluates: a PATCH those it has touched, the
\* others have touched nobody yet.
Orderly(r) ==
    r.phase = "change" =>
        /\ r.now = None
        /\ IF r.kind = "patch" THEN r.touched \subseteq r.toSync ELSE r.touched = {}

\* Foreign keys
Linked ==
    /\ \A m \in members : groups[m[1]] # None /\ users[m[2]] # None
    /\ \A u \in Rows(users) : users[u].idp # None => idps[users[u].idp] # None
    /\ \A i \in tokens : idps[i] # None

\* Two requests on groups that meet know it.
Apart ==
    \A c, d \in Clients :
        c # d /\ InGroup(clients[c]) /\ InGroup(clients[d]) => clients[c].overtaken

\* Somebody answers for a user, or nobody needs to.
Answered(u) == u \in shaken \/ \E d \in Clients : u \in Owes(clients[d])

\* Members that a request does not know of have been added by another one.
Noticed(c) ==
    clients[c].phase = "change" /\ clients[c].kind # "patch" =>
        \A u \in Of(clients[c].group) \ clients[c].toSync :
            u \in shaken \/ \E d \in Clients \ {c} : u \in Owes(clients[d])

\* A role that has been evaluated is the right one until the request is overtaken.
Fresh(c) ==
    /\ clients[c].phase = "sync" /\ clients[c].now # None /\ ~clients[c].overtaken
    => clients[c].found = Evaluated(clients[c].now, clients[c].idp)

RoleOf(u) ==
    u \in Rows(users) /\ users[u].idp # None =>
        Answered(u) \/ users[u].role = Evaluated(u, users[u].idp)

\* The inductive invariant of RoleAgrees
RoleInv ==
    /\ Linked
    /\ Apart
    /\ \A c \in Clients : Orderly(clients[c]) /\ Noticed(c) /\ Fresh(c)
    /\ \A u \in Users : RoleOf(u)

\* Group g counts for the role of a user u of provider i.
Counts(g, u, i) == groups[g] # None /\ groups[g].idp = i /\ u \in Of(g)

\* What the role depends on
LEMMA EvaluatedSame ==
    ASSUME DirectoryOK, DirectoryOK', NEW u \in Users, NEW i \in Idps,
           idps[i] = None <=> idps'[i] = None,
           idps[i] # None => idps'[i].role = idps[i].role /\ idps'[i].admins = idps[i].admins,
           \A g \in Groups : /\ Counts(g, u, i) <=> Counts(g, u, i)'
                             /\ Counts(g, u, i) => groups'[g].name = groups[g].name
    PROVE  Evaluated(u, i)' = Evaluated(u, i)
  <1> DEFINE Made == \E g \in Groups : /\ Counts(g, u, i) /\ idps[i] # None
                                       /\ groups[g].name \in idps[i].admins
  <1>1. Evaluated(u, i) = IF Made THEN "admin" ELSE DefaultRole(i)
    BY DEF Evaluated, Rows, Counts, DirectoryOK, TablesOK
  <1>2. Evaluated(u, i)' = IF Made' THEN "admin" ELSE DefaultRole(i)'
    BY DEF Evaluated, Rows, Counts, DirectoryOK, TablesOK
  <1>3. Made <=> Made'
    OBVIOUS
  <1>4. DefaultRole(i)' = DefaultRole(i)
    BY DEF DefaultRole
  <1> QED BY <1>1, <1>2, <1>3, <1>4

LEMMA RoleInvInit ==
    ASSUME NEW table \in [Users -> UserRow \cup {None}],
           \A u \in Users : table[u] # None /\ table[u].idp # None => table[u].role = "member",
           DirectoryInitWith(table)
    PROVE  RoleInv
  <1>1. DirectoryOK
    BY TypesInit
  <1>2. \A i \in Idps : idps[i] # None /\ idps[i].role = "member"
    <2> SUFFICES ASSUME NEW i \in Idps
                 PROVE  idps[i] # None /\ idps[i].role = "member"
      OBVIOUS
    <2>1. PICK A \in SUBSET Names :
             idps[i] = [role |-> "member", admins |-> A, scim |-> TRUE]
      BY DEF DirectoryInitWith
    <2>2. idps[i] \in IdpRow
      BY <2>1 DEF IdpRow, Role
    <2>3. idps[i].role = "member"
      BY <2>1
    <2> QED BY <2>2, <2>3, DirectoryAssumption
  <1>3. \A u \in Users, i \in Idps : Evaluated(u, i) = "member"
    BY <1>2 DEF Evaluated, DefaultRole, Rows, DirectoryInitWith
  <1>4. \A u \in Users : RoleOf(u)
    BY <1>1, <1>2, <1>3 DEF RoleOf, Rows, DirectoryInitWith, UserRow
  <1>5. Linked
    BY <1>2 DEF Linked, Rows, DirectoryInitWith, UserRow
  <1> QED BY <1>4, <1>5 DEF RoleInv, Apart, InGroup, Orderly, Noticed, Fresh, NoClient,
               DirectoryInitWith

\* Nothing that matters here changes in a request, but that it is overtaken.
Similar(r, s) ==
    \/ ~InGroup(r) /\ ~InGroup(s)
    \/ /\ InGroup(r)
       /\ s.phase = r.phase /\ s.kind = r.kind /\ s.group = r.group /\ s.idp = r.idp
       /\ s.toSync = r.toSync /\ s.touched = r.touched
       /\ s.now = r.now /\ s.found = r.found
       /\ r.overtaken => s.overtaken

LEMMA SimilarDebts ==
    ASSUME NEW r \in Client, NEW s \in Client, Similar(r, s)
    PROVE  Owes(s) = Owes(r) /\ (InGroup(r) <=> InGroup(s)) /\ (Orderly(r) => Orderly(s))
  BY DEF Similar, Owes, InGroup, Orderly

LEMMA OvertakeSimilar ==
    ASSUME DirectoryOK, NEW c \in Clients
    PROVE  /\ Similar(clients[c], Overtake(clients)[c])
           /\ InGroup(clients[c]) => Overtake(clients)[c].overtaken
  <1>1. clients[c] \in Client
    BY DEF DirectoryOK
  <1>2. CASE clients[c].phase = "none"
    BY <1>2 DEF Overtake, Busy, Similar, InGroup
  <1>3. CASE clients[c].phase # "none"
    BY <1>1, <1>3, Overtaken DEF Overtake, Busy, Similar, InGroup
  <1> QED BY <1>2, <1>3

\* Steps of others than requests on groups: of administrators, on users, of
\* logins.  Either the requests on groups are overtaken, or no role depends on
\* the step.
LEMMA RolesAround ==
    ASSUME DirectoryOK, RoleInv, DirectoryOK', Linked',
           \A c \in Clients : Similar(clients[c], clients'[c]),
           \/ \A c \in Clients : InGroup(clients[c]) => clients'[c].overtaken
           \/ \A u \in Users, i \in Idps : Evaluated(u, i)' = Evaluated(u, i),
           \A g \in Groups : Of(g)' \subseteq Of(g),
           \A u \in shaken \ shaken' : \A g \in Groups : u \notin Of(g)',
           \A u \in Users : Answered(u)' \/ RoleOf(u)'
    PROVE  RoleInv'
  <1>1. \A c \in Clients : clients[c] \in Client /\ clients'[c] \in Client
    BY DEF DirectoryOK
  <1>2. \A c \in Clients :
          /\ Owes(clients'[c]) = Owes(clients[c])
          /\ InGroup(clients[c]) <=> InGroup(clients'[c])
          /\ Orderly(clients'[c])
    BY <1>1, SimilarDebts DEF RoleInv
  <1>3. Apart'
    BY <1>1, <1>2 DEF RoleInv, Apart, Similar
  <1>4. ASSUME NEW c \in Clients PROVE Noticed(c)'
    <2> SUFFICES ASSUME clients'[c].phase = "change", clients'[c].kind # "patch",
                        NEW u \in Of(clients[c].group)' \ clients'[c].toSync,
                        u \notin shaken'
                 PROVE  \E d \in Clients \ {c} : u \in Owes(clients'[d])
      BY DEF Noticed
    <2>1. /\ clients[c].phase = "change" /\ clients[c].kind # "patch"
          /\ clients'[c].group = clients[c].group /\ clients'[c].toSync = clients[c].toSync
      BY <1>2 DEF Similar, InGroup
    <2>2. clients[c].group \in Groups
      BY <1>1, <2>1, Phases DEF GroupReq, GroupRec
    <2>3. u \in Of(clients[c].group) \ clients[c].toSync /\ u \notin shaken
      BY <2>1, <2>2
    <2> QED BY <1>2, <2>1, <2>3 DEF RoleInv, Noticed
  <1>5. ASSUME NEW c \in Clients PROVE Fresh(c)'
    <2> SUFFICES ASSUME clients'[c].phase = "sync", clients'[c].now # None,
                        ~clients'[c].overtaken
                 PROVE  clients'[c].found = Evaluated(clients[c].now, clients[c].idp)'
      BY DEF Fresh
    <2>1. /\ clients[c].phase = "sync" /\ clients[c].now # None /\ ~clients[c].overtaken
          /\ clients'[c].now = clients[c].now /\ clients'[c].idp = clients[c].idp
          /\ clients'[c].found = clients[c].found
      BY DEF Similar, InGroup
    <2>2. clients[c].now \in Users /\ clients[c].idp \in Idps
      BY <1>1, <2>1, Phases DEF GroupReq, GroupRec
    <2>3. \A u \in Users, i \in Idps : Evaluated(u, i)' = Evaluated(u, i)
      BY <2>1 DEF InGroup
    <2>4. clients[c].found = Evaluated(clients[c].now, clients[c].idp)
      BY <2>1 DEF RoleInv, Fresh
    <2> QED BY <2>1, <2>2, <2>3, <2>4
  <1>6. \A u \in Users : RoleOf(u)'
    BY DEF RoleOf, Answered
  <1> QED BY <1>2, <1>3, <1>4, <1>5, <1>6 DEF RoleInv

\* Steps of request c on a group
LEMMA RolesOfOne ==
    ASSUME DirectoryOK, RoleInv, DirectoryOK', Linked',
           NEW c \in Clients, InGroup(clients[c]),
           \A d \in Clients : d # c => clients'[d] = clients[d],
           InGroup(clients'[c]) => clients'[c].overtaken = clients[c].overtaken,
           Orderly(clients'[c]), Noticed(c)', Fresh(c)',
           clients[c].overtaken =>
             /\ shaken \subseteq shaken'
             /\ \A u \in Owes(clients[c]) : u \in shaken' \/ u \in Owes(clients'[c]),
           \A g \in Groups : \A u \in Of(g)' \ Of(g) : u \in Owes(clients'[c]),
           \A u \in Users : RoleOf(u)'
    PROVE  RoleInv'
  <1>1. \A d \in Clients : clients[d] \in Client /\ clients'[d] \in Client
    BY DEF DirectoryOK
  <1>2. Apart'
    BY DEF RoleInv, Apart
  <1>3. ASSUME NEW d \in Clients, d # c PROVE Noticed(d)'
    <2> SUFFICES ASSUME clients[d].phase = "change", clients[d].kind # "patch",
                        NEW u \in Of(clients[d].group)' \ clients[d].toSync,
                        u \notin shaken'
                 PROVE  \E e \in Clients \ {d} : u \in Owes(clients'[e])
      BY <1>3 DEF Noticed
    <2>1. clients[d].group \in Groups
      BY <1>1, Phases DEF GroupReq, GroupRec
    <2>2. CASE u \notin Of(clients[d].group)
      BY <1>3, <2>1, <2>2
    <2>3. CASE u \in Of(clients[d].group)
      <3>1. clients[c].overtaken
        BY <1>3 DEF RoleInv, Apart, InGroup
      <3>2. PICK e \in Clients \ {d} : u \in Owes(clients[e])
        BY <2>3, <3>1 DEF RoleInv, Noticed
      <3> QED BY <1>3, <3>1, <3>2
    <2> QED BY <2>2, <2>3
  <1>4. ASSUME NEW d \in Clients, d # c PROVE Fresh(d)'
    <2>1. InGroup(clients[d]) => clients[d].overtaken
      BY <1>4 DEF RoleInv, Apart
    <2> QED BY <1>4, <2>1 DEF Fresh, InGroup
  <1> QED BY <1>2, <1>3, <1>4 DEF RoleInv

\* What a step leaves of the roles that it does not write
LEMMA RolesKept ==
    ASSUME DirectoryOK, RoleInv, DirectoryOK', UNCHANGED users,
           NEW c \in Clients,
           \A d \in Clients : d # c => clients'[d] = clients[d],
           shaken \subseteq shaken',
           \A u \in Owes(clients[c]) : u \in shaken' \/ u \in Owes(clients'[c]),
           \A u \in Users, i \in Idps : Answered(u)' \/ Evaluated(u, i)' = Evaluated(u, i)
    PROVE  \A u \in Users : RoleOf(u)'
  <1> SUFFICES ASSUME NEW u \in Users, users[u] # None, users[u].idp # None, ~Answered(u)'
               PROVE  users[u].role = Evaluated(u, users[u].idp)'
    BY DEF RoleOf, Rows, DirectoryOK, TablesOK
  <1>1. ~Answered(u)
    BY DEF Answered
  <1>2. users[u].idp \in Idps /\ u \in Rows(users)
    BY DEF DirectoryOK, TablesOK, UserRow, Rows
  <1>3. users[u].role = Evaluated(u, users[u].idp)
    BY <1>1, <1>2 DEF RoleInv, RoleOf
  <1> QED BY <1>2, <1>3

LEMMA AnsweredStill ==
    ASSUME DirectoryOK, DirectoryOK', NEW u \in Users,
           \A c \in Clients : Similar(clients[c], clients'[c]),
           Answered(u), u \in shaken => u \in shaken'
    PROVE  Answered(u)'
  <1>1. \A c \in Clients : Owes(clients'[c]) = Owes(clients[c])
    BY SimilarDebts DEF DirectoryOK
  <1> QED BY <1>1 DEF Answered

\* At once: every request under way is overtaken.
LEMMA AtOnceSimilar ==
    ASSUME DirectoryOK, clients' = Overtake(clients)
    PROVE  /\ \A c \in Clients : Similar(clients[c], clients'[c])
           /\ \A c \in Clients : InGroup(clients[c]) => clients'[c].overtaken
  BY OvertakeSimilar

\* Steps that change rows of users, but nobody's groups or provider: rows that
\* are written are new, or keep their roles, or are shaken.
LEMMA RolesOfUsers ==
    ASSUME DirectoryOK, RoleInv, DirectoryOK', UNCHANGED <<idps, tokens, groups, members>>,
           \A c \in Clients : Similar(clients[c], clients'[c]),
           shaken \subseteq shaken',
           \A u \in Users : users[u] # None => users'[u] # None,
           \A u \in Users :
             \/ users'[u] = users[u]
             \/ users[u] # None /\ users'[u].idp = users[u].idp
                  /\ (u \in shaken' \/ users'[u].role = users[u].role)
             \/ users[u] = None /\ users'[u].idp = None
             \/ users[u] = None /\ users'[u].idp \in tokens
                  /\ users'[u].role = DefaultRole(users'[u].idp)
    PROVE  RoleInv'
  <1>1. \A u \in Users : /\ u \in Rows(users) <=> users[u] # None
                         /\ u \in Rows(users') <=> users'[u] # None
    BY DEF Rows, DirectoryOK, TablesOK
  <1>2. \A u \in Users : users[u] # None => users[u].idp \in Idps \cup {None}
    BY DEF DirectoryOK, TablesOK, UserRow
  <1>3. \A u \in Users, i \in Idps : Evaluated(u, i)' = Evaluated(u, i)
    BY DEF Evaluated, DefaultRole, Rows, Of
  <1>4. \A g \in Groups : Of(g)' = Of(g)
    BY DEF Of
  <1>5. Linked'
    <2>1. members \subseteq Groups \X Users
      BY DEF DirectoryOK, TablesOK
    <2>2. \A m \in members : groups'[m[1]] # None /\ users'[m[2]] # None
      BY <2>1 DEF RoleInv, Linked
    <2>3. ASSUME NEW u \in Rows(users'), users'[u].idp # None
          PROVE  idps'[users'[u].idp] # None
      <3>1. u \in Users
        BY DEF Rows, DirectoryOK, TablesOK
      <3> QED BY <1>1, <2>3, <3>1 DEF RoleInv, Linked
    <2> QED BY <2>2, <2>3 DEF RoleInv, Linked
  <1>6. ASSUME NEW u \in Users PROVE Answered(u)' \/ RoleOf(u)'
    <2> SUFFICES ASSUME users'[u] # None, users'[u].idp # None, ~Answered(u)'
                 PROVE  users'[u].role = Evaluated(u, users[u].idp)'
      BY <1>1 DEF RoleOf
    <2>1. ~Answered(u) /\ u \notin shaken'
      BY AnsweredStill DEF Answered
    <2>2. CASE users[u] # None
      <3>1. users'[u].idp = users[u].idp /\ users'[u].role = users[u].role
        BY <2>1, <2>2
      <3>2. users[u].role = Evaluated(u, users[u].idp)
        BY <1>1, <2>1, <2>2, <3>1 DEF RoleInv, RoleOf
      <3> QED BY <1>2, <1>3, <2>2, <3>1, <3>2
    <2>3. CASE users[u] = None
      <3>1. users'[u].idp \in tokens /\ users'[u].role = DefaultRole(users'[u].idp)
        BY <2>3
      <3>2. \A g \in Groups : u \notin Of(g)
        BY <2>3 DEF RoleInv, Linked, Of
      <3>3. users'[u].idp \in Idps
        BY <3>1 DEF DirectoryOK, TablesOK
      <3>4. Evaluated(u, users[u].idp)' = DefaultRole(users'[u].idp)
        BY <3>2 DEF Evaluated, DefaultRole, Rows, Of, DirectoryOK, TablesOK
      <3> QED BY <3>1, <3>4
    <2> QED BY <2>2, <2>3
  <1> QED BY <1>3, <1>4, <1>5, <1>6, RolesAround

LEMMA RolesUserStep ==
    ASSUME DirectoryOK, RoleInv, DirectoryOK', ScimUserNext
    PROVE  RoleInv'
  <1>0. users \in [Users -> UserRow \cup {None}]
    BY DEF DirectoryOK, TablesOK
  <1>1. ASSUME NEW i \in Idps, NEW u \in Users, NEW e \in Emails, ScimCreateUser(i, u, e)
        PROVE  RoleInv'
    <2> DEFINE row == User(e, DefaultRole(i), i, TRUE)
    <2>1. row.idp = i /\ row.role = DefaultRole(i)
      BY DEF User
    <2> HIDE DEF row
    <2>2. users' = [users EXCEPT ![u] = row] /\ users[u] = None /\ i \in tokens
          /\ UNCHANGED <<idps, tokens, groups, members, shaken>>
          /\ clients' = Overtake(clients)
      BY <1>1 DEF ScimCreateUser, AtOnce, Authorised, row
    <2>3. \A v \in Users : users'[v] = IF v = u THEN row ELSE users[v]
      BY <1>0, <2>2
    <2> QED BY <2>1, <2>2, <2>3, AtOnceSimilar, RolesOfUsers
  <1>2. ASSUME NEW i \in Idps, NEW u \in Users, NEW e \in Emails, NEW active \in BOOLEAN,
               ScimReplaceUser(i, u, e, active)
        PROVE  RoleInv'
    <2> DEFINE row == [[users[u] EXCEPT !.email = e] EXCEPT !.active = active]
    <2>1. users[u] \in UserRow /\ users[u] # None
      BY <1>0, <1>2 DEF ScimReplaceUser, InScope
    <2>2. row \in UserRow /\ row.idp = users[u].idp /\ row.role = users[u].role
      BY <2>1, UserFields DEF UserRow
    <2>3. users' = [users EXCEPT ![u] = row]
          /\ UNCHANGED <<idps, tokens, groups, members, shaken>>
          /\ clients' = Overtake(clients)
      BY <1>0, <1>2 DEF ScimReplaceUser, AtOnce
    <2> HIDE DEF row
    <2>4. \A v \in Users : users'[v] = IF v = u THEN row ELSE users[v]
      BY <1>0, <2>3
    <2> QED BY <2>1, <2>2, <2>3, <2>4, DirectoryAssumption, AtOnceSimilar, RolesOfUsers
  <1>3. ASSUME NEW i \in Idps, NEW u \in Users, ScimDeleteUser(i, u)
        PROVE  RoleInv'
    <2> DEFINE row == [users[u] EXCEPT !.active = FALSE]
    <2>1. users[u] \in UserRow /\ users[u] # None
      BY <1>0, <1>3 DEF ScimDeleteUser, InScope
    <2>2. row \in UserRow /\ row.idp = users[u].idp /\ row.role = users[u].role
      BY <2>1, UserFields DEF UserRow
    <2>3. users' = [users EXCEPT ![u] = row]
          /\ UNCHANGED <<idps, tokens, groups, members, shaken>>
          /\ clients' = Overtake(clients)
      BY <1>3 DEF ScimDeleteUser, AtOnce
    <2> HIDE DEF row
    <2>4. \A v \in Users : users'[v] = IF v = u THEN row ELSE users[v]
      BY <1>0, <2>3
    <2> QED BY <2>1, <2>2, <2>3, <2>4, DirectoryAssumption, AtOnceSimilar, RolesOfUsers
  <1> QED BY <1>1, <1>2, <1>3 DEF ScimUserNext

LEMMA RolesPatchStep ==
    ASSUME DirectoryOK, RoleInv, DirectoryOK', ScimPatchNext
    PROVE  RoleInv'
  <1>0. users \in [Users -> UserRow \cup {None}] /\ clients \in [Clients -> Client]
        /\ Overtake(clients) \in [Clients -> Client]
    BY OvertakeClients DEF DirectoryOK, TablesOK
  <1>1. ASSUME NEW c \in Clients, NEW i \in Idps, NEW u \in Users, NEW asked \in Asked,
               BeginPatchUser(c, i, u, asked)
        PROVE  RoleInv'
    <2>1. ~InGroup(clients[c]) /\ ~InGroup(clients'[c])
      BY <1>0, <1>1 DEF BeginPatchUser, Busy, InGroup
    <2>2. \A d \in Clients : d # c => clients'[d] = clients[d]
      BY <1>0, <1>1 DEF BeginPatchUser
    <2>3. \A d \in Clients : Similar(clients[d], clients'[d])
      BY <2>1, <2>2 DEF Similar
    <2> QED BY <1>1, <2>3, RolesOfUsers DEF BeginPatchUser, tables
  <1>2. ASSUME NEW c \in Clients, WritePatchUser(c)
        PROVE  RoleInv'
    <2> DEFINE u == clients[c].user
    <2> DEFINE row == Patched(clients[c].read, clients[c].asked)
    <2>1. clients[c] \in PatchReq /\ clients[c].phase = "user"
      BY <1>2, Phases DEF WritePatchUser, DirectoryOK
    <2>2. u \in Users /\ row.email \in Emails /\ row.active \in BOOLEAN
      <3>1. clients[c].read \in UserRow /\ clients[c].asked \in Asked /\ u \in Users
        BY <2>1 DEF PatchReq
      <3> QED BY <3>1 DEF Patched, Asked, UserRow
    <2>3. clients' = [Overtake(clients) EXCEPT ![c] = NoClient]
          /\ UNCHANGED <<idps, tokens, groups, members, shaken>>
      BY <1>2 DEF WritePatchUser
    <2>4. \A d \in Clients : Similar(clients[d], clients'[d])
      BY <1>0, <2>1, <2>3, OvertakeSimilar DEF Similar, NoClient, InGroup
    <2>5. \A v \in Users :
             \/ users'[v] = users[v]
             \/ /\ users[v] # None /\ users'[v] # None
                /\ users'[v].idp = users[v].idp /\ users'[v].role = users[v].role
      <3>1. CASE UNCHANGED users
        BY <3>1
      <3>2. CASE ~UNCHANGED users
        <4> DEFINE new == [[users[u] EXCEPT !.email = row.email] EXCEPT !.active = row.active]
        <4>1. users[u] # None
              /\ users' = [[users EXCEPT ![u].email = row.email] EXCEPT ![u].active = row.active]
          BY <1>2, <3>2 DEF WritePatchUser
        <4>2. users' = [users EXCEPT ![u] = new] /\ users[u] \in UserRow
          BY <1>0, <2>2, <4>1
        <4>3. new \in UserRow /\ new.idp = users[u].idp /\ new.role = users[u].role
          BY <2>2, <4>2, UserFields DEF UserRow
        <4> HIDE DEF new, row, u
        <4>4. \A v \in Users : users'[v] = IF v = u THEN new ELSE users[v]
          BY <1>0, <4>2
        <4> QED BY <4>1, <4>3, <4>4, DirectoryAssumption
      <3> QED BY <3>1, <3>2
    <2> QED BY <2>3, <2>4, <2>5, RolesOfUsers
  <1> QED BY <1>1, <1>2 DEF ScimPatchNext

LEMMA RolesLoginStep ==
    ASSUME DirectoryOK, RoleInv, DirectoryOK', NEW l \in Logins, LoginNext(l)
    PROVE  RoleInv'
  <1>1. UNCHANGED <<idps, tokens, groups, members, clients, shaken>>
    BY DEF LoginNext, LookUp, CheckScim, Provision, Leave, tables
  <1>2. \A c \in Clients : Similar(clients[c], clients'[c])
    BY <1>1 DEF Similar
  <1>3. \A u \in Users : \/ users'[u] = users[u]
                         \/ users[u] = None /\ users'[u].idp = None
    <2>1. CASE Provision(l)
      BY <2>1 DEF Provision, User, DirectoryOK, TablesOK
    <2>2. CASE ~Provision(l)
      BY <2>2 DEF LoginNext, LookUp, CheckScim, Leave, tables
    <2> QED BY <2>1, <2>2
  <1>4. \A u \in Users : users[u] # None => users'[u] # None
    BY <1>3
  <1> QED BY <1>1, <1>2, <1>3, <1>4, RolesOfUsers

LEMMA RolesAdminUserStep ==
    ASSUME DirectoryOK, RoleInv, DirectoryOK', AdminUserNext
    PROVE  RoleInv'
  <1>0. users \in [Users -> UserRow \cup {None}] /\ members \subseteq Groups \X Users
    BY DEF DirectoryOK, TablesOK
  <1>1. ASSUME NEW u \in Users, NEW e \in Emails, NEW role \in Role,
               AdminCreateUser(u, e, role)
        PROVE  RoleInv'
    <2> DEFINE row == User(e, role, None, FALSE)
    <2>1. row.idp = None
      BY DEF User
    <2>2. users' = [users EXCEPT ![u] = row] /\ users[u] = None
          /\ UNCHANGED <<idps, tokens, groups, members, shaken>>
          /\ clients' = Overtake(clients)
      BY <1>1 DEF AdminCreateUser, AtOnce
    <2> HIDE DEF row
    <2>3. \A v \in Users : users'[v] = IF v = u THEN row ELSE users[v]
      BY <1>0, <2>2
    <2> QED BY <2>1, <2>2, <2>3, AtOnceSimilar, RolesOfUsers
  <1>2. ASSUME NEW u \in Users, NEW role \in Role, AdminSetRole(u, role)
        PROVE  RoleInv'
    <2> DEFINE row == [users[u] EXCEPT !.role = role]
    <2>1. users[u] \in UserRow /\ users[u] # None
      BY <1>0, <1>2 DEF AdminSetRole
    <2>2. row \in UserRow /\ row.idp = users[u].idp
      BY <2>1, UserFields DEF UserRow
    <2>3. users' = [users EXCEPT ![u] = row]
          /\ UNCHANGED <<idps, tokens, groups, members>> /\ shaken' = shaken \cup {u}
          /\ clients' = Overtake(clients)
      BY <1>2 DEF AdminSetRole, AtOnce
    <2> HIDE DEF row
    <2>4. \A v \in Users : users'[v] = IF v = u THEN row ELSE users[v]
      BY <1>0, <2>3
    <2> QED BY <2>1, <2>2, <2>3, <2>4, DirectoryAssumption, AtOnceSimilar, RolesOfUsers
  <1>3. ASSUME NEW u \in Users, AdminDeleteUser(u)
        PROVE  RoleInv'
    <2>1. /\ clients' = Overtake(clients) /\ UNCHANGED <<idps, tokens, groups>>
          /\ users' = [users EXCEPT ![u] = None]
          /\ members' = {m \in members : m[2] # u} /\ shaken' = shaken \ {u}
      BY <1>3 DEF AdminDeleteUser, AtOnce
    <2>2. \A c \in Clients : /\ Similar(clients[c], clients'[c])
                             /\ InGroup(clients[c]) => clients'[c].overtaken
      BY <2>1, AtOnceSimilar
    <2>3. \A g \in Groups : Of(g)' = Of(g) \ {u}
      BY <2>1 DEF Of
    <2>4. /\ users'[u] = None
          /\ \A v \in Users : v # u => users'[v] = users[v]
      BY <1>0, <2>1
    <2>5. \A v \in Users : /\ v \in Rows(users) <=> users[v] # None
                           /\ v \in Rows(users') <=> users'[v] # None
      BY DEF Rows, DirectoryOK, TablesOK
    <2>6. Linked'
      <3>1. \A m \in members' : groups'[m[1]] # None /\ users'[m[2]] # None
        BY <1>0, <2>1, <2>4 DEF RoleInv, Linked
      <3>2. ASSUME NEW v \in Rows(users'), users'[v].idp # None
            PROVE  idps'[users'[v].idp] # None
        <4>1. v \in Users
          BY DEF Rows, DirectoryOK, TablesOK
        <4> QED BY ZenonT(40), <2>1, <2>4, <2>5, <3>2, <4>1 DEF RoleInv, Linked
      <3> QED BY <2>1, <3>1, <3>2 DEF RoleInv, Linked
    <2>7. ASSUME NEW v \in Users PROVE Answered(v)' \/ RoleOf(v)'
      <3>1. CASE v = u
        BY <2>4, <2>5, <3>1 DEF RoleOf
      <3>2. CASE v # u
        <4> SUFFICES ASSUME users[v] # None, users[v].idp # None, ~Answered(v)'
                     PROVE  users[v].role = Evaluated(v, users[v].idp)'
          BY <2>4, <2>5, <3>2 DEF RoleOf
        <4>1. ~Answered(v)
          BY <2>1, <2>2, <3>2, AnsweredStill
        <4>2. users[v].idp \in Idps
          BY <1>0 DEF UserRow
        <4>3. users[v].role = Evaluated(v, users[v].idp)
          BY <2>5, <4>1 DEF RoleInv, RoleOf
        <4>4. \A g \in Groups : Counts(g, v, users[v].idp)' <=> Counts(g, v, users[v].idp)
          BY <2>1, <2>3, <2>4, <3>2 DEF Counts
        <4>5. Evaluated(v, users[v].idp)' = Evaluated(v, users[v].idp)
          BY <2>1, <2>3, <3>2 DEF Evaluated, DefaultRole, Rows, DirectoryOK, TablesOK
        <4> QED BY <4>3, <4>5
      <3> QED BY <3>1, <3>2
    <2> QED BY <2>1, <2>2, <2>3, <2>6, <2>7, RolesAround
  <1> QED BY <1>1, <1>2, <1>3 DEF AdminUserNext

\* Steps on one provider: its users are shaken, or nothing changes for them.
LEMMA RolesOfIdp ==
    ASSUME DirectoryOK, RoleInv, DirectoryOK', UNCHANGED <<users, groups, members>>,
           clients' = Overtake(clients), shaken \subseteq shaken',
           NEW i \in Idps, tokens' \subseteq tokens \cup {i}, idps'[i] # None,
           \A j \in Idps : j # i => idps'[j] = idps[j],
           \/ ManagedBy(i) \subseteq shaken'
           \/ idps[i] = None
           \/ idps'[i].role = idps[i].role /\ idps'[i].admins = idps[i].admins
    PROVE  RoleInv'
  <1>1. \A c \in Clients : /\ Similar(clients[c], clients'[c])
                           /\ InGroup(clients[c]) => clients'[c].overtaken
    BY AtOnceSimilar
  <1>2. \A g \in Groups : Of(g)' = Of(g)
    BY DEF Of
  <1>3. \A v \in Users : v \in Rows(users) <=> users[v] # None
    BY DEF Rows, DirectoryOK, TablesOK
  <1>4. Rows(users)' = Rows(users)
    BY DEF Rows
  <1>5. \A v \in Users : users[v] # None => users[v].idp \in Idps \cup {None}
    BY DEF DirectoryOK, TablesOK, UserRow
  <1>6. Linked'
    <2>1. ASSUME NEW v \in Rows(users), users[v].idp # None
          PROVE  idps'[users[v].idp] # None
      <3>1. v \in Users
        BY DEF Rows, DirectoryOK, TablesOK
      <3> QED BY <1>3, <1>5, <2>1, <3>1 DEF RoleInv, Linked
    <2>2. tokens' \subseteq Idps
      BY DEF DirectoryOK, TablesOK
    <2> QED BY <1>4, <2>1, <2>2 DEF RoleInv, Linked
  <1>7. ASSUME NEW v \in Users PROVE Answered(v)' \/ RoleOf(v)'
    <2> SUFFICES ASSUME users[v] # None, users[v].idp # None, ~Answered(v)'
                 PROVE  users[v].role = Evaluated(v, users[v].idp)'
      BY <1>3, <1>4 DEF RoleOf
    <2>1. ~Answered(v) /\ v \notin shaken'
      BY <1>1, AnsweredStill DEF Answered
    <2>2. users[v].idp \in Idps
      BY <1>5
    <2>3. users[v].role = Evaluated(v, users[v].idp)
      BY <1>3, <2>1 DEF RoleInv, RoleOf
    <2>4. idps[users[v].idp] # None
      BY <1>3 DEF RoleInv, Linked
    <2>5. /\ idps'[users[v].idp] # None
          /\ idps'[users[v].idp].role = idps[users[v].idp].role
          /\ idps'[users[v].idp].admins = idps[users[v].idp].admins
      <3>1. CASE users[v].idp = i
        BY <1>3, <2>1, <2>4, <3>1 DEF ManagedBy
      <3>2. CASE users[v].idp # i
        BY <2>2, <2>4, <3>2
      <3> QED BY <3>1, <3>2
    <2>6. Evaluated(v, users[v].idp)' = Evaluated(v, users[v].idp)
      BY <2>4, <2>5, <1>2 DEF Evaluated, DefaultRole, Rows, DirectoryOK, TablesOK
    <2> QED BY <2>3, <2>6
  <1> QED BY <1>1, <1>2, <1>6, <1>7, RolesAround

LEMMA RolesAdminIdpStep ==
    ASSUME DirectoryOK, RoleInv, DirectoryOK', AdminIdpNext
    PROVE  RoleInv'
  <1>0. idps \in [Idps -> IdpRow \cup {None}] /\ idps' \in [Idps -> IdpRow \cup {None}]
    BY DEF DirectoryOK, TablesOK
  <1>1. ASSUME NEW i \in Idps, NEW A \in SUBSET Names, SetAdminGroups(i, A)
        PROVE  RoleInv'
    <2>1. [idps[i] EXCEPT !.admins = A] \in IdpRow
      BY <1>0, <1>1 DEF SetAdminGroups, IdpRow
    <2>2. idps'[i] # None /\ \A j \in Idps : j # i => idps'[j] = idps[j]
      BY <1>0, <1>1, <2>1, DirectoryAssumption DEF SetAdminGroups
    <2> QED BY <1>1, <2>2, RolesOfIdp DEF SetAdminGroups, AtOnce
  <1>2. ASSUME NEW i \in Idps, NEW on \in BOOLEAN, SetScim(i, on)
        PROVE  RoleInv'
    <2> DEFINE row == [idps[i] EXCEPT !.scim = on]
    <2>1. row \in IdpRow /\ row.role = idps[i].role /\ row.admins = idps[i].admins
      BY <1>0, <1>2 DEF SetScim, IdpRow
    <2>2. idps' = [idps EXCEPT ![i] = row]
      BY <1>2 DEF SetScim
    <2> HIDE DEF row
    <2>3. idps'[i] = row /\ row # None /\ \A j \in Idps : j # i => idps'[j] = idps[j]
      BY <1>0, <2>1, <2>2, DirectoryAssumption
    <2> QED BY <1>2, <2>1, <2>3, RolesOfIdp DEF SetScim, AtOnce
  <1>3. ASSUME NEW i \in Idps, NEW on \in BOOLEAN, SetToken(i, on)
        PROVE  RoleInv'
    BY <1>3, RolesOfIdp DEF SetToken, AtOnce
  <1>4. ASSUME NEW i \in Idps, NEW role \in Role, UpdateIdp(i, role)
        PROVE  RoleInv'
    <2>1. [idps[i] EXCEPT !.role = role] \in IdpRow
      BY <1>0, <1>4 DEF UpdateIdp, IdpRow
    <2>2. idps'[i] # None /\ \A j \in Idps : j # i => idps'[j] = idps[j]
      BY <1>0, <1>4, <2>1, DirectoryAssumption DEF UpdateIdp
    <2> QED BY <1>4, <2>2, RolesOfIdp DEF UpdateIdp, AtOnce
  <1>5. ASSUME NEW i \in Idps, NEW role \in Role, CreateIdp(i, role)
        PROVE  RoleInv'
    <2>1. [role |-> role, admins |-> {}, scim |-> FALSE] \in IdpRow
      BY DEF IdpRow
    <2>2. idps'[i] # None /\ \A j \in Idps : j # i => idps'[j] = idps[j]
      BY <1>0, <1>5, <2>1, DirectoryAssumption DEF CreateIdp
    <2> QED BY <1>5, <2>2, RolesOfIdp DEF CreateIdp, AtOnce
  <1>6. ASSUME NEW i \in Idps, DeleteIdp(i)
        PROVE  RoleInv'
    <2>1. /\ clients' = Overtake(clients) /\ UNCHANGED shaken
          /\ idps' = [idps EXCEPT ![i] = None] /\ tokens' = tokens \ {i}
          /\ groups' = [g \in Groups |-> IF groups[g] # None /\ groups[g].idp = i
                                         THEN None ELSE groups[g]]
          /\ members' = {m \in members : groups[m[1]].idp # i}
          /\ users' = [u \in Users |-> IF u \in ManagedBy(i)
                                       THEN [users[u] EXCEPT !.idp = None] ELSE users[u]]
      BY <1>6 DEF DeleteIdp, AtOnce
    <2>2. \A c \in Clients : /\ Similar(clients[c], clients'[c])
                             /\ InGroup(clients[c]) => clients'[c].overtaken
      BY <2>1, AtOnceSimilar
    <2>3. members \subseteq Groups \X Users /\ users \in [Users -> UserRow \cup {None}]
      BY DEF DirectoryOK, TablesOK
    <2>4. \A g \in Groups : Of(g)' = IF groups[g].idp = i THEN {} ELSE Of(g)
      BY <2>1, <2>3 DEF Of
    <2>5. \A v \in Users : /\ v \in Rows(users) <=> users[v] # None
                           /\ v \in Rows(users') <=> users'[v] # None
      BY DEF Rows, DirectoryOK, TablesOK
    <2>6. ASSUME NEW v \in Users, users[v] # None
          PROVE  /\ users'[v] # None
                 /\ users[v].idp = i => users'[v].idp = None
                 /\ users[v].idp # i => users'[v] = users[v]
      <3>1. users[v] \in UserRow
        BY <2>3, <2>6
      <3>2. [users[v] EXCEPT !.idp = None] \in UserRow
            /\ [users[v] EXCEPT !.idp = None].idp = None
        BY <3>1, UserFields DEF UserRow
      <3>3. v \in ManagedBy(i) <=> users[v].idp = i
        BY <2>5, <2>6 DEF ManagedBy
      <3> QED BY <2>1, <2>6, <3>1, <3>2, <3>3, DirectoryAssumption
    <2>7. \A v \in Users : users[v] = None => users'[v] = None
      BY <2>1, <2>5 DEF ManagedBy
    <2>8. Linked'
      <3>1. ASSUME NEW m \in members' PROVE groups'[m[1]] # None /\ users'[m[2]] # None
        <4>1. m \in members /\ groups[m[1]].idp # i /\ m[1] \in Groups /\ m[2] \in Users
          BY <2>1, <2>3
        <4> QED BY <2>1, <2>6, <4>1 DEF RoleInv, Linked
      <3>2. ASSUME NEW v \in Rows(users'), users'[v].idp # None
            PROVE  idps'[users'[v].idp] # None
        <4>1. v \in Users
          BY DEF Rows, DirectoryOK, TablesOK
        <4>2. users[v] # None /\ users[v].idp # i /\ users'[v] = users[v]
          BY <2>5, <2>6, <2>7, <3>2, <4>1
        <4> QED BY <1>0, <2>1, <2>3, <2>5, <3>2, <4>1, <4>2 DEF RoleInv, Linked, UserRow
      <3> QED BY <1>0, <2>1, <3>1, <3>2 DEF RoleInv, Linked, DirectoryOK, TablesOK
    <2>9. ASSUME NEW v \in Users PROVE Answered(v)' \/ RoleOf(v)'
      <3> SUFFICES ASSUME users'[v] # None, users'[v].idp # None, ~Answered(v)'
                   PROVE  users'[v].role = Evaluated(v, users[v].idp)'
        BY <2>5 DEF RoleOf
      <3>1. users[v] # None /\ users[v].idp # i /\ users'[v] = users[v]
        BY <2>6, <2>7
      <3>2. ~Answered(v)
        BY <2>1, <2>2, AnsweredStill
      <3>3. users[v].idp \in Idps /\ users[v].idp # None
        BY <2>3, <3>1 DEF UserRow
      <3>4. users[v].role = Evaluated(v, users[v].idp)
        BY <2>5, <3>1, <3>2, <3>3 DEF RoleInv, RoleOf
      <3>6. PICK j \in Idps : j = users[v].idp /\ j # i
        BY <3>1, <3>3
      <3>5. idps'[j] = idps[j]
        BY <1>0, <2>1, <3>6
      <3>7. \A g \in Groups :
              /\ Counts(g, v, j)' <=> Counts(g, v, j)
              /\ Counts(g, v, j) => groups'[g].name = groups[g].name
        BY <2>1, <2>4, <3>6 DEF Counts
      <3>8. Evaluated(v, j)' = Evaluated(v, j)
        BY <3>5, <3>6, <3>7, EvaluatedSame
      <3> QED BY <3>1, <3>4, <3>6, <3>8
    <2> QED BY <2>1, <2>2, <2>4, <2>8, <2>9, RolesAround
  <1> QED BY <1>1, <1>2, <1>3, <1>4, <1>5, <1>6 DEF AdminIdpNext

\* A request on a group begins: the others know it, and it them.
LEMMA RolesBegin ==
    ASSUME DirectoryOK, RoleInv, DirectoryOK', UNCHANGED <<users, idps, tokens, members, shaken>>,
           NEW c \in Clients, NEW i \in Idps, NEW g \in Groups, NEW name \in Names,
           NEW kind \in {"post", "put", "patch", "delete"}, NEW toSync \in SUBSET Users,
           c \notin Busy, Begin(c, kind, i, g, name, toSync),
           \/ groups[g] = None /\ kind = "post"
           \/ toSync = Of(g) /\ kind \in {"put", "delete"}
           \/ kind = "patch",
           \A h \in Groups : h # g => groups'[h] = groups[h],
           groups'[g] # None,
           groups'[g] = groups[g] \/ groups[g] = None
             \/ (kind = "put" /\ groups'[g].idp = groups[g].idp)
    PROVE  RoleInv'
  <1>1. PICK r \in GroupReq : /\ r.phase = "change" /\ r.kind = kind /\ r.group = g
                              /\ r.toSync = toSync /\ r.touched = {} /\ r.now = None
                              /\ r.overtaken = (Busy # {})
                              /\ clients' = [Overtake(clients) EXCEPT ![c] = r]
    <2>1. PICK late \in BOOLEAN :
             /\ late = (Busy # {})
             /\ Begun(kind, i, g, name, toSync, late) \in GroupReq
             /\ clients' = [Overtake(clients) EXCEPT ![c] =
                              Begun(kind, i, g, name, toSync, late)]
      BY BeginsAs
    <2> DEFINE new == Begun(kind, i, g, name, toSync, late)
    <2>2. /\ new.phase = "change" /\ new.kind = kind /\ new.group = g
          /\ new.toSync = toSync /\ new.touched = {} /\ new.now = None
          /\ new.overtaken = late
      BY DEF Begun
    <2> HIDE DEF new
    <2> QED BY <2>1, <2>2 DEF new
  <1>2. \A d \in Clients : clients[d] \in Client /\ clients'[d] \in Client
    BY DEF DirectoryOK
  <1>3. \A d \in Clients : d # c =>
          /\ Similar(clients[d], clients'[d])
          /\ InGroup(clients[d]) => clients'[d].overtaken
    BY <1>1, OvertakeSimilar, OvertakeClients DEF DirectoryOK
  <1>4. clients'[c] = r
    BY <1>1, OvertakeClients DEF DirectoryOK
  <1>5. \A d \in Clients : d # c =>
          /\ Owes(clients'[d]) = Owes(clients[d])
          /\ InGroup(clients[d]) <=> InGroup(clients'[d])
          /\ Orderly(clients[d]) => Orderly(clients'[d])
    BY <1>2, <1>3, SimilarDebts
  <1>6. Owes(clients[c]) = {} /\ ~InGroup(clients[c])
    BY DEF Owes, InGroup, Busy
  <1>7. \A u \in Users : Answered(u) => Answered(u)'
    BY <1>5, <1>6 DEF Answered
  <1>8. \A h \in Groups : Of(h)' = Of(h)
    BY DEF Of
  <1>9. groups[g] = None => Of(g) = {}
    BY DEF RoleInv, Linked, Of
  <1>10. Linked'
    BY DEF RoleInv, Linked, Rows, DirectoryOK, TablesOK
  <1>11. Apart'
    <2>1. \A d \in Clients : InGroup(clients[d]) => d \in Busy
      BY DEF InGroup, Busy
    <2>2. ASSUME NEW d \in Clients, d # c, InGroup(clients'[d])
          PROVE  clients'[d].overtaken /\ r.overtaken
      BY <1>1, <1>3, <1>5, <2>1, <2>2
    <2> QED BY <1>3, <1>4, <1>5, <2>2 DEF RoleInv, Apart
  <1>12. ASSUME NEW d \in Clients PROVE Orderly(clients'[d]) /\ Noticed(d)' /\ Fresh(d)'
    <2>1. CASE d = c
      <3>1. Orderly(r)
        BY <1>1 DEF Orderly
      <3>2. kind # "patch" => Of(g) \ toSync = {}
        BY <1>9
      <3>3. Noticed(c)'
        BY <1>1, <1>4, <1>8, <3>2 DEF Noticed
      <3>4. Fresh(c)'
        BY <1>1, <1>4 DEF Fresh
      <3> QED BY <1>4, <2>1, <3>1, <3>3, <3>4
    <2>2. CASE d # c
      <3>1. Fresh(d)'
        BY <1>3, <1>5, <2>2 DEF Fresh, InGroup
      <3>2. Noticed(d)'
        <4> SUFFICES ASSUME clients'[d].phase = "change", clients'[d].kind # "patch",
                            NEW u \in Of(clients[d].group)' \ clients[d].toSync,
                            u \notin shaken
                     PROVE  \E e \in Clients \ {d} : u \in Owes(clients'[e])
          BY <1>3, <2>2 DEF Noticed, Similar, InGroup
        <4>1. clients[d].phase = "change" /\ clients[d].kind # "patch"
          BY <1>3, <2>2 DEF Similar, InGroup
        <4>2. clients[d].group \in Groups
          BY <1>2, <4>1, Phases DEF GroupReq, GroupRec
        <4>3. u \in Of(clients[d].group) \ clients[d].toSync
          BY <1>3, <1>8, <2>2, <4>1, <4>2 DEF Similar, InGroup
        <4>4. PICK e \in Clients \ {d} : u \in Owes(clients[e])
          BY <4>1, <4>3 DEF RoleInv, Noticed
        <4> QED BY <1>5, <1>6, <4>4
      <3>3. Orderly(clients'[d])
        BY <1>5, <2>2 DEF RoleInv
      <3> QED BY <3>1, <3>2, <3>3
    <2> QED BY <2>1, <2>2
  <1>13. ASSUME NEW u \in Users PROVE RoleOf(u)'
    <2> SUFFICES ASSUME users[u] # None, users[u].idp # None, ~Answered(u)'
                 PROVE  users[u].role = Evaluated(u, users[u].idp)'
      BY DEF RoleOf, Rows, DirectoryOK, TablesOK
    <2>1. ~Answered(u)
      BY <1>7
    <2>2. PICK j \in Idps : j = users[u].idp
      BY DEF DirectoryOK, TablesOK, UserRow
    <2>3. users[u].role = Evaluated(u, j)
      BY <2>1, <2>2 DEF RoleInv, RoleOf, Rows, DirectoryOK, TablesOK
    <2>4. CASE u \in Of(g) /\ kind = "put"
      <3>1. u \in Owes(r)
        BY <1>1, <2>4 DEF Owes
      <3> QED BY <1>4, <3>1 DEF Answered
    <2>5. CASE u \notin Of(g) \/ kind # "put"
      <3>1. \A h \in Groups : /\ Counts(h, u, j)' <=> Counts(h, u, j)
                              /\ Counts(h, u, j) => groups'[h].name = groups[h].name
        <4>1. u \in Of(g) => groups'[g] = groups[g]
          BY <1>9, <2>5
        <4> QED BY <1>8, <4>1 DEF Counts
      <3>2. Evaluated(u, j)' = Evaluated(u, j)
        BY <3>1, EvaluatedSame
      <3> QED BY <2>2, <2>3, <3>2
    <2> QED BY <2>4, <2>5
  <1> QED BY <1>10, <1>11, <1>12, <1>13 DEF RoleInv

LEMMA RolesGroupStep ==
    ASSUME DirectoryOK, RoleInv, DirectoryOK', ScimGroupNext
    PROVE  RoleInv'
  <1>1. ASSUME NEW i \in Idps, NEW c \in Clients, NEW g \in Groups, NEW name \in Names,
               BeginPost(c, i, g, name)
        PROVE  RoleInv'
    <2>1. [name |-> name, idp |-> i] # None
      BY DirectoryAssumption DEF GroupRow
    <2>2. groups'[g] # None /\ \A h \in Groups : h # g => groups'[h] = groups[h]
      BY <1>1, <2>1 DEF BeginPost, DirectoryOK, TablesOK
    <2> QED BY <1>1, <2>2, RolesBegin DEF BeginPost
  <1>2. ASSUME NEW i \in Idps, NEW c \in Clients, NEW g \in Groups, NEW name \in Names,
               BeginPut(c, i, g, name)
        PROVE  RoleInv'
    <2> DEFINE row == [groups[g] EXCEPT !.name = name]
    <2>1. row \in GroupRow /\ row.idp = groups[g].idp
      BY <1>2 DEF BeginPut, GroupInScope, GroupRow, DirectoryOK, TablesOK
    <2>2. groups' = [groups EXCEPT ![g] = row]
      BY <1>2 DEF BeginPut
    <2> HIDE DEF row
    <2>3. /\ groups'[g] # None /\ groups'[g].idp = groups[g].idp
          /\ \A h \in Groups : h # g => groups'[h] = groups[h]
      BY <2>1, <2>2, DirectoryAssumption DEF DirectoryOK, TablesOK
    <2> QED BY <1>2, <2>3, MembersOf, RolesBegin DEF BeginPut
  <1>3. ASSUME NEW i \in Idps, NEW c \in Clients, NEW g \in Groups,
               BeginPatch(c, i, g) \/ BeginDelete(c, i, g)
        PROVE  RoleInv'
    <2>1. groups[g] # None /\ groups[g].name \in Names
      BY <1>3 DEF BeginPatch, BeginDelete, GroupInScope, GroupRow, DirectoryOK, TablesOK
    <2> QED BY <1>3, <2>1, MembersOf, RolesBegin DEF BeginPatch, BeginDelete, tables
  <1> QED BY <1>1, <1>2, <1>3 DEF ScimGroupNext

\* What the steps of request c on its group g, but for the writing of roles,
\* have in common: it owes more, or what it no longer owes is shaken; and every
\* user for whom the group counts for more or less than before is somebody's.
LEMMA RolesMove ==
    ASSUME DirectoryOK, RoleInv, DirectoryOK', Linked', UNCHANGED <<users, idps>>,
           NEW c \in Clients, NEW g \in Groups, g = clients[c].group,
           NEW r \in Client, InGroup(clients[c]), clients' = [clients EXCEPT ![c] = r],
           InGroup(r) => r.overtaken = clients[c].overtaken,
           Orderly(r), Noticed(c)', Fresh(c)',
           shaken \subseteq shaken',
           \A u \in Owes(clients[c]) : u \in shaken' \/ u \in Owes(r),
           \A h \in Groups : h # g => groups'[h] = groups[h] /\ Of(h)' = Of(h),
           \A u \in Of(g)' \ Of(g) : u \in Owes(r),
           \A u \in Users :
             \/ u \in Of(g) /\ u \in Of(g)' /\ groups'[g] = groups[g]
             \/ u \notin Of(g) /\ u \notin Of(g)'
             \/ u \in shaken' \/ u \in Owes(r)
             \/ /\ clients[c].phase = "change" /\ clients[c].kind # "patch"
                /\ u \in Of(g) \ clients[c].toSync
    PROVE  RoleInv'
  <1>1. clients'[c] = r /\ \A d \in Clients : d # c => clients'[d] = clients[d]
    BY DEF DirectoryOK
  <1>2. ASSUME NEW u \in Users, NEW i \in Idps, ~Answered(u)'
        PROVE  Evaluated(u, i)' = Evaluated(u, i)
    <2>1. u \notin shaken' /\ u \notin Owes(r)
      BY <1>1, <1>2 DEF Answered
    <2>2. ~(/\ clients[c].phase = "change" /\ clients[c].kind # "patch"
            /\ u \in Of(g) \ clients[c].toSync)
      <3>1. ~\E d \in Clients \ {c} : u \in Owes(clients[d])
        BY <1>1, <1>2 DEF Answered
      <3> QED BY <2>1, <3>1 DEF RoleInv, Noticed
    <2>3. \/ u \in Of(g) /\ u \in Of(g)' /\ groups'[g] = groups[g]
          \/ u \notin Of(g) /\ u \notin Of(g)'
      BY <2>1, <2>2
    <2>4. \A h \in Groups : /\ Counts(h, u, i) <=> Counts(h, u, i)'
                            /\ Counts(h, u, i) => groups'[h].name = groups[h].name
      BY <2>3 DEF Counts
    <2> QED BY <2>4, EvaluatedSame
  <1>3. \A u \in Users : RoleOf(u)'
    <2>1. \A u \in Owes(clients[c]) : u \in shaken' \/ u \in Owes(clients'[c])
      BY <1>1
    <2> QED BY <1>1, <1>2, <2>1, RolesKept
  <1>4. Orderly(clients'[c])
    BY <1>1
  <1>5. clients[c].overtaken =>
             /\ shaken \subseteq shaken'
             /\ \A u \in Owes(clients[c]) : u \in shaken' \/ u \in Owes(clients'[c])
    BY <1>1
  <1>6. \A h \in Groups : \A u \in Of(h)' \ Of(h) : u \in Owes(clients'[c])
    BY <1>1
  <1>7. InGroup(clients'[c]) => clients'[c].overtaken = clients[c].overtaken
    BY <1>1
  <1> QED BY <1>1, <1>3, <1>4, <1>5, <1>6, <1>7, RolesOfOne

\* Steps that change no table
LEMMA LinkedStill ==
    ASSUME RoleInv, UNCHANGED tables
    PROVE  Linked' /\ \A g \in Groups : Of(g)' = Of(g) /\ groups'[g] = groups[g]
  BY DEF RoleInv, Linked, Rows, Of, tables

LEMMA GroupRequest ==
    ASSUME DirectoryOK, NEW c \in Clients, InGroup(clients[c])
    PROVE  /\ clients[c] \in GroupReq
           /\ clients[c].group \in Groups /\ clients[c].idp \in Idps
           /\ clients[c].toSync \subseteq Users /\ clients[c].touched \subseteq Users
  BY Phases DEF InGroup, DirectoryOK, GroupReq, GroupRec

LEMMA RolesSetMembers ==
    ASSUME DirectoryOK, RoleInv, DirectoryOK', NEW c \in Clients,
           NEW U \in SUBSET Users, SetMembers(c, U)
    PROVE  RoleInv'
  <1> DEFINE req == clients[c]
  <1>0. req.phase = "change" /\ req.kind \in {"post", "put", "patch"}
    BY DEF SetMembers, Changing
  <1>1. req \in GroupReq /\ req.group \in Groups
    BY <1>0, GroupRequest DEF InGroup
  <1>2. PICK g \in Groups : g = req.group
    BY <1>1
  <1> DEFINE V == req.toSync \cup U \cup (IF req.kind = "patch" THEN Of(g) ELSE {})
  <1> DEFINE W == req.touched \cup Moved(g, U)
  <1> DEFINE p == IF req.kind = "patch" THEN "change" ELSE "sync"
  <1>3. PICK r : r = [[[req EXCEPT !.toSync = V] EXCEPT !.touched = W] EXCEPT !.phase = p]
    OBVIOUS
  <1>4. clients' = [clients EXCEPT ![c] = r]
    BY <1>2, <1>3 DEF SetMembers, DirectoryOK
  <1>5. r \in Client /\ clients'[c] = r
    BY <1>4 DEF DirectoryOK
  <1>6. r.phase = p /\ r.kind = req.kind /\ r.toSync = V /\ r.touched = W
        /\ r.now = req.now /\ r.overtaken = req.overtaken
    <2> HIDE DEF V, W, p
    <2> QED BY <1>1, <1>3 DEF GroupReq, GroupRec
  <1>7. UNCHANGED <<users, idps, tokens, groups, shaken>> /\ members' = WithMembers(g, U)
        /\ Referable(g, U)
    BY <1>2 DEF SetMembers
  <1>8. Of(g)' = U /\ \A h \in Groups : h # g => Of(h)' = Of(h)
    BY <1>7 DEF Of, WithMembers
  <1>9. Orderly(req)
    BY DEF RoleInv
  <1>10. Orderly(r)
    BY <1>0, <1>6, <1>9 DEF Orderly, Moved
  <1>11. Noticed(c)' /\ Fresh(c)'
    BY <1>0, <1>5, <1>6, <1>9 DEF Noticed, Fresh, Orderly
  <1>12. ASSUME NEW u \in Owes(req) PROVE u \in Owes(r)
    BY <1>0, <1>6, <1>9 DEF Owes, Orderly
  <1>13. Linked'
    BY <1>7 DEF RoleInv, Linked, WithMembers, Referable, Rows
  <1>14. ASSUME NEW u \in Users, u \in Moved(g, U) PROVE
            \/ u \in Owes(r)
            \/ req.kind # "patch" /\ u \in Of(g) \ req.toSync
    BY <1>0, <1>6, <1>14 DEF Owes, Moved
  <1>15. ASSUME NEW u \in Of(g)' \ Of(g) PROVE u \in Owes(r)
    BY <1>8, <1>14 DEF Moved
  <1>16. InGroup(req)
    BY <1>0 DEF InGroup
  <1>17. \A u \in Users :
             \/ u \in Of(g) /\ u \in Of(g)' /\ groups'[g] = groups[g]
             \/ u \notin Of(g) /\ u \notin Of(g)'
             \/ u \in shaken' \/ u \in Owes(r)
             \/ /\ clients[c].phase = "change" /\ clients[c].kind # "patch"
                /\ u \in Of(g) \ clients[c].toSync
    BY <1>0, <1>7, <1>8, <1>14 DEF Moved
  <1> HIDE DEF V, W, p
  <1> QED BY <1>2, <1>4, <1>5, <1>6, <1>7, <1>8, <1>10, <1>11, <1>12, <1>13, <1>15, <1>16,
             <1>17, RolesMove

LEMMA RolesMember ==
    ASSUME DirectoryOK, RoleInv, DirectoryOK', NEW c \in Clients,
           NEW x \in Users, AddMember(c, x) \/ RemoveMember(c, x)
    PROVE  RoleInv'
  <1> DEFINE req == clients[c]
  <1>0. req.phase = "change" /\ req.kind = "patch"
    BY DEF AddMember, RemoveMember, Changing
  <1>1. req \in GroupReq /\ req.group \in Groups
    BY <1>0, GroupRequest DEF InGroup
  <1>2. PICK g \in Groups : g = req.group
    BY <1>1
  <1>3. PICK U \in {Of(g) \cup {x}, Of(g) \ {x}} :
          /\ Of(g)' = U /\ UNCHANGED <<users, idps, tokens, groups, shaken>>
          /\ clients' = [clients EXCEPT ![c].toSync = @ \cup {x},
                                        ![c].touched = @ \cup Moved(g, U)]
          /\ members' = IF x \in U THEN members \cup {<<g, x>>} ELSE members \ {<<g, x>>}
          /\ x \in U => groups[g] # None /\ users[x] # None
    <2>1. CASE AddMember(c, x)
      <3>1. Of(g)' = Of(g) \cup {x} /\ members' = members \cup {<<g, x>>}
        BY <1>2, <2>1 DEF AddMember, Of
      <3> QED BY <1>2, <2>1, <3>1 DEF AddMember, Referable
    <2>2. CASE RemoveMember(c, x)
      <3>1. Of(g)' = Of(g) \ {x} /\ members' = members \ {<<g, x>>}
        BY <1>2, <2>2 DEF RemoveMember, Of
      <3> QED BY <1>2, <2>2, <3>1 DEF RemoveMember
    <2> QED BY <2>1, <2>2
  <1> DEFINE V == req.toSync \cup {x}
  <1> DEFINE W == req.touched \cup Moved(g, U)
  <1>4. PICK r : r = [[req EXCEPT !.toSync = V] EXCEPT !.touched = W]
    OBVIOUS
  <1>5. clients' = [clients EXCEPT ![c] = r]
    BY <1>3, <1>4 DEF DirectoryOK
  <1>6. r \in Client /\ clients'[c] = r
    BY <1>5 DEF DirectoryOK
  <1>7. r.phase = "change" /\ r.kind = "patch" /\ r.toSync = V /\ r.touched = W
        /\ r.now = req.now /\ r.overtaken = req.overtaken
    <2> HIDE DEF V, W
    <2> QED BY <1>0, <1>1, <1>4 DEF GroupReq, GroupRec
  <1>8. \A h \in Groups : h # g => Of(h)' = Of(h)
    BY <1>3 DEF Of
  <1>9. Orderly(req)
    BY DEF RoleInv
  <1>10. Moved(g, U) \subseteq {x}
    BY <1>3 DEF Moved
  <1>11. Orderly(r)
    BY <1>0, <1>7, <1>9, <1>10 DEF Orderly
  <1>12. Noticed(c)' /\ Fresh(c)'
    BY <1>6, <1>7 DEF Noticed, Fresh
  <1>13. \A u \in Owes(req) : u \in Owes(r)
    BY <1>0, <1>7 DEF Owes
  <1>14. Linked'
    <2>1. ASSUME NEW m \in members' PROVE groups'[m[1]] # None /\ users'[m[2]] # None
      BY <1>3 DEF RoleInv, Linked
    <2> QED BY <1>3, <2>1 DEF RoleInv, Linked, Rows
  <1>15. \A u \in Users : u \in Moved(g, U) => u \in Owes(r)
    BY <1>7 DEF Owes
  <1>16. \A u \in Of(g)' \ Of(g) : u \in Owes(r)
    BY <1>3, <1>15 DEF Moved
  <1>17. \A u \in Users :
             \/ u \in Of(g) /\ u \in Of(g)' /\ groups'[g] = groups[g]
             \/ u \notin Of(g) /\ u \notin Of(g)'
             \/ u \in Owes(r)
    BY <1>3, <1>15 DEF Moved
  <1>18. InGroup(req)
    BY <1>0 DEF InGroup
  <1> HIDE DEF V, W
  <1> QED BY <1>2, <1>3, <1>5, <1>6, <1>7, <1>8, <1>11, <1>12, <1>13, <1>14, <1>16, <1>17,
             <1>18, RolesMove

LEMMA RolesRename ==
    ASSUME DirectoryOK, RoleInv, DirectoryOK', NEW c \in Clients,
           NEW name \in Names, Rename(c, name)
    PROVE  RoleInv'
  <1> DEFINE req == clients[c]
  <1>1. req.phase = "change" /\ req.kind = "patch" /\ req \in GroupReq /\ req.group \in Groups
    BY GroupRequest DEF Rename, Changing, InGroup
  <1>2. PICK g \in Groups : g = req.group
    BY <1>1
  <1>3. PICK r : r = [req EXCEPT !.name = name]
    OBVIOUS
  <1>4. clients' = [clients EXCEPT ![c] = r] /\ UNCHANGED tables /\ UNCHANGED shaken
        /\ UNCHANGED <<users, idps>>
    BY <1>3 DEF Rename, tables
  <1>5. r \in Client /\ clients'[c] = r
    BY <1>4 DEF DirectoryOK
  <1>6. r.phase = "change" /\ r.kind = "patch" /\ r.toSync = req.toSync
        /\ r.touched = req.touched /\ r.now = req.now /\ r.overtaken = req.overtaken
    BY <1>1, <1>3 DEF GroupReq, GroupRec
  <1>7. Orderly(r) /\ Owes(r) = Owes(req)
    BY <1>1, <1>6 DEF RoleInv, Orderly, Owes
  <1>8. Noticed(c)' /\ Fresh(c)'
    BY <1>5, <1>6 DEF Noticed, Fresh
  <1>9. InGroup(req)
    BY <1>1 DEF InGroup
  <1> QED BY <1>2, <1>4, <1>5, <1>6, <1>7, <1>8, <1>9, LinkedStill, RolesMove

LEMMA RolesWriteGroup ==
    ASSUME DirectoryOK, RoleInv, DirectoryOK', NEW c \in Clients, WriteGroup(c)
    PROVE  RoleInv'
  <1> DEFINE req == clients[c]
  <1>1. req.phase = "change" /\ req.kind = "patch" /\ req \in GroupReq /\ req.group \in Groups
        /\ InGroup(req)
    BY GroupRequest DEF WriteGroup, Changing, InGroup
  <1>2. PICK g \in Groups : g = req.group
    BY <1>1
  <1>3. UNCHANGED <<users, idps, tokens, members>>
    BY DEF WriteGroup
  <1>4. \A h \in Groups : Of(h)' = Of(h)
    BY <1>3 DEF Of
  <1>5. Orderly(req)
    BY DEF RoleInv
  <1>6. CASE groups[g] = None
    <2>1. /\ clients' = [clients EXCEPT ![c] = NoClient]
          /\ shaken' = shaken \cup req.touched /\ UNCHANGED groups
      BY <1>2, <1>6 DEF WriteGroup, End
    <2>2. NoClient \in Client /\ ~InGroup(NoClient) /\ Orderly(NoClient)
          /\ clients'[c] = NoClient
      BY <2>1 DEF Client, NoClient, InGroup, Orderly, DirectoryOK
    <2>3. Noticed(c)' /\ Fresh(c)'
      BY <2>2 DEF Noticed, Fresh, NoClient
    <2>4. \A u \in Owes(req) : u \in shaken'
      BY <1>1, <2>1 DEF Owes
    <2>5. Linked'
      BY <1>3, <2>1 DEF RoleInv, Linked, Rows
    <2> QED BY <1>1, <1>2, <1>3, <1>4, <2>1, <2>2, <2>3, <2>4, <2>5, RolesMove
  <1>7. CASE groups[g] # None
    <2>1. PICK row : row = [groups[g] EXCEPT !.name = req.name]
      OBVIOUS
    <2>2. PICK r : r = [req EXCEPT !.phase = "sync"]
      OBVIOUS
    <2>3. /\ clients' = [clients EXCEPT ![c] = r]
          /\ groups' = [groups EXCEPT ![g] = row]
          /\ shaken' = IF groups[g].name = req.name THEN shaken
                       ELSE shaken \cup (Of(g) \ req.toSync)
      BY <1>2, <1>7, <2>1, <2>2 DEF WriteGroup
    <2>4. groups[g] \in GroupRow /\ groups \in [Groups -> GroupRow \cup {None}]
      BY <1>7 DEF DirectoryOK, TablesOK
    <2>5. row \in GroupRow /\ (groups[g].name = req.name => row = groups[g])
      BY <2>1, <2>4, <1>1 DEF GroupRow, GroupReq, GroupRec
    <2>6. groups'[g] = row /\ \A h \in Groups : h # g => groups'[h] = groups[h]
      BY <2>3, <2>4
    <2>7. r.phase = "sync" /\ r.toSync = req.toSync /\ r.now = None
          /\ r.overtaken = req.overtaken /\ r \in Client /\ clients'[c] = r
      BY <1>1, <1>5, <2>2, <2>3 DEF GroupReq, GroupRec, Orderly, DirectoryOK
    <2>8. Orderly(r) /\ Noticed(c)' /\ Fresh(c)'
      BY <2>7 DEF Orderly, Noticed, Fresh
    <2>9. \A u \in Owes(req) : u \in Owes(r)
      BY <1>1, <1>5, <2>7 DEF Owes, Orderly
    <2>10. Linked'
      <3>1. \A m \in members : groups'[m[1]] # None
        BY <2>3, <2>5, <2>6, DirectoryAssumption DEF RoleInv, Linked, DirectoryOK, TablesOK
      <3> QED BY <1>3, <3>1 DEF RoleInv, Linked, Rows
    <2>11. ASSUME NEW u \in Users PROVE
             \/ u \in Of(g) /\ u \in Of(g)' /\ groups'[g] = groups[g]
             \/ u \notin Of(g) /\ u \notin Of(g)'
             \/ u \in shaken' \/ u \in Owes(r)
      <3>1. u \in req.toSync => u \in Owes(r)
        BY <2>7 DEF Owes
      <3> QED BY <1>4, <2>3, <2>5, <2>6, <3>1
    <2>12. shaken \subseteq shaken'
      BY <2>3
    <2> QED BY <1>1, <1>2, <1>3, <1>4, <2>3, <2>6, <2>7, <2>8, <2>9, <2>10, <2>11, <2>12,
               RolesMove
  <1> QED BY <1>6, <1>7

LEMMA RolesDeleteGroup ==
    ASSUME DirectoryOK, RoleInv, DirectoryOK', NEW c \in Clients, DeleteGroup(c)
    PROVE  RoleInv'
  <1> DEFINE req == clients[c]
  <1>1. req.phase = "change" /\ req.kind = "delete" /\ req \in GroupReq /\ req.group \in Groups
        /\ InGroup(req)
    BY GroupRequest DEF DeleteGroup, Changing, InGroup
  <1>2. PICK g \in Groups : g = req.group
    BY <1>1
  <1> DEFINE W == req.touched \cup Of(g)
  <1>3. PICK r : r = [[req EXCEPT !.phase = "sync"] EXCEPT !.touched = W]
    OBVIOUS
  <1>4. /\ UNCHANGED <<users, idps, tokens, shaken>>
        /\ groups' = [groups EXCEPT ![g] = None] /\ members' = WithMembers(g, {})
        /\ clients' = [clients EXCEPT ![c] = r]
    BY <1>2, <1>3 DEF DeleteGroup, DirectoryOK
  <1>5. \A h \in Groups : h # g => Of(h)' = Of(h) /\ groups'[h] = groups[h]
    BY <1>4 DEF Of, WithMembers, DirectoryOK, TablesOK
  <1>6. Of(g)' = {}
    BY <1>4 DEF Of, WithMembers
  <1>7. Orderly(req)
    BY DEF RoleInv
  <1>8. r.phase = "sync" /\ r.toSync = req.toSync /\ r.now = None
        /\ r.overtaken = req.overtaken /\ r \in Client /\ clients'[c] = r
    <2> HIDE DEF W
    <2> QED BY <1>1, <1>3, <1>4, <1>7 DEF GroupReq, GroupRec, Orderly, DirectoryOK
  <1>9. Orderly(r) /\ Noticed(c)' /\ Fresh(c)'
    BY <1>8 DEF Orderly, Noticed, Fresh
  <1>10. Owes(req) = {}
    BY <1>1, <1>7 DEF Owes, Orderly
  <1>11. Linked'
    <2>1. ASSUME NEW m \in members' PROVE groups'[m[1]] # None /\ users'[m[2]] # None
      <3>1. m \in members /\ m[1] # g /\ m[1] \in Groups
        BY <1>4 DEF WithMembers, DirectoryOK, TablesOK
      <3> QED BY <1>4, <1>5, <3>1 DEF RoleInv, Linked
    <2> QED BY <1>4, <2>1 DEF RoleInv, Linked, Rows
  <1>12. ASSUME NEW u \in Users PROVE
             \/ u \notin Of(g) /\ u \notin Of(g)'
             \/ u \in Owes(r)
             \/ u \in Of(g) \ clients[c].toSync
    BY <1>6, <1>8 DEF Owes
  <1> HIDE DEF W
  <1> QED BY <1>1, <1>2, <1>4, <1>5, <1>6, <1>8, <1>9, <1>10, <1>11, <1>12, RolesMove

\* A request ends.
LEMMA RolesEnd ==
    ASSUME DirectoryOK, RoleInv, DirectoryOK', NEW c \in Clients,
           Abandon(c) \/ Respond(c)
    PROVE  RoleInv'
  <1> DEFINE req == clients[c]
  <1>1. UNCHANGED tables /\ clients' = [clients EXCEPT ![c] = NoClient]
        /\ UNCHANGED <<users, idps, groups, tokens, members>>
    BY DEF Abandon, Respond, End, tables
  <1>2. /\ NoClient \in Client /\ ~InGroup(NoClient) /\ Orderly(NoClient)
        /\ Owes(NoClient) = {} /\ clients'[c] = NoClient
    BY <1>1 DEF Client, NoClient, InGroup, Orderly, Owes, DirectoryOK
  <1>3. shaken \subseteq shaken' /\ \A u \in Owes(req) : u \in shaken'
    <2>1. CASE Abandon(c)
      BY <2>1 DEF Abandon, End, Owes
    <2>2. CASE Respond(c)
      BY <2>2 DEF Respond, End, Owes
    <2> QED BY <2>1, <2>2
  <1>4. CASE InGroup(req)
    <2>1. PICK g \in Groups : g = req.group
      BY <1>4, GroupRequest
    <2>2. Noticed(c)' /\ Fresh(c)'
      BY <1>2 DEF Noticed, Fresh, NoClient
    <2> QED BY <1>1, <1>2, <1>3, <1>4, <2>1, <2>2, LinkedStill, RolesMove
  <1>5. CASE ~InGroup(req)
    <2>1. \A d \in Clients : Similar(clients[d], clients'[d])
      BY <1>1, <1>2, <1>5 DEF Similar, DirectoryOK
    <2> QED BY <1>1, <1>3, <2>1, RolesOfUsers
  <1> QED BY <1>4, <1>5

LEMMA RolesEvaluate ==
    ASSUME DirectoryOK, RoleInv, DirectoryOK', NEW c \in Clients, NEW u \in Users,
           EvaluateRole(c, u)
    PROVE  RoleInv'
  <1> DEFINE req == clients[c]
  <1>1. req.phase = "sync" /\ req \in GroupReq /\ req.group \in Groups /\ InGroup(req)
        /\ req.idp \in Idps
    BY GroupRequest DEF EvaluateRole, InGroup
  <1>2. PICK g \in Groups : g = req.group
    BY <1>1
  <1>3. PICK f : f = Evaluated(u, req.idp)
    OBVIOUS
  <1>4. PICK r : r = [[req EXCEPT !.now = u] EXCEPT !.found = f]
    OBVIOUS
  <1>5. UNCHANGED tables /\ UNCHANGED <<users, idps, groups, members, shaken>>
        /\ clients' = [clients EXCEPT ![c] = r]
    BY <1>3, <1>4 DEF EvaluateRole, DirectoryOK, tables
  <1>6. r.phase = "sync" /\ r.toSync = req.toSync /\ r.now = u /\ r.found = f
        /\ r.overtaken = req.overtaken /\ r \in Client /\ clients'[c] = r
        /\ r.idp = req.idp
    BY <1>1, <1>4, <1>5 DEF GroupReq, GroupRec, DirectoryOK
  <1>7. Owes(r) = Owes(req) /\ Orderly(r)
    BY <1>1, <1>6 DEF Owes, Orderly
  <1>8. PICK i \in Idps : i = req.idp
    BY <1>1
  <1>9. Evaluated(u, i)' = Evaluated(u, i)
    BY <1>5 DEF Evaluated, DefaultRole, Rows, Of
  <1>10. Noticed(c)' /\ Fresh(c)'
    BY <1>3, <1>6, <1>8, <1>9 DEF Noticed, Fresh
  <1> QED BY <1>1, <1>2, <1>5, <1>6, <1>7, <1>10, LinkedStill, RolesMove

LEMMA RolesWriteRole ==
    ASSUME DirectoryOK, RoleInv, DirectoryOK', NEW c \in Clients, WriteRole(c)
    PROVE  RoleInv'
  <1> DEFINE req == clients[c]
  <1>1. req.phase = "sync" /\ req \in GroupReq /\ InGroup(req) /\ req.now # None
        /\ req.now \in Users
    BY GroupRequest DEF WriteRole, InGroup, GroupReq, GroupRec
  <1>2. PICK u \in Users : u = req.now
    BY <1>1
  <1> DEFINE V == req.toSync \ {u}
  <1>3. PICK r : r = [[[req EXCEPT !.toSync = V] EXCEPT !.now = None] EXCEPT !.found = None]
    OBVIOUS
  <1>4. UNCHANGED <<idps, tokens, groups, members>>
        /\ clients' = [clients EXCEPT ![c] = r]
    BY <1>2, <1>3 DEF WriteRole, DirectoryOK
  <1>5. r.phase = "sync" /\ r.toSync = V /\ r.now = None
        /\ r.overtaken = req.overtaken /\ r \in Client /\ clients'[c] = r
    <2> HIDE DEF V
    <2> QED BY <1>1, <1>3, <1>4 DEF GroupReq, GroupRec, DirectoryOK
  <1>6. \A d \in Clients : d # c => clients'[d] = clients[d]
    BY <1>4
  <1>7. Orderly(clients'[c]) /\ Noticed(c)' /\ Fresh(c)'
    BY <1>5 DEF Orderly, Noticed, Fresh
  <1>8. /\ \A g \in Groups : Of(g)' = Of(g)
        /\ \A v \in Users, i \in Idps : Evaluated(v, i)' = Evaluated(v, i)
    BY <1>4 DEF Evaluated, DefaultRole, Rows, Of
  <1>9. /\ \/ users' = users /\ users[u] = None
           \/ users[u] # None /\ users' = [users EXCEPT ![u].role = req.found]
        /\ \/ shaken' = shaken \cup {u}
           \/ /\ shaken' = shaken \ {u} /\ ~req.overtaken
              /\ users[u] # None /\ users[u].idp = req.idp
    BY <1>2 DEF WriteRole
  <1>10. \A v \in Users : v # u => users'[v] = users[v]
    BY <1>9 DEF DirectoryOK, TablesOK
  <1>11. users[u] = None <=> users'[u] = None
    <2>1. ASSUME users[u] # None PROVE [users[u] EXCEPT !.role = req.found] # None
      <3>1. req.found \in Role
        BY <1>1 DEF GroupReq
      <3>2. users[u] \in UserRow
        BY <2>1 DEF DirectoryOK, TablesOK
      <3> QED BY <3>1, <3>2, UserFields, DirectoryAssumption
    <2> QED BY <1>9, <2>1 DEF DirectoryOK, TablesOK
  <1>12. users[u] # None => users'[u].idp = users[u].idp /\ users'[u].role = req.found
    BY <1>9 DEF DirectoryOK, TablesOK, UserRow
  <1>13. \A v \in Users : /\ v \in Rows(users) <=> users[v] # None
                          /\ v \in Rows(users') <=> users'[v] # None
    BY DEF Rows, DirectoryOK, TablesOK
  <1>14. Linked'
    <2>1. ASSUME NEW m \in members PROVE users'[m[2]] # None
      <3>1. m[2] \in Users /\ users[m[2]] # None
        BY DEF RoleInv, Linked, DirectoryOK, TablesOK
      <3> QED BY <1>10, <1>11, <3>1
    <2>2. ASSUME NEW v \in Rows(users'), users'[v].idp # None
          PROVE  idps[users'[v].idp] # None
      <3>1. v \in Users
        BY DEF Rows, DirectoryOK, TablesOK
      <3>2. users[v] # None /\ users'[v].idp = users[v].idp
        BY <1>10, <1>11, <1>12, <1>13, <3>1
      <3> QED BY <1>13, <2>2, <3>1, <3>2 DEF RoleInv, Linked
    <2> QED BY <1>4, <2>1, <2>2 DEF RoleInv, Linked
  <1>15. ASSUME NEW v \in Users, v # u PROVE v \in Owes(r) <=> v \in Owes(req)
    BY <1>1, <1>5, <1>15 DEF Owes
  <1>16. req.overtaken =>
             /\ shaken \subseteq shaken'
             /\ \A v \in Owes(req) : v \in shaken' \/ v \in Owes(clients'[c])
    BY <1>5, <1>9, <1>15 DEF Owes
  <1>17. ASSUME NEW v \in Users PROVE RoleOf(v)'
    <2>1. CASE v # u
      <3> SUFFICES ASSUME users[v] # None, users[v].idp # None, ~Answered(v)'
                   PROVE  users'[v].role = Evaluated(v, users[v].idp)'
        BY <1>10, <1>13, <2>1 DEF RoleOf
      <3>1. ~Answered(v)
        BY <1>5, <1>6, <1>9, <1>15, <2>1 DEF Answered
      <3>2. PICK j \in Idps : j = users[v].idp
        BY DEF DirectoryOK, TablesOK, UserRow
      <3>3. users[v].role = Evaluated(v, j)
        BY <1>13, <3>1, <3>2 DEF RoleInv, RoleOf
      <3> QED BY <1>8, <1>10, <2>1, <3>2, <3>3
    <2>2. CASE v = u /\ users[u] # None /\ u \notin shaken'
      <3>1. ~req.overtaken /\ users[u].idp = req.idp
        BY <1>9, <2>2
      <3>2. PICK j \in Idps : j = req.idp
        BY <1>1 DEF GroupReq, GroupRec
      <3>3. req.found = Evaluated(u, j)
        BY <1>1, <1>2, <3>1, <3>2 DEF RoleInv, Fresh
      <3>4. users'[u].role = Evaluated(u, j)' /\ users'[u].idp = j
        BY <1>8, <1>12, <2>2, <3>1, <3>2, <3>3
      <3> QED BY <2>2, <3>4 DEF RoleOf
    <2>3. CASE v = u /\ (users[u] = None \/ u \in shaken')
      BY <1>11, <1>13, <2>3 DEF RoleOf, Answered
    <2> QED BY <2>1, <2>2, <2>3
  <1>18. \A g \in Groups : \A v \in Of(g)' \ Of(g) : v \in Owes(clients'[c])
    BY <1>8
  <1> HIDE DEF V
  <1> QED BY <1>1, <1>5, <1>6, <1>7, <1>14, <1>16, <1>17, <1>18, RolesOfOne

LEMMA RolesNext ==
    RoleInv /\ DirectoryOK /\ DirectoryOK' /\ [DirectoryNext]_directoryVars => RoleInv'
  <1> SUFFICES ASSUME RoleInv, DirectoryOK, DirectoryOK', [DirectoryNext]_directoryVars
               PROVE  RoleInv'
    OBVIOUS
  <1>1. ASSUME NEW c \in Clients, ClientNext(c) PROVE RoleInv'
    BY <1>1, RolesSetMembers, RolesMember, RolesRename, RolesWriteGroup, RolesDeleteGroup,
       RolesEnd, RolesEvaluate, RolesWriteRole DEF ClientNext
  <1>2. CASE UNCHANGED directoryVars
    <2>1. UNCHANGED <<users, idps, tokens, groups, members, clients, shaken>>
      BY <1>2 DEF directoryVars, tables
    <2>2. \A c \in Clients : Similar(clients[c], clients'[c])
      BY <2>1 DEF Similar
    <2> QED BY <2>1, <2>2, RolesOfUsers
  <1> QED BY <1>1, <1>2, RolesUserStep, RolesPatchStep, RolesGroupStep, RolesAdminUserStep,
             RolesAdminIdpStep, RolesLoginStep DEF DirectoryNext

LEMMA RolesHold == DirectoryOK /\ RoleInv => RoleAgrees
  <1> SUFFICES ASSUME DirectoryOK, RoleInv, NEW u \in Rows(users) \ shaken,
                      users[u].idp # None, ~Pending(u)
               PROVE  users[u].role = Evaluated(u, users[u].idp)
    BY DEF RoleAgrees
  <1>1. u \in Users
    BY DEF Rows, DirectoryOK, TablesOK
  <1>2. ASSUME NEW c \in Clients, u \in Owes(clients[c]) PROVE FALSE
    BY <1>2 DEF Owes, Pending, Busy
  <1> QED BY <1>1, <1>2 DEF RoleInv, RoleOf, Answered

\* The role of a user of a provider is what the provider's groups make it once
\* no request on them is under way: create_group(), replace_group(),
\* patch_group() and delete_group() evaluate the role of everybody whose
\* membership or whose group's name they have changed, whatever statements of
\* other requests come in between.  Excepted are the users in `shaken'.
THEOREM RolesAgree ==
    ASSUME NEW table \in [Users -> UserRow \cup {None}],
           \A u \in Users : table[u] # None /\ table[u].idp # None => table[u].role = "member"
    PROVE  DirectoryInitWith(table) /\ [][DirectoryNext]_directoryVars => []RoleAgrees
  <1>1. DirectoryInitWith(table) => DirectoryOK /\ RoleInv
    BY TypesInit, RoleInvInit
  <1>2. (DirectoryOK /\ RoleInv) /\ [DirectoryNext]_directoryVars
          => (DirectoryOK /\ RoleInv)'
    BY TypesNext, RolesNext
  <1>3. DirectoryOK /\ RoleInv => RoleAgrees
    BY RolesHold
  <1> QED BY <1>1, <1>2, <1>3, PTL

=============================================================================
