--------------------------- MODULE MessagesProofs ---------------------------
(***************************************************************************)
(* Proofs about Messages, Notifications, RateLimiter, Models and           *)
(* Conversation: billing, for any number of requests, rounds of searches   *)
(* and endpoints to fall back to; the delivery of budget events, for any   *)
(* number of loops and events; the sliding windows, for any limits,        *)
(* requests and waits for the lock; the names of models, for any names,    *)
(* built-in mappings and orders of discovery; what the web search loop     *)
(* answers, for any tools, replies and number of rounds.                   *)
(***************************************************************************)
EXTENDS Messages, Notifications, RateLimiter, Models, Conversation,
        FiniteSetTheorems, SequenceTheorems, WellFoundedInduction, TLAPS

Early == {"auth", "user", "budget", "shape", "rate", "route"}

Req == [phase : Early \cup {"call", "retry", "stream", "search", "done"},
        via : {"none", "key", "oidc"}, kind : Kinds,
        first : BOOLEAN, tries : Nat, total : Nat, searches : Nat,
        round : Nat, asked : Nat, good : BOOLEAN, here : BOOLEAN,
        status : Nat]

Recorded == [entries : Nat, tokens : [Usage -> Nat]]

TypeOK ==
    /\ req \in [Requests -> Req]
    /\ recorded \in [Requests -> Recorded]
    /\ used \in [Requests -> Nat]
    /\ unread \in [Requests -> Nat]
    /\ told \in [Requests -> SUBSET Usage]
    /\ lost \in [Requests -> SUBSET Usage]

Blank == [entries |-> 0, tokens |-> [w \in Usage |-> 0]]

\* What e records of u calls that were answered, n of them with what is not
\* JSON, and one in a stream that lost l.
Exact(e, u, n, l) ==
    \A w \in Usage : e.tokens[w] = u - n - (IF w \in l THEN 1 ELSE 0)

\* A request r for which e is recorded.  Before the end nothing is recorded, and nobody
\* but a stream outlives its client; what is owed is nothing before the first
\* call, one call for a stream, and the total in the loop of searches.
Sound(r, e, u, n, l) ==
    IF r.phase = "done"
    THEN /\ e.entries <= 1
         /\ \/ Exact(e, u, n, l)
            \/ ~r.here
            \/ r.kind = "search" /\ r.status # 200
    ELSE /\ e = Blank
         /\ r.phase # "stream" => l = {}
         /\ r.here \/ r.phase = "stream"
         /\ r.phase \in Early => r.total = 0 /\ u = 0 /\ n = 0
         /\ r.phase = "stream" => r.kind = "stream" /\ u = n + 1
         /\ r.phase = "search" => r.kind = "search"
         /\ r.phase \in {"call", "retry"} /\ r.kind # "search" => u = n
         /\ r.phase \in {"call", "retry", "search"} /\ r.kind = "search" =>
              u = r.total /\ n = 0

\* The inductive invariant
BillInv ==
    /\ TypeOK
    /\ \A q \in Requests :
         /\ Sound(req[q], recorded[q], used[q], unread[q], lost[q])
         /\ told[q] \cap lost[q] = {}

LEMMA OneRequest ==
    ASSUME NEW q \in Requests, BillInv, NEW r \in Req, NEW e \in Recorded,
           NEW u \in Nat, NEW n \in Nat, NEW l \in SUBSET Usage,
           Sound(r, e, u, n, l), told[q] \cap l = {}, UNCHANGED told,
           lost' = [lost EXCEPT ![q] = l], req' = [req EXCEPT ![q] = r],
           recorded' = [recorded EXCEPT ![q] = e],
           used' = [used EXCEPT ![q] = u], unread' = [unread EXCEPT ![q] = n]
    PROVE  BillInv'
  BY DEF BillInv, TypeOK

\* A step that records nothing and is not answered by Bedrock.
LEMMA Quiet ==
    ASSUME NEW q \in Requests, BillInv, NEW r \in Req, Move(q, r),
           UNCHANGED <<recorded, used, unread, streamVars>>,
           Sound(r, recorded[q], used[q], unread[q], lost[q])
    PROVE  BillInv'
  <1>1. /\ recorded[q] \in Recorded /\ used[q] \in Nat /\ unread[q] \in Nat
    BY DEF BillInv, TypeOK
  <1>2. /\ recorded' = [recorded EXCEPT ![q] = recorded[q]]
        /\ used' = [used EXCEPT ![q] = used[q]]
        /\ unread' = [unread EXCEPT ![q] = unread[q]]
        /\ lost' = [lost EXCEPT ![q] = lost[q]] /\ UNCHANGED told
        /\ lost[q] \in SUBSET Usage /\ told[q] \cap lost[q] = {}
    BY DEF BillInv, TypeOK, streamVars
  <1> QED BY <1>1, <1>2, OneRequest DEF Move

LEMMA Known ==
    ASSUME NEW q \in Requests, BillInv
    PROVE  /\ req[q] \in Req /\ recorded[q] \in Recorded
           /\ used[q] \in Nat /\ unread[q] \in Nat
           /\ told[q] \in SUBSET Usage /\ lost[q] \in SUBSET Usage
           /\ told[q] \cap lost[q] = {}
           /\ Sound(req[q], recorded[q], used[q], unread[q], lost[q])
  BY DEF BillInv, TypeOK

\* The answer of a request for which nothing is owed, or of a search that
\* fails.
LEMMA Answering ==
    ASSUME BillInv, NEW q \in Requests, NEW status \in Nat,
           Answer(q, status), UNCHANGED <<recorded, used, unread, streamVars>>,
           ~At(q, "done"),
           \/ used[q] = unread[q]
           \/ req[q].kind = "search" /\ status # 200
    PROVE  BillInv'
  <1> DEFINE r == [req[q] EXCEPT !.phase = "done", !.status = status]
  <1>1. r \in Req
    BY ZenonT(40), Known DEF Req
  <1>2. Sound(r, recorded[q], used[q], unread[q], lost[q])
    BY Known DEF Req, Blank, Exact, Sound, At
  <1>3. Move(q, r)
    BY DEF Answer
  <1> HIDE DEF r
  <1> QED BY <1>1, <1>2, <1>3, Quiet

\* A step to another phase in which as much is owed.
LEMMA Going ==
    ASSUME BillInv, NEW q \in Requests, NEW phase,
           Goto(q, phase), UNCHANGED <<recorded, used, unread, streamVars>>,
           \/ req[q].phase \in Early /\ phase \in Early
           \/ At(q, "call") /\ phase = "retry"
    PROVE  BillInv'
  <1> DEFINE r == [req[q] EXCEPT !.phase = phase]
  <1>1. r \in Req
    BY Known DEF Req, Early
  <1>2. Sound(r, recorded[q], used[q], unread[q], lost[q])
    BY Known DEF Req, Blank, Exact, Sound, At, Early
  <1>3. Move(q, r)
    BY DEF Goto
  <1> HIDE DEF r
  <1> QED BY <1>1, <1>2, <1>3, Quiet

LEMMA Fields ==
    ASSUME NEW r \in Req, NEW n \in Nat
    PROVE  /\ [r EXCEPT !.phase = "call", !.tries = n, !.first = FALSE] \in Req
           /\ [r EXCEPT !.phase = "done", !.status = n] \in Req
  BY DEF Req

\* The statuses of failures
Errors == BedrockErrors \cup {400}

\* Calls were answered, but with nothing that is owed for.
Balanced(u, n, q) == u - n = used[q] - unread[q]

\* A failure leads to another endpoint or is answered; the call may have been
\* answered in vain.
LEMMA Failing ==
    ASSUME BillInv, NEW q \in Requests, NEW status \in Errors,
           FailWith(q, req[q], status), UNCHANGED <<recorded, streamVars>>,
           NEW u \in Nat, NEW m \in Nat, Balanced(u, m, q),
           used' = [used EXCEPT ![q] = u], unread' = [unread EXCEPT ![q] = m],
           req[q].phase \in {"call", "retry"}
    PROVE  BillInv'
  <1> DEFINE left == req[q].tries - 1
             again == [req[q] EXCEPT !.phase = "call", !.tries = left,
                                     !.first = FALSE]
             done == [req[q] EXCEPT !.phase = "done", !.status = status]
  <1>0. /\ req[q] \in Req /\ recorded[q] \in Recorded
        /\ used[q] \in Nat /\ unread[q] \in Nat
        /\ told[q] \in SUBSET Usage /\ lost[q] \in SUBSET Usage
        /\ told[q] \cap lost[q] = {}
        /\ Sound(req[q], recorded[q], used[q], unread[q], lost[q])
    BY Known
  <1>1. /\ recorded' = [recorded EXCEPT ![q] = recorded[q]]
        /\ lost' = [lost EXCEPT ![q] = lost[q]] /\ UNCHANGED told
        /\ lost[q] \in SUBSET Usage /\ told[q] \cap lost[q] = {}
        /\ status \in Nat /\ status # 200
    BY DEF BillInv, TypeOK, Errors, BedrockErrors, streamVars
  <1>2. ASSUME NEW r \in Req, Sound(r, recorded[q], u, m, lost[q]), Move(q, r)
        PROVE  BillInv'
    BY <1>0, <1>1, <1>2, OneRequest DEF Move
  <1>3. ASSUME req[q].tries > 0, req[q].kind # "search", Move(q, again)
        PROVE  BillInv'
    <2>1. left \in Nat
      BY <1>0, <1>3 DEF Req
    <2> HIDE DEF left
    <2>2. again \in Req
      BY <1>0, <2>1, Fields
    <2>3. Sound(again, recorded[q], u, m, lost[q])
      BY <1>0, <1>3, <2>1 DEF Req, Blank, Exact, Sound, Early, Balanced
    <2> HIDE DEF again
    <2> QED BY <1>2, <1>3, <2>2, <2>3
  <1>4. ASSUME Move(q, done) PROVE BillInv'
    <2>1. done \in Req
      BY <1>0, <1>1, Fields
    <2>2. Sound(done, recorded[q], u, m, lost[q])
      BY <1>0, <1>1 DEF Req, Blank, Exact, Sound, Early, Balanced
    <2> HIDE DEF done
    <2> QED BY <1>2, <1>4, <2>1, <2>2
  <1> QED BY <1>3, <1>4 DEF FailWith

\* The last step of a request that is recorded, with what is owed.
LEMMA Billing ==
    ASSUME BillInv, NEW q \in Requests, ~At(q, "done"),
           NEW r \in Req, r.phase = "done", Move(q, r),
           NEW known \in SUBSET Usage, NEW l \in SUBSET Usage,
           NEW t \in Nat, recorded' = Recording(q, t, known),
           \A w \in Usage : \/ w \in known /\ w \notin l
                            \/ w \notin known /\ w \in l /\ t = 1,
           told[q] \cap l = {}, UNCHANGED told, lost' = [lost EXCEPT ![q] = l],
           NEW u \in Nat, used' = [used EXCEPT ![q] = u], UNCHANGED unread,
           t + unread[q] = u
    PROVE  BillInv'
  <1> DEFINE e == [entries |-> recorded[q].entries + 1,
                   tokens |-> [w \in Usage |->
                       recorded[q].tokens[w] + IF w \in known THEN t ELSE 0]]
  <1>0. /\ req[q] \in Req /\ recorded[q] = Blank
        /\ used[q] \in Nat /\ unread[q] \in Nat
    BY Known DEF Sound, At
  <1>1. /\ e \in Recorded /\ e.entries = 1
        /\ \A w \in Usage : e.tokens[w] = IF w \in known THEN t ELSE 0
    BY <1>0 DEF Recorded, Blank
  <1>2. Sound(r, e, u, unread[q], l)
    <2>1. e.entries <= 1
      BY <1>1
    <2>2. ASSUME NEW w \in Usage
          PROVE  e.tokens[w] = u - unread[q] - (IF w \in l THEN 1 ELSE 0)
      <3>1. e.tokens[w] = IF w \in known THEN t ELSE 0
        BY <1>1
      <3> HIDE DEF e
      <3>2. CASE w \in known /\ w \notin l
        BY <1>0, <3>1, <3>2
      <3>3. CASE w \notin known /\ w \in l /\ t = 1
        BY <1>0, <3>1, <3>3
      <3> QED BY <3>2, <3>3
    <2> HIDE DEF e
    <2> QED BY <2>1, <2>2 DEF Sound, Exact
  <1>3. /\ recorded' = [recorded EXCEPT ![q] = e]
        /\ unread' = [unread EXCEPT ![q] = unread[q]]
        /\ req' = [req EXCEPT ![q] = r]
    BY DEF Recording, Move, BillInv, TypeOK
  <1>4. e \in Recorded /\ unread[q] \in Nat
    BY <1>0, <1>1
  <1> HIDE DEF e
  <1> QED BY <1>2, <1>3, <1>4, OneRequest

\* The same for a request that is no stream.
LEMMA BillingAll ==
    ASSUME BillInv, NEW q \in Requests, ~At(q, "done"), ~At(q, "stream"),
           NEW r \in Req, r.phase = "done", Move(q, r),
           NEW t \in Nat, recorded' = Recording(q, t, Usage),
           NEW u \in Nat, used' = [used EXCEPT ![q] = u],
           UNCHANGED <<unread, streamVars>>, t + unread[q] = u
    PROVE  BillInv'
  <1>1. lost[q] = {}
    BY Known DEF Sound, At
  <1>2. lost' = [lost EXCEPT ![q] = {}] /\ UNCHANGED <<told, unread>>
    BY <1>1 DEF BillInv, TypeOK, streamVars
  <1>3. {} \in SUBSET Usage /\ Usage \in SUBSET Usage
    OBVIOUS
  <1>4. /\ \A w \in Usage : \/ w \in Usage /\ w \notin {}
                            \/ w \notin Usage /\ w \in {} /\ t = 1
        /\ told[q] \cap {} = {}
    OBVIOUS
  <1> QED BY <1>2, <1>3, <1>4, Billing

\* A call that is answered, by a request that goes on.
LEMMA AnsweredOnce ==
    ASSUME BillInv, NEW q \in Requests, NEW r \in Req, Move(q, r),
           NEW u \in Nat, used' = [used EXCEPT ![q] = u],
           UNCHANGED <<recorded, unread, streamVars>>, Sound(r, recorded[q], u, unread[q], lost[q])
    PROVE  BillInv'
  <1>1. /\ recorded[q] \in Recorded /\ unread[q] \in Nat
        /\ recorded' = [recorded EXCEPT ![q] = recorded[q]]
        /\ unread' = [unread EXCEPT ![q] = unread[q]]
        /\ lost' = [lost EXCEPT ![q] = lost[q]] /\ UNCHANGED told
        /\ lost[q] \in SUBSET Usage /\ told[q] \cap lost[q] = {}
    BY DEF BillInv, TypeOK, streamVars
  <1> QED BY <1>1, OneRequest DEF Move

-----------------------------------------------------------------------------
(* Before Bedrock *)

LEMMA Unused ==
    ASSUME BillInv, NEW q \in Requests, req[q].phase \in Early
    PROVE  used[q] = unread[q] /\ ~At(q, "done")
  BY Known DEF Sound, At, Early

LEMMA EarlyStep ==
    ASSUME BillInv, NEW q \in Requests,
           CheckUser(q) \/ CheckBudget(q) \/ CheckShape(q) \/ CheckRate(q)
    PROVE  BillInv'
  <1>1. req[q].phase \in Early /\ UNCHANGED <<recorded, used, unread, streamVars>>
    BY DEF CheckUser, CheckBudget, CheckShape, CheckRate, At, Early
  <1>2. PICK status \in {403, 429}, phase \in Early :
           Goto(q, phase) \/ Answer(q, status)
    BY DEF CheckUser, CheckBudget, CheckShape, CheckRate, Early
  <1> QED BY <1>1, <1>2, Unused, Going, Answering

LEMMA AuthenticateStep ==
    ASSUME BillInv, NEW q \in Requests, Authenticate(q) PROVE BillInv'
  <1> DEFINE r(phase, via) == [req[q] EXCEPT !.phase = phase, !.via = via]
  <1>1. /\ At(q, "auth") /\ req[q].phase \in Early
        /\ UNCHANGED <<recorded, used, unread, streamVars>>
    BY DEF Authenticate, At, Early
  <1>2. \/ \E status \in {401, 403} : Answer(q, status)
        \/ Move(q, r("budget", "key"))
        \/ Move(q, r("user", "oidc"))
    BY DEF Authenticate
  <1>3. ASSUME NEW phase \in Early, NEW via \in {"key", "oidc"},
               Move(q, r(phase, via))
        PROVE  BillInv'
    <2>1. r(phase, via) \in Req
      BY ZenonT(40), Known DEF Req, Early
    <2>2. Sound(r(phase, via), recorded[q], used[q], unread[q], lost[q])
      BY <1>1, Known DEF Req, Sound, At, Early
    <2> HIDE DEF r
    <2> QED BY <1>1, <1>3, <2>1, <2>2, Quiet
  <1>4. "budget" \in Early /\ "user" \in Early
    BY DEF Early
  <1> HIDE DEF r
  <1> QED BY <1>1, <1>2, <1>3, <1>4, Unused, Answering

LEMMA RouteStep ==
    ASSUME MessagesAssumption, BillInv, NEW q \in Requests, Route(q)
    PROVE  BillInv'
  <1> DEFINE r(kind, chosen, n, round) ==
               [req[q] EXCEPT !.phase = "call", !.kind = kind,
                              !.first = chosen, !.tries = n, !.round = round]
  <1>1. /\ At(q, "route") /\ req[q].phase \in Early
        /\ UNCHANGED <<recorded, used, unread, streamVars>>
    BY DEF Route, At, Early
  <1>2. ASSUME NEW kind \in Kinds,
               NEW chosen \in BOOLEAN, NEW n \in Nat, NEW round \in Nat,
               Move(q, r(kind, chosen, n, round))
        PROVE  BillInv'
    <2>1. r(kind, chosen, n, round) \in Req
      BY ZenonT(40), Known DEF Req
    <2>2. Sound(r(kind, chosen, n, round), recorded[q], used[q], unread[q], lost[q])
      BY <1>1, Known DEF Req, Blank, Exact, Sound, At, Early
    <2> HIDE DEF r
    <2> QED BY <1>1, <1>2, <2>1, <2>2, Quiet
  <1>3. \/ Answer(q, 400)
        \/ \E kind \in Kinds, chosen \in BOOLEAN,
              n \in Nat, round \in {0, 1} : Move(q, r(kind, chosen, n, round))
    <2>1. ASSUME NEW kind \in Kinds,
                 NEW chosen \in BOOLEAN, NEW n \in 0..MaxFallbacks
          PROVE  /\ (IF chosen THEN n ELSE 0) \in Nat
                 /\ (IF kind = "search" THEN 1 ELSE 0) \in {0, 1}
      BY DEF MessagesAssumption
    <2> QED BY ZenonT(40), <2>1 DEF Route
  <1> HIDE DEF r
  <1> QED BY <1>1, <1>2, <1>3, Unused, Answering

-----------------------------------------------------------------------------
(* Calls and streams *)

LEMMA CallStep ==
    ASSUME BillInv, NEW q \in Requests,
           CallRejected(q) \/ CallFails(q) \/ RetryFails(q) \/ Unreadable(q)
    PROVE  BillInv'
  <1>0. used[q] \in Nat /\ unread[q] \in Nat
    BY Known
  <1>1. CASE CallRejected(q)
    BY <1>1, Going DEF CallRejected
  <1>2. ASSUME NEW status \in Errors,
               FailWith(q, req[q], status), UNCHANGED <<recorded, used, unread, streamVars>>,
               req[q].phase \in {"call", "retry"}
        PROVE  BillInv'
    <2>1. /\ used' = [used EXCEPT ![q] = used[q]]
          /\ unread' = [unread EXCEPT ![q] = unread[q]]
      BY <1>2 DEF BillInv, TypeOK
    <2>2. Balanced(used[q], unread[q], q)
      BY DEF Balanced
    <2> QED BY <1>0, <1>2, <2>1, <2>2, Failing
  <1>3. CASE CallFails(q)
    BY <1>2, <1>3 DEF CallFails, At, Errors
  <1>4. CASE RetryFails(q)
    <2>1. PICK status \in BedrockErrors :
            FailWith(q, req[q], IF req[q].kind = "plain" THEN 400 ELSE status)
      BY <1>4 DEF RetryFails
    <2>2. (IF req[q].kind = "plain" THEN 400 ELSE status)
            \in Errors
      BY DEF Errors
    <2> QED BY <1>2, <1>4, <2>1, <2>2 DEF RetryFails, At
  <1>5. CASE Unreadable(q)
    <2> DEFINE u == used[q] + 1
               m == unread[q] + 1
    <2>1. /\ u \in Nat /\ m \in Nat /\ Balanced(u, m, q)
          /\ used' = [used EXCEPT ![q] = u] /\ unread' = [unread EXCEPT ![q] = m]
      BY <1>0, <1>5 DEF Unreadable, Balanced
    <2>2. PICK status \in Errors : status = 502
      BY DEF Errors, BedrockErrors
    <2>3. /\ FailWith(q, req[q], status) /\ UNCHANGED <<recorded, streamVars>>
          /\ req[q].phase \in {"call", "retry"}
      BY <1>5, <2>2 DEF Unreadable
    <2> HIDE DEF u, m
    <2> QED BY <2>1, <2>3, Failing
  <1> QED BY <1>1, <1>3, <1>4, <1>5

\* The records of a request that goes on, or ends.
LEMMA Moves ==
    ASSUME NEW r \in Req, NEW n \in Nat, NEW m \in Nat
    PROVE  /\ [r EXCEPT !.phase = "done"] \in Req
           /\ [r EXCEPT !.here = FALSE] \in Req
           /\ [r EXCEPT !.here = FALSE, !.phase = "done"] \in Req
           /\ [r EXCEPT !.phase = "stream", !.status = 200] \in Req
           /\ [r EXCEPT !.phase = "done", !.status = 200] \in Req
           /\ [r EXCEPT !.total = n] \in Req
           /\ [r EXCEPT !.phase = "search", !.total = n, !.asked = m,
                        !.good = FALSE] \in Req
           /\ [r EXCEPT !.asked = n] \in Req
           /\ [r EXCEPT !.asked = n, !.good = TRUE, !.searches = m] \in Req
           /\ [r EXCEPT !.phase = "call", !.round = n] \in Req
  <1>1. /\ [r EXCEPT !.phase = "done"] \in Req
        /\ [r EXCEPT !.here = FALSE] \in Req
    BY DEF Req
  <1>7. [r EXCEPT !.here = FALSE, !.phase = "done"] \in Req
    BY DEF Req
  <1>2. [r EXCEPT !.phase = "stream", !.status = 200] \in Req
    <2>1. ASSUME NEW k \in Nat
          PROVE  [r EXCEPT !.phase = "stream", !.status = k] \in Req
      BY DEF Req
    <2> QED BY ZenonT(40), <2>1
  <1>8. [r EXCEPT !.phase = "done", !.status = 200] \in Req
    BY ZenonT(40), Fields
  <1>3. [r EXCEPT !.phase = "search", !.total = n, !.asked = m,
                  !.good = FALSE] \in Req
    BY DEF Req
  <1>4. [r EXCEPT !.total = n] \in Req /\ [r EXCEPT !.asked = n] \in Req
    BY DEF Req
  <1>5. [r EXCEPT !.asked = n, !.good = TRUE, !.searches = m] \in Req
    BY DEF Req
  <1>6. [r EXCEPT !.phase = "call", !.round = n] \in Req
    BY DEF Req
  <1> QED BY <1>1, <1>2, <1>3, <1>4, <1>5, <1>6, <1>7, <1>8

LEMMA PlainStep ==
    ASSUME BillInv, NEW q \in Requests, PlainAnswered(q) PROVE BillInv'
  <1> DEFINE r == [req[q] EXCEPT !.phase = "done", !.status = 200]
             u == used[q] + 1
  <1>1. r \in Req /\ r.phase = "done"
    <2>1. req[q] \in Req
      BY Known
    <2>2. r \in Req
      BY <2>1, Moves
    <2> QED BY <2>1, <2>2 DEF Req
  <1>2. u \in Nat /\ 1 + unread[q] = u /\ ~At(q, "done") /\ ~At(q, "stream")
    BY Known DEF Sound, PlainAnswered, At
  <1>3. /\ Move(q, r) /\ recorded' = Recording(q, 1, Usage)
        /\ used' = [used EXCEPT ![q] = u] /\ UNCHANGED <<unread, streamVars>>
    BY DEF PlainAnswered, Answer
  <1> HIDE DEF r, u
  <1> QED BY <1>1, <1>2, <1>3, BillingAll

LEMMA StreamStep ==
    ASSUME BillInv, NEW q \in Requests,
           \/ StreamBegins(q) \/ StreamUsage(q) \/ StreamSkips(q)
           \/ StreamEvent(q) \/ StreamBreaks(q) \/ StreamEnds(q)
    PROVE  BillInv'
  <1> DEFINE done == [req[q] EXCEPT !.phase = "done"]
  <1>0. /\ req[q] \in Req /\ recorded[q] \in Recorded
        /\ used[q] \in Nat /\ unread[q] \in Nat
        /\ told[q] \in SUBSET Usage /\ lost[q] \in SUBSET Usage
        /\ told[q] \cap lost[q] = {}
        /\ Sound(req[q], recorded[q], used[q], unread[q], lost[q])
    BY Known
  <1>1. CASE StreamBegins(q)
    <2> DEFINE r == [req[q] EXCEPT !.phase = "stream", !.status = 200]
    <2>1. r \in Req
      BY <1>0, Moves
    <2> DEFINE u == used[q] + 1
    <2>2. u \in Nat /\ Sound(r, recorded[q], u, unread[q], lost[q])
      BY <1>0, <1>1 DEF Req, Sound, StreamBegins, Early
    <2>3. /\ Move(q, r) /\ UNCHANGED <<recorded, unread, streamVars>>
          /\ used' = [used EXCEPT ![q] = u]
      BY <1>1 DEF StreamBegins
    <2> HIDE DEF r, u
    <2> QED BY <2>1, <2>2, <2>3, AnsweredOnce
  <1>2. ASSUME At(q, "stream"), Goto(q, "done"), ~req[q].here,
               UNCHANGED <<recorded, used, unread, streamVars>>
        PROVE  BillInv'
    <2>1. done \in Req /\ Move(q, done)
      BY <1>0, <1>2, Moves DEF Goto
    <2>2. Sound(done, recorded[q], used[q], unread[q], lost[q])
      BY <1>0, <1>2 DEF Req, Blank, Exact, Sound, At, Early
    <2> HIDE DEF done
    <2> QED BY <1>2, <2>1, <2>2, Quiet
  <1>3. CASE StreamUsage(q) \/ StreamSkips(q)
    <2>1. PICK w \in Ahead(q) :
             \/ told' = [told EXCEPT ![q] = @ \cup {w}] /\ UNCHANGED lost
             \/ lost' = [lost EXCEPT ![q] = @ \cup {w}] /\ UNCHANGED told
      BY <1>3 DEF StreamUsage, StreamSkips
    <2>2. UNCHANGED <<req, recorded, used, unread>> /\ At(q, "stream")
      BY <1>3 DEF StreamUsage, StreamSkips
    <2>3. /\ told' \in [Requests -> SUBSET Usage]
          /\ lost' \in [Requests -> SUBSET Usage]
          /\ \A p \in Requests : told'[p] \cap lost'[p] = {}
      BY <2>1 DEF Ahead, BillInv, TypeOK
    <2>4. \A p \in Requests : p # q => lost'[p] = lost[p]
      BY <2>1 DEF BillInv, TypeOK
    <2>5. ASSUME NEW p \in Requests
          PROVE  Sound(req[p], recorded[p], used[p], unread[p], lost'[p])
      BY <2>2, <2>4 DEF BillInv, Sound, At
    <2> QED BY <2>2, <2>3, <2>5 DEF BillInv, TypeOK
  <1>4. CASE (StreamBreaks(q) \/ StreamEnds(q)) /\ UNCHANGED recorded
    <2> DEFINE l == lost[q] \cup Ahead(q)
    <2>1. /\ ~req[q].here \/ recorded = Recording(q, 1, told[q])
          /\ At(q, "stream") /\ StreamOver(q)
      BY <1>4 DEF StreamBreaks, StreamEnds
    <2>2. ~req[q].here
      <3>1. recorded[q].entries # recorded[q].entries + 1
        BY <1>0 DEF Recorded
      <3>2. Recording(q, 1, told[q])[q].entries = recorded[q].entries + 1
        BY DEF Recording, BillInv, TypeOK
      <3> QED BY <2>1, <3>1, <3>2
    <2>3. done \in Req /\ Move(q, done)
      BY <1>0, <2>1, Moves DEF StreamOver, Goto
    <2>4. Sound(done, recorded[q], used[q], unread[q], l)
      BY <1>0, <2>1, <2>2 DEF Req, Blank, Sound, At
    <2>5. /\ lost' = [lost EXCEPT ![q] = l] /\ UNCHANGED told
          /\ recorded' = [recorded EXCEPT ![q] = recorded[q]]
          /\ used' = [used EXCEPT ![q] = used[q]]
          /\ unread' = [unread EXCEPT ![q] = unread[q]]
          /\ l \in SUBSET Usage /\ told[q] \cap l = {}
      BY <1>0, <1>4, <2>1 DEF StreamOver, Ahead, BillInv, TypeOK
    <2> HIDE DEF done, l
    <2> QED BY <1>0, <2>3, <2>4, <2>5, OneRequest DEF Move
  <1>5. CASE (StreamBreaks(q) \/ StreamEnds(q)) /\ recorded' = Recording(q, 1, told[q])
    <2> DEFINE l == lost[q] \cup Ahead(q)
    <2>1. At(q, "stream") /\ StreamOver(q)
      BY <1>5 DEF StreamBreaks, StreamEnds
    <2>2. done \in Req
      BY <1>0, Moves
    <2>3. done.phase = "done" /\ Move(q, done)
      BY <1>0, <2>1 DEF StreamOver, Goto, Req
    <2>4. ~At(q, "done") /\ 1 + unread[q] = used[q]
      BY <1>0, <2>1 DEF At, Sound
    <2>5. /\ lost' = [lost EXCEPT ![q] = l] /\ UNCHANGED <<told, unread>>
          /\ used' = [used EXCEPT ![q] = used[q]]
          /\ l \in SUBSET Usage /\ told[q] \cap l = {}
          /\ \A w \in Usage : \/ w \in told[q] /\ w \notin l
                              \/ w \notin told[q] /\ w \in l /\ 1 = 1
      BY <1>0, <2>1 DEF StreamOver, Ahead, BillInv, TypeOK
    <2> HIDE DEF done, l
    <2> QED BY <1>0, <1>5, <2>2, <2>3, <2>4, <2>5, Billing
  <1>6. StreamBreaks(q) => recorded' = Recording(q, 1, told[q]) \/ UNCHANGED recorded
    BY DEF StreamBreaks
  <1>7. StreamEnds(q) => recorded' = Recording(q, 1, told[q])
    BY DEF StreamEnds
  <1> QED BY <1>1, <1>2, <1>3, <1>4, <1>5, <1>6, <1>7 DEF StreamEvent

-----------------------------------------------------------------------------
(* The loop of searches *)

LEMMA FinishStep ==
    ASSUME BillInv, NEW q \in Requests, NEW r \in Req, Finish(q, r),
           ~At(q, "done"), ~At(q, "stream"), NEW u \in Nat,
           used' = [used EXCEPT ![q] = u],
           UNCHANGED <<unread, streamVars>>, r.total + unread[q] = u
    PROVE  BillInv'
  <1> DEFINE done == [r EXCEPT !.phase = "done", !.status = 200]
  <1>1. done \in Req
    BY Moves
  <1>3. done.phase = "done" /\ r.total \in Nat
    BY DEF Req
  <1>2. Move(q, done) /\ recorded' = Recording(q, r.total, Usage)
    BY DEF Finish
  <1> HIDE DEF done
  <1> QED BY <1>1, <1>2, <1>3, BillingAll

LEMMA SearchStep ==
    ASSUME MessagesAssumption, BillInv, NEW q \in Requests,
           \/ SearchAnswered(q) \/ SearchAsked(q)
           \/ SearchOne(q) \/ NextRound(q)
    PROVE  BillInv'
  <1> DEFINE total == req[q].total + 1
  <1>0. /\ req[q] \in Req /\ recorded[q] \in Recorded
        /\ used[q] \in Nat /\ unread[q] \in Nat
        /\ told[q] \in SUBSET Usage /\ lost[q] \in SUBSET Usage
        /\ told[q] \cap lost[q] = {}
        /\ Sound(req[q], recorded[q], used[q], unread[q], lost[q])
    BY Known
  <1>1. total \in Nat /\ req[q].total \in Nat
    BY <1>0 DEF Req
  <1>2. CASE SearchAnswered(q)
    <2> DEFINE r == [req[q] EXCEPT !.total = total]
               u == used[q] + 1
    <2>1. r \in Req /\ r.total = total
      <3> HIDE DEF total
      <3>1. r \in Req
        BY <1>0, <1>1, Moves
      <3> QED BY <1>0, <3>1 DEF Req
    <2>3. /\ u \in Nat /\ total + unread[q] = u
          /\ ~At(q, "done") /\ ~At(q, "stream")
      BY <1>0, <1>1, <1>2 DEF SearchAnswered, At, Sound
    <2>2. /\ Finish(q, r) /\ used' = [used EXCEPT ![q] = u]
          /\ UNCHANGED <<unread, streamVars>>
      BY <1>2 DEF SearchAnswered
    <2> HIDE DEF r, u, total
    <2> QED BY <2>1, <2>2, <2>3, FinishStep
  <1>3. CASE SearchAsked(q)
    <2>1. PICK n \in 1..MaxAsked :
            Move(q, [req[q] EXCEPT !.phase = "search", !.total = total,
                                   !.asked = n, !.good = FALSE])
      BY <1>3 DEF SearchAsked
    <2> DEFINE r == [req[q] EXCEPT !.phase = "search", !.total = total,
                                   !.asked = n, !.good = FALSE]
    <2>2. r \in Req
      <3>1. n \in Nat
        BY DEF MessagesAssumption
      <3> HIDE DEF total
      <3> QED BY <1>0, <1>1, <3>1, Moves
    <2> DEFINE u == used[q] + 1
    <2>3. u \in Nat /\ Sound(r, recorded[q], u, unread[q], lost[q])
      <3>1. /\ r.phase = "search" /\ r.kind = "search" /\ r.total = total
            /\ r.here = req[q].here
        BY <1>0, <1>3 DEF Req, SearchAsked
      <3>2. /\ recorded[q] = Blank /\ lost[q] = {}
            /\ req[q].here /\ used[q] = req[q].total /\ unread[q] = 0
        BY <1>0, <1>3 DEF Sound, SearchAsked
      <3> HIDE DEF r
      <3> QED BY <1>0, <1>1, <3>1, <3>2 DEF Sound, Early
    <2>4. /\ Move(q, r) /\ used' = [used EXCEPT ![q] = u]
          /\ UNCHANGED <<recorded, unread, streamVars>>
      BY <1>3, <2>1 DEF SearchAsked
    <2> HIDE DEF r, u
    <2> QED BY <2>2, <2>3, <2>4, AnsweredOnce
  <1>4. CASE SearchOne(q)
    <2> DEFINE n == req[q].asked - 1
               m == req[q].searches + 1
               r == [req[q] EXCEPT !.asked = n]
               g == [req[q] EXCEPT !.asked = n, !.good = TRUE, !.searches = m]
    <2>1. n \in Nat /\ m \in Nat
      BY <1>0, <1>4 DEF SearchOne, Req
    <2> HIDE DEF n, m
    <2>2. r \in Req /\ g \in Req
      BY <1>0, <2>1, Moves
    <2>3. /\ Sound(r, recorded[q], used[q], unread[q], lost[q])
          /\ Sound(g, recorded[q], used[q], unread[q], lost[q])
      BY <1>0, <2>1 DEF Sound, Req
    <2>4. /\ Move(q, r) \/ Move(q, g)
          /\ UNCHANGED <<recorded, used, unread, streamVars>>
      BY <1>4 DEF SearchOne, n, m
    <2> HIDE DEF r, g
    <2> QED BY <2>2, <2>3, <2>4, Quiet
  <1>5. CASE NextRound(q)
    <2> DEFINE n == req[q].round + 1
               r == [req[q] EXCEPT !.phase = "call", !.round = n]
    <2>1. /\ n \in Nat /\ ~At(q, "done") /\ ~At(q, "stream")
          /\ req[q].total + unread[q] = used[q]
      BY <1>0, <1>5 DEF NextRound, Req, Sound, At
    <2>2. CASE Finish(q, req[q])
      <3>1. used' = [used EXCEPT ![q] = used[q]] /\ UNCHANGED <<unread, streamVars>>
        BY <1>5 DEF NextRound, BillInv, TypeOK
      <3> QED BY <1>0, <2>1, <2>2, <3>1, FinishStep
    <2>3. CASE Move(q, r) /\ UNCHANGED recorded
      <3> HIDE DEF n
      <3>1. r \in Req
        BY ZenonT(40), <1>0, <2>1, Moves
      <3>2. Sound(r, recorded[q], used[q], unread[q], lost[q])
        BY <1>0, <1>5, <2>1 DEF Sound, Req, NextRound, At, Early
      <3>3. UNCHANGED <<used, unread, streamVars>>
        BY <1>5 DEF NextRound
      <3> HIDE DEF r
      <3> QED BY <2>3, <3>1, <3>2, <3>3, Quiet
    <2> QED BY <1>5, <2>2, <2>3 DEF NextRound
  <1> QED BY <1>2, <1>3, <1>4, <1>5

-----------------------------------------------------------------------------
(* The client, and all together *)

LEMMA GoAwayStep ==
    ASSUME BillInv, NEW q \in Requests, GoAway(q) PROVE BillInv'
  <1> DEFINE here == [req[q] EXCEPT !.here = FALSE]
             done == [req[q] EXCEPT !.here = FALSE, !.phase = "done"]
  <1>0. /\ req[q] \in Req /\ recorded[q] \in Recorded
        /\ used[q] \in Nat /\ unread[q] \in Nat
        /\ told[q] \in SUBSET Usage /\ lost[q] \in SUBSET Usage
        /\ told[q] \cap lost[q] = {}
        /\ Sound(req[q], recorded[q], used[q], unread[q], lost[q])
    BY Known
  <1>1. here \in Req /\ done \in Req
    BY <1>0, Moves
  <1>2. At(q, "stream") => Sound(here, recorded[q], used[q], unread[q], lost[q])
    BY <1>0 DEF Sound, Req, At
  <1>3. ASSUME NEW u \in Nat
        PROVE  ~At(q, "done") => Sound(done, recorded[q], u, unread[q], lost[q])
    BY <1>0 DEF Sound, Req, At, Blank
  <1>4. /\ ~At(q, "done") /\ UNCHANGED <<recorded, unread, streamVars>>
        /\ \/ At(q, "stream") /\ Move(q, here) /\ UNCHANGED used
           \/ Move(q, done) /\ UNCHANGED used
           \/ Move(q, done) /\ used' = [used EXCEPT ![q] = @ + 1]
    BY DEF GoAway
  <1> DEFINE u == used[q] + 1
  <1>5. u \in Nat /\ [used EXCEPT ![q] = @ + 1] = [used EXCEPT ![q] = u]
    BY <1>0
  <1> HIDE DEF here, done, u
  <1> QED BY <1>0, <1>1, <1>2, <1>3, <1>4, <1>5, Quiet, AnsweredOnce

LEMMA BillStep ==
    ASSUME MessagesAssumption, BillInv, [MessagesNext]_messageVars
    PROVE  BillInv'
  <1>1. ASSUME NEW q \in Requests, Handle(q) \/ GoAway(q) PROVE BillInv'
    BY <1>1, EarlyStep, AuthenticateStep, RouteStep, CallStep, PlainStep,
       StreamStep, SearchStep, GoAwayStep DEF Handle
  <1>2. CASE UNCHANGED messageVars
    BY <1>2 DEF messageVars, BillInv, TypeOK, streamVars
  <1> QED BY <1>1, <1>2 DEF MessagesNext

LEMMA BillInit == MessagesInit => BillInv
  BY DEF MessagesInit, NewReq, BillInv, TypeOK, Req, Kinds, Recorded, Blank, Sound, Early

\* What Bedrock charges for reaches the spend tracker in one entry, for any
\* number of requests, rounds, searches and fallbacks; the exceptions are those
\* that the property names (handle_streaming(), handle_non_streaming(),
\* handle_with_web_search()).
THEOREM AllBilled == MessagesSpec => []Billed
  <1>1. BillInv => Billed
    <2> SUFFICES ASSUME BillInv, NEW q \in Requests
                 PROVE  /\ recorded[q].entries <= 1
                        /\ At(q, "done") =>
                             \/ Exact(recorded[q], used[q], unread[q], lost[q])
                             \/ ~req[q].here
                             \/ req[q].kind = "search" /\ req[q].status # 200
      BY DEF Billed, Exact
    <2> QED BY Known DEF Sound, At, Blank
  <1> QED BY <1>1, BillInit, BillStep, MessagesAssumption, PTL DEF MessagesSpec

-----------------------------------------------------------------------------
(* The delivery loop *)

Row == [id : Nat \ {0}, dest : Destinations, wants : BOOLEAN, tested : BOOLEAN]

Loop == [at : {"tick", "config", "waive", "drop", "send", "mark", "dead"},
         batch : SUBSET Nat, dest : Destinations \cup {Nowhere},
         wants : BOOLEAN]

\* A loop that is to mark has sent; one that drops has a reason to.
Honest(r) ==
    /\ r.at = "mark" => Min(r.batch) \in sent
    /\ r.at = "drop" => hiccups > 0 /\ envUrl = Nowhere

\* The inductive invariant of the loops
MarkInv ==
    /\ envUrl \in Destinations \cup {Nowhere}
    /\ active \in Row \cup {NoRow} /\ draft \in Row \cup {NoRow}
    /\ saves \in Nat /\ hiccups \in Nat /\ events \in Nat
    /\ loops \in [Loops -> Loop]
    /\ \A l \in Loops : Honest(loops[l])
    /\ MarkedMeansSent

\* Only one loop moves, and what is known remains so.
LEMMA OneLoop ==
    ASSUME MarkInv, NEW l \in Loops, NEW r \in Loop,
           r.at = "mark" => Min(r.batch) \in sent',
           r.at = "drop" => hiccups' > 0 /\ envUrl = Nowhere,
           loops' = [loops EXCEPT ![l] = r],
           UNCHANGED <<events, configVars>>,
           hiccups' \in {hiccups, hiccups + 1},
           sent \subseteq sent', waived \subseteq waived',
           \A e \in marked' : \/ e \in marked \/ e \in sent' \cup waived'
                              \/ hiccups > 0 /\ envUrl = Nowhere
    PROVE  MarkInv'
  <1>1. \A k \in Loops : k # l => loops'[k] = loops[k]
    BY DEF MarkInv
  <1>2. loops'[l] = r /\ loops' \in [Loops -> Loop]
    BY DEF MarkInv
  <1>3. envUrl' = envUrl /\ hiccups' \in Nat /\ (hiccups > 0 => hiccups' > 0)
    BY DEF MarkInv, configVars
  <1>4. ASSUME NEW k \in Loops PROVE Honest(loops[k])'
    <2>1. Honest(loops[k])
      BY DEF MarkInv
    <2>2. CASE k = l
      BY <1>2, <1>3, <2>2 DEF Honest
    <2>3. CASE k # l
      BY <1>1, <1>3, <2>1, <2>3 DEF Honest
    <2> QED BY <2>2, <2>3
  <1>5. MarkedMeansSent'
    BY <1>3 DEF MarkInv, MarkedMeansSent
  <1> QED BY <1>2, <1>3, <1>4, <1>5 DEF MarkInv, configVars

LEMMA KnownLoop ==
    ASSUME MarkInv, NEW l \in Loops
    PROVE  loops[l] \in Loop /\ Honest(loops[l])
  BY DEF MarkInv

Places == {"tick", "config", "waive", "drop", "send", "mark", "dead"}

LEMMA RestingFields ==
    ASSUME NEW a \in Places, NEW b \in SUBSET Nat
    PROVE  /\ [Resting EXCEPT !.at = a, !.batch = b] \in Loop
           /\ [Resting EXCEPT !.at = a, !.batch = b].at = a
           /\ [Resting EXCEPT !.at = a] \in Loop
           /\ [Resting EXCEPT !.at = a].at = a
           /\ Resting \in Loop /\ Resting.at = "tick"
  BY DEF Loop, Resting, Places

LEMMA LoopFields ==
    ASSUME NEW r \in Loop, NEW a \in Places, NEW b \in SUBSET Nat
    PROVE  /\ [r EXCEPT !.at = a] \in Loop
           /\ [r EXCEPT !.batch = b] \in Loop
           /\ \A d \in Destinations \cup {Nowhere}, w \in BOOLEAN :
                [r EXCEPT !.at = a, !.dest = d, !.wants = w] \in Loop
  BY DEF Loop, Places

\* The rest of a batch
LEMMA RestOfBatch ==
    ASSUME MarkInv, NEW l \in Loops, NEW r \in Loop, r.at # "mark",
           r.at = "drop" => hiccups > 0 /\ envUrl = Nowhere
    PROVE  /\ Done(loops[l].batch \ {First(l)}, r) \in Loop
           /\ Done(loops[l].batch \ {First(l)}, r).at # "mark"
           /\ Done(loops[l].batch \ {First(l)}, r).at = "drop" =>
                hiccups > 0 /\ envUrl = Nowhere
  <1> DEFINE b == loops[l].batch \ {First(l)}
  <1>1. b \in SUBSET Nat
    BY KnownLoop DEF Loop
  <1> HIDE DEF b
  <1>0. "tick" \in Places
    BY DEF Places
  <1>2. Resting \in Loop /\ [r EXCEPT !.batch = b] \in Loop
    BY <1>0, <1>1, LoopFields, RestingFields
  <1>3. [r EXCEPT !.batch = b].at = r.at /\ Resting.at = "tick"
    BY DEF Loop, Resting
  <1>4. Done(b, r) \in Loop /\ Done(b, r).at # "mark"
        /\ (Done(b, r).at = "drop" => hiccups > 0 /\ envUrl = Nowhere)
    BY <1>2, <1>3 DEF Done
  <1> QED BY <1>4 DEF b

\* A step of a loop that marks nothing, unless there is a reason to.
LEMMA LoopMoves ==
    ASSUME MarkInv, NEW l \in Loops, NEW r \in Loop,
           loops' = [loops EXCEPT ![l] = r], UNCHANGED <<events, configVars>>,
           r.at # "mark", r.at = "drop" => hiccups' > 0 /\ envUrl = Nowhere,
           hiccups' \in {hiccups, hiccups + 1},
           sent' = sent, waived \subseteq waived',
           \A e \in marked' : \/ e \in marked \/ e \in sent' \cup waived'
                              \/ hiccups > 0 /\ envUrl = Nowhere
    PROVE  MarkInv'
  BY OneLoop

LEMMA FetchStep ==
    ASSUME MarkInv, NEW l \in Loops, Fetch(l) PROVE MarkInv'
  <1> DEFINE b == Oldest(Undelivered, Batch)
             r == [Resting EXCEPT !.at = "config", !.batch = b]
  <1>1. b \in SUBSET Nat
    BY DEF MarkInv, Oldest, Undelivered
  <1>2. loops' = [loops EXCEPT ![l] = r]
    BY DEF Fetch
  <1> HIDE DEF b
  <1>3. r \in Loop /\ r.at = "config"
    BY <1>1, RestingFields DEF Places
  <1> HIDE DEF r
  <1> QED BY <1>2, <1>3, LoopMoves DEF Fetch

LEMMA GoStep ==
    ASSUME MarkInv, NEW l \in Loops, NEW a \in {"waive", "drop", "send"},
           NEW d \in Destinations \cup {Nowhere}, NEW w \in BOOLEAN,
           loops' = [loops EXCEPT ![l].at = a, ![l].dest = d, ![l].wants = w],
           hiccups' \in {hiccups, hiccups + 1},
           a = "drop" => hiccups' > 0 /\ envUrl = Nowhere,
           UNCHANGED <<events, marked, sent, waived, configVars>>
    PROVE  MarkInv'
  <1> DEFINE r == [loops[l] EXCEPT !.at = a, !.dest = d, !.wants = w]
  <1>1. loops[l] \in Loop
    BY KnownLoop
  <1>2. r \in Loop
    BY <1>1, LoopFields DEF Places
  <1>3. r.at = a
    BY <1>1 DEF Loop
  <1>4. loops' = [loops EXCEPT ![l] = r]
    BY DEF MarkInv
  <1> HIDE DEF r
  <1> QED BY <1>2, <1>3, <1>4, LoopMoves

LEMMA ResolveStep ==
    ASSUME MarkInv, NEW l \in Loops, Resolve(l) \/ ResolveFails(l)
    PROVE  MarkInv'
  <1>0. /\ envUrl \in Destinations \cup {Nowhere} /\ hiccups \in Nat
        /\ active # NoRow => /\ active.dest \in Destinations \cup {Nowhere}
                             /\ active.wants \in BOOLEAN
    BY DEF MarkInv, Row
  <1>1. ASSUME NEW d \in Destinations \cup {Nowhere}, NEW w \in BOOLEAN,
               Go(l, d, w), Resolve(l)
        PROVE  MarkInv'
    <2>1. PICK a \in {"waive", "send"} :
            loops' = [loops EXCEPT ![l].at = a, ![l].dest = d, ![l].wants = w]
      BY <1>1 DEF Go
    <2> QED BY <1>1, <2>1, GoStep DEF Resolve
  <1>2. CASE Resolve(l)
    BY <1>0, <1>1, <1>2 DEF Resolve
  <1>3. CASE ResolveFails(l)
    <2>1. PICK a \in {"drop", "send"} :
            /\ loops' = [loops EXCEPT ![l].at = a, ![l].dest = envUrl,
                                      ![l].wants = TRUE]
            /\ a = "drop" => envUrl = Nowhere
      BY <1>3 DEF ResolveFails
    <2>2. hiccups' = hiccups + 1 /\ hiccups' > 0
      BY <1>0, <1>3 DEF ResolveFails
    <2> QED BY <1>0, <1>3, <2>1, <2>2, GoStep DEF ResolveFails
  <1> QED BY <1>2, <1>3

LEMMA MarkUnsentStep ==
    ASSUME MarkInv, NEW l \in Loops, MarkUnsent(l) PROVE MarkInv'
  <1> DEFINE r == Done(loops[l].batch \ {First(l)}, loops[l])
  <1>0. loops[l] \in Loop /\ Honest(loops[l]) /\ loops[l].at # "mark"
    BY KnownLoop DEF MarkUnsent
  <1>1. /\ r \in Loop /\ r.at # "mark"
        /\ r.at = "drop" => hiccups > 0 /\ envUrl = Nowhere
    BY <1>0, RestOfBatch DEF Honest
  <1>2. loops' = [loops EXCEPT ![l] = r]
    BY DEF MarkUnsent, Passed, MarkInv
  <1>3. /\ UNCHANGED <<events, hiccups, sent, configVars>>
        /\ waived \subseteq waived'
    BY DEF MarkUnsent
  <1>4. \A e \in marked' : \/ e \in marked \/ e \in waived'
                           \/ hiccups > 0 /\ envUrl = Nowhere
    BY <1>0 DEF MarkUnsent, Honest
  <1> HIDE DEF r
  <1> QED BY <1>1, <1>2, <1>3, <1>4, LoopMoves

LEMMA SendStep ==
    ASSUME MarkInv, NEW l \in Loops, Send(l) PROVE MarkInv'
  <1> DEFINE r == [loops[l] EXCEPT !.at = "mark"]
  <1>0. loops[l] \in Loop
    BY KnownLoop
  <1>1. r \in Loop
    BY <1>0, LoopFields DEF Places
  <1>2. r.at = "mark" /\ r.batch = loops[l].batch
    BY <1>0 DEF Loop
  <1>3. loops' = [loops EXCEPT ![l] = r]
    BY DEF Send, MarkInv
  <1> HIDE DEF r
  <1>4. Min(r.batch) \in sent'
    BY <1>2 DEF Send, First
  <1>5. /\ \A e \in marked' : e \in marked
        /\ sent \subseteq sent' /\ UNCHANGED <<events, waived, hiccups, configVars>>
    BY DEF Send
  <1> QED BY <1>1, <1>2, <1>3, <1>4, <1>5, OneLoop

LEMMA MarkStep ==
    ASSUME MarkInv, NEW l \in Loops, Mark(l) \/ MarkFails(l) PROVE MarkInv'
  <1> DEFINE s == [loops[l] EXCEPT !.at = "send"]
             r == Done(loops[l].batch \ {First(l)}, s)
  <1>0. loops[l] \in Loop /\ Honest(loops[l]) /\ loops[l].at = "mark"
    BY KnownLoop DEF Mark, MarkFails
  <1>1. s \in Loop
    BY <1>0, LoopFields DEF Places
  <1>2. s.at = "send"
    BY <1>0 DEF Loop
  <1>3. loops' = [loops EXCEPT ![l] = r]
    BY DEF Mark, MarkFails, MarkInv
  <1> HIDE DEF s
  <1>4. r \in Loop /\ r.at # "mark" /\ r.at # "drop"
    <2>1. r \in Loop /\ r.at # "mark"
      BY <1>1, <1>2, RestOfBatch
    <2>2. r.at # "drop"
      BY <1>1, <1>2 DEF Done, Resting, Loop
    <2> QED BY <2>1, <2>2
  <1> HIDE DEF r
  <1>5. \A e \in marked' : e \in marked \/ e \in sent
    BY <1>0 DEF Mark, MarkFails, Honest, First
  <1>6. /\ UNCHANGED <<events, sent, waived, configVars>>
        /\ hiccups' \in {hiccups, hiccups + 1}
    BY DEF Mark, MarkFails
  <1> QED BY <1>3, <1>4, <1>5, <1>6, LoopMoves

LEMMA FailStep ==
    ASSUME MarkInv, NEW l \in Loops,
           SendFails(l) \/ SendPanics(l) \/ Crash(l)
    PROVE  MarkInv'
  <1>0. loops[l] \in Loop
    BY KnownLoop
  <1>1. /\ UNCHANGED <<events, marked, sent, waived, configVars>>
        /\ hiccups' \in {hiccups, hiccups + 1}
    BY DEF SendFails, SendPanics, Crash
  <1>2. ASSUME NEW r \in Loop, r.at \notin {"mark", "drop"},
               loops' = [loops EXCEPT ![l] = r]
        PROVE  MarkInv'
    BY <1>1, <1>2, LoopMoves
  <1>3. CASE SendFails(l)
    <2> DEFINE r == Done(loops[l].batch \ {First(l)}, loops[l])
    <2>1. loops[l].at = "send"
      BY <1>3 DEF SendFails, Sending
    <2>2. r \in Loop /\ r.at # "mark"
      BY <1>0, <2>1, RestOfBatch
    <2>3. r.at # "drop"
      BY <1>0, <2>1 DEF Done, Resting, Loop
    <2>4. loops' = [loops EXCEPT ![l] = r]
      BY <1>3 DEF SendFails, Passed, MarkInv
    <2> HIDE DEF r
    <2> QED BY <1>2, <2>2, <2>3, <2>4
  <1>4. CASE SendPanics(l)
    <2> DEFINE r == [Resting EXCEPT !.at = "dead"]
    <2>1. r \in Loop /\ r.at = "dead"
      BY RestingFields DEF Places
    <2>2. loops' = [loops EXCEPT ![l] = r]
      BY <1>4 DEF SendPanics
    <2> HIDE DEF r
    <2> QED BY <1>2, <2>1, <2>2
  <1>5. CASE Crash(l)
    <2>1. Resting \in Loop /\ Resting.at = "tick"
      BY RestingFields DEF Places
    <2> QED BY <1>2, <1>5, <2>1 DEF Crash
  <1> QED BY <1>3, <1>4, <1>5

-----------------------------------------------------------------------------
(* The administrators *)

Request == [kind : {"test"}, id : Nat] \cup [kind : {"activate"}]
           \cup {NoRequest}

\* The destination was tested, or saved while a request was about another.
Tested(id) == id \in passed \cup overtaken

\* The inductive invariant of the rows: whoever has read the draft may write
\* to another one, but then that one is overtaken.
TestInv ==
    /\ saves \in Nat
    /\ active \in Row \cup {NoRow} /\ draft \in Row \cup {NoRow}
    /\ requests \in [Admins -> Request]
    /\ active # NoRow => Tested(active.id)
    /\ draft # NoRow =>
         /\ draft.tested => Tested(draft.id)
         /\ \A a \in Admins :
              /\ requests[a].kind = "test" =>
                   draft.id = requests[a].id \/ draft.id \in overtaken
              /\ requests[a].kind = "activate" => Tested(draft.id)

LEMMA NoRowIsNone == NoRow \notin Row
  <1>1. \A r \in Row : DOMAIN r = {"id", "dest", "wants", "tested"}
    BY DEF Row
  <1>2. DOMAIN NoRow = {"id"}
    BY DEF NoRow
  <1> QED BY <1>1, <1>2

\* A request that ends, and the rows it leaves.
LEMMA RequestEnds ==
    ASSUME TestInv, NEW a \in Admins, Begin(a, NoRequest)
    PROVE  /\ requests' \in [Admins -> Request]
           /\ \A b \in Admins : requests'[b] # NoRequest =>
                requests'[b] = requests[b]
           /\ requests'[a] = NoRequest
  BY DEF TestInv, Begin, Request

LEMMA SaveStep ==
    ASSUME TestInv, NEW a \in Admins, NEW dest \in Destinations,
           NEW wants \in BOOLEAN, Save(a, dest, wants)
    PROVE  TestInv'
  <1> DEFINE n == saves + 1
             row == [id |-> n, dest |-> dest, wants |-> wants, tested |-> FALSE]
  <1>1. /\ saves' = n /\ n \in Nat \ {0} /\ draft' = row
        /\ UNCHANGED <<active, requests, passed>>
        /\ overtaken \subseteq overtaken'
        /\ (\E b \in Admins : ~Free(b)) => n \in overtaken'
    BY DEF Save, TestInv
  <1>2. row \in Row /\ row.id = n /\ row.tested = FALSE
    BY <1>1 DEF Row
  <1> HIDE DEF n, row
  <1>3. ASSUME NEW b \in Admins, requests'[b].kind \in {"test", "activate"}
        PROVE  n \in overtaken'
    BY <1>1, <1>3 DEF Free
  <1> QED BY <1>1, <1>2, <1>3 DEF TestInv, Tested

LEMMA BeginStep ==
    ASSUME TestInv, NEW a \in Admins, BeginTest(a) \/ BeginActivate(a)
    PROVE  TestInv'
  <1>0. draft # NoRow /\ draft \in Row /\ draft.id \in Nat
    BY DEF TestInv, BeginTest, BeginActivate, Row
  <1>1. CASE BeginTest(a)
    <2>1. [kind |-> "test", id |-> draft.id] \in Request
      BY <1>0 DEF Request
    <2>2. requests' \in [Admins -> Request]
      BY <1>1, <2>1 DEF BeginTest, Begin, TestInv
    <2>3. \A b \in Admins : requests'[b] =
            IF b = a THEN [kind |-> "test", id |-> draft.id] ELSE requests[b]
      BY <1>1 DEF BeginTest, Begin, TestInv
    <2> QED BY <1>0, <1>1, <2>2, <2>3 DEF BeginTest, TestInv, Tested, loopVars
  <1>2. CASE BeginActivate(a)
    <2>1. requests' \in [Admins -> Request]
      BY <1>2 DEF BeginActivate, Begin, TestInv, Request
    <2>2. \A b \in Admins : requests'[b] =
            IF b = a THEN [kind |-> "activate"] ELSE requests[b]
      BY <1>2 DEF BeginActivate, Begin, TestInv
    <2> QED BY <1>0, <1>2, <2>1, <2>2 DEF BeginActivate, TestInv, Tested, loopVars
  <1> QED BY <1>1, <1>2

LEMMA EndTestStep ==
    ASSUME TestInv, NEW a \in Admins, NEW success \in BOOLEAN,
           EndTest(a, success)
    PROVE  TestInv'
  <1>0. /\ requests' \in [Admins -> Request]
        /\ \A b \in Admins : requests'[b] # NoRequest =>
                requests'[b] = requests[b]
        /\ NoRequest.kind = "none"
    BY RequestEnds DEF EndTest, NoRequest
  <1>1. /\ UNCHANGED <<active, saves, overtaken>> /\ passed \subseteq passed'
        /\ requests[a].kind = "test"
        /\ success => requests[a].id \in passed'
    BY DEF EndTest
  <1>2. CASE draft = NoRow
    BY <1>0, <1>1, <1>2 DEF EndTest, TestInv, Tested
  <1>3. CASE draft # NoRow
    <2>1. draft \in Row
      BY <1>3 DEF TestInv
    <2>2. /\ draft' \in Row /\ draft'.id = draft.id
          /\ draft'.tested = success
      BY <1>3, <2>1 DEF EndTest, Row
    <2>3. success => Tested(draft.id)'
      BY <1>1, <1>3, <2>2 DEF TestInv, Tested
    <2> QED BY <1>0, <1>1, <1>3, <2>2, <2>3 DEF TestInv, Tested
  <1> QED BY <1>2, <1>3

LEMMA EndActivateStep ==
    ASSUME TestInv, NEW a \in Admins, EndActivate(a) PROVE TestInv'
  <1>0. requests' \in [Admins -> Request]
    BY RequestEnds DEF EndActivate
  <1>1. draft # NoRow => Tested(draft.id)
    BY DEF EndActivate, TestInv
  <1> QED BY <1>0, <1>1 DEF EndActivate, TestInv, Tested

LEMMA RowsStep ==
    ASSUME TestInv, NEW a \in Admins,
           DeleteRow(a) \/ \E wants \in BOOLEAN : Categories(a, wants)
    PROVE  TestInv'
  <1>1. CASE DeleteRow(a)
    BY <1>1 DEF DeleteRow, TestInv, Tested
  <1>2. ASSUME NEW wants \in BOOLEAN, Categories(a, wants) PROVE TestInv'
    <2>1. active \in Row /\ active # NoRow
      BY <1>2 DEF Categories, TestInv
    <2>2. active' \in Row /\ active'.id = active.id
      BY <1>2, <2>1 DEF Categories, Row
    <2> QED BY <1>2, <2>1, <2>2 DEF Categories, TestInv, Tested
  <1> QED BY <1>1, <1>2

-----------------------------------------------------------------------------
(* All together *)

LEMMA NotifyMarkStep ==
    ASSUME MarkInv, TestInv, TestInv', [NotifyNext]_notifyVars PROVE MarkInv'
  <1>1. CASE NewEvent
    BY <1>1 DEF NewEvent, MarkInv, configVars, Honest, MarkedMeansSent
  <1>2. ASSUME NEW l \in Loops, LoopNext(l) PROVE MarkInv'
    BY <1>2, FetchStep, ResolveStep, MarkUnsentStep, SendStep, MarkStep,
       FailStep DEF LoopNext, LoopStep
  <1>3. ASSUME NEW a \in Admins, AdminStep(a) PROVE MarkInv'
    <2>1. UNCHANGED loopVars
      BY <1>3 DEF AdminStep, Save, BeginTest, EndTest, BeginActivate,
         EndActivate, DeleteRow, Categories
    <2> QED BY <2>1 DEF MarkInv, TestInv, loopVars, Honest, MarkedMeansSent
  <1>4. CASE UNCHANGED notifyVars
    BY <1>4 DEF notifyVars, MarkInv, Honest, MarkedMeansSent
  <1> QED BY <1>1, <1>2, <1>3, <1>4 DEF NotifyNext

LEMMA NotifyTestStep ==
    ASSUME TestInv, [NotifyNext]_notifyVars PROVE TestInv'
  <1>1. ASSUME NEW a \in Admins, AdminStep(a) PROVE TestInv'
    BY <1>1, SaveStep, BeginStep, EndTestStep, EndActivateStep, RowsStep
       DEF AdminStep
  <1>2. CASE UNCHANGED configVars
    BY <1>2 DEF configVars, TestInv, Tested
  <1>3. ASSUME NEW l \in Loops, LoopNext(l) PROVE UNCHANGED configVars
    BY <1>3 DEF LoopNext, LoopStep, Fetch, Resolve, ResolveFails, MarkUnsent,
       Send, Mark, MarkFails, SendFails, SendPanics, Crash
  <1>4. NewEvent \/ UNCHANGED notifyVars => UNCHANGED configVars
    BY DEF NewEvent, notifyVars, configVars
  <1> QED BY <1>1, <1>2, <1>3, <1>4 DEF NotifyNext

\* The slot may hold a destination that was tested and activated long ago.
LEMMA NotifyInits ==
    ASSUME NotificationsAssumption, NEW row \in Row \cup {NoRow}, NotifyInitWith(row)
    PROVE  MarkInv /\ TestInv
  <1>1. row.id \in Nat /\ (row # NoRow => row \in Row /\ row.id # 0)
    BY DEF Row, NoRow
  <1>2. Resting \in Loop /\ Resting.at = "tick"
    BY RestingFields DEF Places
  <1>3. MarkInv
    BY <1>1, <1>2 DEF NotifyInitWith, MarkInv, Honest, MarkedMeansSent,
       NotificationsAssumption
  <1>4. TestInv
    BY <1>1 DEF NotifyInitWith, TestInv, Tested, Request, NoRequest
  <1> QED BY <1>3, <1>4

LEMMA NotifyInvs ==
    ASSUME NEW row \in Row \cup {NoRow}
    PROVE  NotifyInitWith(row) /\ [][NotifyNext]_notifyVars
             => [](MarkInv /\ TestInv)
  <1>1. NotifyInitWith(row) => MarkInv /\ TestInv
    BY NotifyInits, NotificationsAssumption
  <1>2. MarkInv /\ TestInv /\ [NotifyNext]_notifyVars => (MarkInv /\ TestInv)'
    BY NotifyMarkStep, NotifyTestStep
  <1> QED BY <1>1, <1>2, PTL

\* Whatever was active long ago: an event is marked as delivered for a reason
\* (delivery_loop()), for any number of replicas, events, failures and crashes.
THEOREM MarkedForAReason ==
    ASSUME NEW row \in Row \cup {NoRow}
    PROVE  NotifyInitWith(row) /\ [][NotifyNext]_notifyVars => []MarkedMeansSent
  <1>1. MarkInv /\ TestInv => MarkedMeansSent
    BY DEF MarkInv
  <1> QED BY <1>1, NotifyInvs, PTL

\* The active destination has passed its test, or overtook another request,
\* for any number of administrators and drafts (save_notification_config(),
\* test_notification(), activate_notification()).
THEOREM ActiveIsTested ==
    ASSUME NEW row \in Row \cup {NoRow}
    PROVE  NotifyInitWith(row) /\ [][NotifyNext]_notifyVars => []ActiveWasTested
  <1>1. MarkInv /\ TestInv => ActiveWasTested
    BY DEF TestInv, Tested, ActiveWasTested
  <1> QED BY <1>1, NotifyInvs, PTL

-----------------------------------------------------------------------------
(* The sliding windows *)

\* The largest of finitely many numbers: the subsets of those above one of
\* them have a smallest one.
LEMMA MaxIn ==
    ASSUME NEW S, IsFiniteSet(S), S \subseteq Nat, S # {}
    PROVE  Max(S) \in S /\ \A y \in S : Max(S) >= y
  <1> DEFINE Above(m) == {j \in S : j >= m}
             T == {Above(m) : m \in S}
  <1>1. IsWellFoundedOn(StrictSubsetOrdering(S), SUBSET S)
    BY FS_StrictSubsetOrderingWellFounded, FS_FiniteSubsetsOfFinite
  <1>2. T \subseteq SUBSET S /\ T # {}
    OBVIOUS
  <1>3. PICK U \in T : \A V \in T : <<V, U>> \notin StrictSubsetOrdering(S)
    <2> HIDE DEF T
    <2> QED BY <1>1, <1>2, WFMin
  <1>4. PICK m \in S : U = Above(m)
    OBVIOUS
  <1>5. ASSUME NEW k \in S, k > m PROVE FALSE
    <2>1. Above(k) \in T
      OBVIOUS
    <2>2. Above(k) \subseteq U /\ m \in U /\ m \notin Above(k)
      <3>1. m \in Nat /\ k \in Nat /\ k > m
        BY <1>5
      <3>2. \A j \in S : j >= k => j >= m
        BY <3>1
      <3>3. Above(k) \subseteq Above(m)
        BY <3>2
      <3>4. m \in Above(m) /\ m \notin Above(k)
        BY <3>1
      <3> HIDE DEF Above
      <3> QED BY <1>4, <3>3, <3>4
    <2>3. Above(k) \in SUBSET S /\ U \in SUBSET S
      BY <1>2, <2>1
    <2> HIDE DEF Above, T
    <2>4. <<Above(k), U>> \in StrictSubsetOrdering(S)
      BY <2>2, <2>3 DEF StrictSubsetOrdering
    <2> QED BY <1>3, <2>1, <2>4
  <1>6. \A y \in S : m >= y
    BY <1>5
  <1> QED BY <1>6 DEF Max

-----------------------------------------------------------------------------
(* The sliding windows *)

Push == [now : Nat, turn : Nat]

RateType ==
    /\ clock \in Nat
    /\ admitted \in [Buckets -> Seq(Push)]
    /\ windows \in [Buckets -> SUBSET Nat]
    /\ \A b \in Buckets : windows[b] \subseteq DOMAIN admitted[b]

\* Nobody waits for long, and whoever is let through was asking before.
AskInv ==
    /\ asks = [a \in Askers |-> asks[a]]
    /\ \A a \in Askers :
          /\ asks[a].phase \in {"waiting", "refused"} =>
                asks[a].bucket \in Buckets /\ asks[a].now \in 0..clock
          /\ asks[a].phase = "waiting" => clock <= asks[a].now + MaxWait

\* The pushes are in the order of their turns, none of them long after its time.
OrderInv ==
    \A b \in Buckets : \A i \in DOMAIN admitted[b] :
        /\ admitted[b][i].now <= admitted[b][i].turn
        /\ admitted[b][i].turn <= clock
        /\ admitted[b][i].turn <= admitted[b][i].now + MaxWait
        /\ \A j \in 1..i : admitted[b][j].turn <= admitted[b][i].turn

\* A push that did not wait is in its window for as long as it counts: no
\* request that evicts it, and no clean-up, has a time from before its minute
\* was over.
StayInv ==
    \A b \in Buckets : \A i \in DOMAIN admitted[b] :
        Late(b, i) \/ i \in windows[b] \/ clock >= admitted[b][i].now + Minute

RateInv == RateType /\ AskInv /\ OrderInv /\ StayInv /\ RateHeld /\ RefusedWhenFull

LEMMA InMinuteFinite ==
    ASSUME RateType, NEW b \in Buckets, NEW S, S \subseteq DOMAIN admitted[b]
    PROVE  IsFiniteSet(S) /\ S \subseteq Nat /\ Cardinality(S) \in Nat
  <1>1. DOMAIN admitted[b] = 1..Len(admitted[b]) /\ Len(admitted[b]) \in Nat
    BY DEF RateType
  <1>2. IsFiniteSet(1..Len(admitted[b]))
    <2>1. \A n \in Nat : IsFiniteSet(1..n)
      BY FS_Interval
    <2> QED
      BY <1>1, <2>1
  <1>3. IsFiniteSet(S)
    BY <1>1, <1>2, FS_Subset
  <1> QED BY <1>1, <1>3, FS_CardinalityType

LEMMA RateStart == ASSUME RateAssumption PROVE RateInit => RateInv
  <1> SUFFICES ASSUME RateInit PROVE RateInv
    OBVIOUS
  <1>1. \A b \in Buckets : admitted[b] = <<>> /\ windows[b] = {}
    BY DEF RateInit
  <1>2. RateType
    BY <1>1 DEF RateInit, RateType
  <1>3. AskInv /\ RefusedWhenFull
    BY DEF RateInit, AskInv, RefusedWhenFull, NotAsking
  <1>4. OrderInv /\ StayInv
    BY <1>1 DEF OrderInv, StayInv
  <1>5. RateHeld
    <2> SUFFICES ASSUME NEW b \in Buckets, NEW t \in 0..clock
                 PROVE  Cardinality({i \in InMinute(b, t) : ~Late(b, i)}) <= Limit[b]
      BY DEF RateHeld
    <2>1. {i \in InMinute(b, t) : ~Late(b, i)} = {}
      BY <1>1 DEF InMinute
    <2> QED BY <2>1, FS_EmptySet DEF RateAssumption
  <1> QED BY <1>2, <1>3, <1>4, <1>5 DEF RateInv

\* Those who were refused stay refused for the same reason.
LEMMA RefusedStill ==
    ASSUME RateInv, UNCHANGED admitted,
           \A a \in Askers : asks'[a].phase = "refused" => asks'[a] = asks[a]
    PROVE  RefusedWhenFull'
  <1>1. \A b, t : LetThroughSince(b, t)' = LetThroughSince(b, t)
    BY DEF LetThroughSince
  <1> QED BY <1>1 DEF RateInv, RefusedWhenFull

\* As long as nobody is let through, the history stays as it is.
LEMMA HeldStill ==
    ASSUME RateInv, UNCHANGED <<admitted, clock>> PROVE RateHeld' /\ OrderInv'
  BY DEF RateInv, RateHeld, OrderInv, InMinute, Late

LEMMA RateAsk ==
    ASSUME RateAssumption, RateInv, NEW a \in Askers, NEW b \in Buckets, Ask(a, b)
    PROVE  RateInv'
  <1>1. UNCHANGED <<clock, windows, admitted>>
        /\ asks' = [asks EXCEPT ![a] = [phase |-> "waiting", bucket |-> b, now |-> clock]]
    BY DEF Ask
  <1>2. RateType' /\ StayInv' /\ clock \in Nat
    BY <1>1 DEF RateInv, RateType, StayInv, Late
  <1>3. /\ \A c \in Askers \ {a} : asks'[c] = asks[c]
        /\ asks'[a] = [phase |-> "waiting", bucket |-> b, now |-> clock]
    BY <1>1 DEF RateInv, AskInv
  <1>4. AskInv'
    BY <1>1, <1>2, <1>3 DEF RateInv, AskInv, RateAssumption
  <1>5. RefusedWhenFull'
    BY <1>1, <1>3, RefusedStill
  <1> QED BY <1>1, <1>2, <1>4, <1>5, HeldStill DEF RateInv

\* What a request with the time `now' evicts, and has no need of.
LEMMA KeptStays ==
    ASSUME RateAssumption, RateInv, NEW b \in Buckets, NEW now \in 0..clock,
           NEW i \in DOMAIN admitted[b], ~Late(b, i), i \notin Kept(b, now)
    PROVE  clock >= admitted[b][i].now + Minute
  <1>1. admitted[b][i] \in Push /\ clock \in Nat
    BY DEF RateInv, RateType
  <1>2. CASE i \in windows[b]
    BY <1>1, <1>2 DEF Kept, Push, RateAssumption
  <1>3. CASE i \notin windows[b]
    BY <1>3 DEF RateInv, StayInv
  <1> QED BY <1>2, <1>3

LEMMA RateRefuse ==
    ASSUME RateAssumption, RateInv, NEW a \in Askers, Refuse(a)
    PROVE  RateInv'
  <1>a. asks[a].bucket \in Buckets /\ asks[a].now \in 0..clock /\ clock \in Nat
    BY DEF Refuse, RateInv, AskInv, RateType
  <1>0. PICK b, now, kept :
          /\ b \in Buckets /\ now \in 0..clock /\ clock \in Nat
          /\ b = asks[a].bucket /\ now = asks[a].now /\ kept = Kept(b, now)
    BY <1>a
  <1>1. /\ UNCHANGED <<clock, admitted>> /\ ~Room(kept, b)
        /\ windows' = [windows EXCEPT ![b] = kept]
        /\ asks' = [asks EXCEPT ![a] =
                      IF kept = {} THEN [phase |-> "panicked"]
                      ELSE [phase |-> "refused", bucket |-> b, now |-> now,
                            oldest |-> admitted[b][Min(kept)].now]]
    BY <1>0 DEF Refuse
  <1>2. kept \subseteq windows[b] /\ kept \subseteq DOMAIN admitted[b]
    BY <1>0 DEF Kept, RateInv, RateType
  <1>3. RateType'
    BY <1>0, <1>1, <1>2 DEF RateInv, RateType
  <1>4. StayInv'
    <2> SUFFICES ASSUME NEW c \in Buckets, NEW i \in DOMAIN admitted[c], ~Late(c, i),
                        i \notin windows'[c]
                 PROVE  clock >= admitted[c][i].now + Minute
      BY <1>1 DEF StayInv, Late
    <2>1. CASE c = b
      <3>1. windows'[b] = kept
        BY <1>0, <1>1 DEF RateInv, RateType
      <3> QED BY <1>0, <2>1, <3>1, KeptStays
    <2>2. CASE c # b
      BY <1>1, <2>2 DEF RateInv, StayInv
    <2> QED BY <2>1, <2>2
  <1>5. Cardinality(LetThroughSince(b, now)) >= Limit[b]
    <2>0. PICK S : S = LetThroughSince(b, now)
      OBVIOUS
    <2>1. kept \subseteq S
      <3> SUFFICES ASSUME NEW i \in kept PROVE i \in S
        OBVIOUS
      <3>1. i \in DOMAIN admitted[b] /\ now - admitted[b][i].now < Minute
        BY <1>0, <1>2 DEF Kept
      <3>2. admitted[b][i] \in Push
        BY <1>0, <3>1 DEF RateInv, RateType
      <3> QED BY <1>0, <2>0, <3>1, <3>2 DEF Push, RateAssumption, LetThroughSince
    <2>2. IsFiniteSet(S) /\ Cardinality(S) \in Nat /\ Cardinality(kept) \in Nat
      <3>1. S \subseteq DOMAIN admitted[b]
        BY <2>0 DEF LetThroughSince
      <3> QED BY <1>0, <1>2, <3>1, InMinuteFinite DEF RateInv
    <2>3. Cardinality(kept) <= Cardinality(S)
      BY <2>1, <2>2, FS_Subset
    <2>4. Cardinality(kept) >= Limit[b] /\ Limit[b] \in Nat
      BY <1>0, <1>1, <2>2 DEF Room, RateAssumption
    <2> QED BY <2>0, <2>2, <2>3, <2>4
  <1>6. /\ \A c \in Askers \ {a} : asks'[c] = asks[c]
        /\ \/ asks'[a].phase = "panicked"
           \/ /\ asks'[a].phase = "refused"
              /\ asks'[a].bucket = b /\ asks'[a].now = now
    BY <1>1 DEF RateInv, AskInv
  <1>7. AskInv'
    BY <1>0, <1>1, <1>6 DEF RateInv, AskInv
  <1>8. RefusedWhenFull'
    <2>1. \A d, u : LetThroughSince(d, u)' = LetThroughSince(d, u)
      BY <1>1 DEF LetThroughSince
    <2> QED BY <1>5, <1>6, <2>1 DEF RateInv, RefusedWhenFull
  <1> QED BY <1>1, <1>3, <1>4, <1>7, <1>8, HeldStill DEF RateInv

\* Whoever is let through without having waited finds in his window all those
\* of his minute that have not waited either.
LEMMA RateAdmit ==
    ASSUME RateAssumption, RateInv, NEW a \in Askers, Admit(a)
    PROVE  RateInv'
  <1>a. /\ asks[a].bucket \in Buckets /\ asks[a].now \in 0..clock
        /\ clock \in Nat /\ clock <= asks[a].now + MaxWait
    BY DEF Admit, RateInv, AskInv, RateType
  <1>0. PICK b, now, kept, n, push :
          /\ b \in Buckets /\ now \in 0..clock
          /\ b = asks[a].bucket /\ now = asks[a].now /\ kept = Kept(b, now)
          /\ n = Len(admitted[b]) + 1 /\ push = [now |-> now, turn |-> clock]
          /\ clock \in Nat /\ clock <= now + MaxWait
    BY <1>a
  <1>1. /\ UNCHANGED clock /\ Room(kept, b)
        /\ windows' = [windows EXCEPT ![b] = kept \cup {n}]
        /\ admitted' = [admitted EXCEPT ![b] = Append(admitted[b], push)]
        /\ asks' = [asks EXCEPT ![a] = NotAsking]
    BY <1>0 DEF Admit
  <1>2. kept \subseteq windows[b] /\ kept \subseteq DOMAIN admitted[b]
    BY <1>0 DEF Kept, RateInv, RateType
  <1>3. /\ n \in Nat \ {0} /\ DOMAIN admitted[b] = 1..(n - 1)
        /\ push \in Push /\ admitted[b] \in Seq(Push)
        /\ push.now = now /\ push.turn = clock
    BY SMTT(30), <1>0 DEF RateInv, RateType, Push
  <1>4. /\ DOMAIN admitted'[b] = 1..n /\ admitted'[b][n] = push
        /\ \A i \in 1..(n - 1) : admitted'[b][i] = admitted[b][i]
        /\ admitted'[b] \in Seq(Push)
        /\ windows'[b] = kept \cup {n}
    BY <1>0, <1>1, <1>3 DEF RateInv, RateType
  <1>5. \A c \in Buckets \ {b} : admitted'[c] = admitted[c] /\ windows'[c] = windows[c]
    BY <1>1 DEF RateInv, RateType
  <1>6. RateType'
    <2>1. admitted' \in [Buckets -> Seq(Push)]
      BY <1>1, <1>4, <1>5 DEF RateInv, RateType
    <2>2. windows'[b] \subseteq DOMAIN admitted'[b] /\ windows'[b] \subseteq Nat
      BY <1>2, <1>3, <1>4
    <2>3. windows' \in [Buckets -> SUBSET Nat]
      BY <1>1, <1>5, <2>2 DEF RateInv, RateType
    <2>4. ASSUME NEW c \in Buckets PROVE windows'[c] \subseteq DOMAIN admitted'[c]
      BY <1>5, <2>2 DEF RateInv, RateType
    <2> QED BY <1>0, <1>1, <2>1, <2>3, <2>4 DEF RateType
  <1>7. AskInv'
    <2>1. asks'[a] = NotAsking /\ \A c \in Askers \ {a} : asks'[c] = asks[c]
      BY <1>1 DEF RateInv, AskInv
    <2> QED BY <1>1, <2>1 DEF RateInv, AskInv, NotAsking
  <1>8. \A i \in 1..(n - 1) : /\ admitted[b][i] \in Push
                              /\ admitted[b][i].now <= admitted[b][i].turn
                              /\ admitted[b][i].turn <= clock
                              /\ admitted[b][i].turn <= admitted[b][i].now + MaxWait
                              /\ \A j \in 1..i : admitted[b][j].turn <= admitted[b][i].turn
    <2>1. \A i \in DOMAIN admitted[b] :
             /\ admitted[b][i] \in Push
             /\ admitted[b][i].now <= admitted[b][i].turn
             /\ admitted[b][i].turn <= clock
             /\ admitted[b][i].turn <= admitted[b][i].now + MaxWait
             /\ \A j \in 1..i : admitted[b][j].turn <= admitted[b][i].turn
      BY SMTT(30), <1>0 DEF RateInv, RateType, OrderInv
    <2> QED BY <1>3, <2>1
  <1>9. OrderInv'
    <2> SUFFICES ASSUME NEW c \in Buckets, NEW i \in DOMAIN admitted'[c]
                 PROVE  /\ admitted'[c][i].now <= admitted'[c][i].turn
                        /\ admitted'[c][i].turn <= clock
                        /\ admitted'[c][i].turn <= admitted'[c][i].now + MaxWait
                        /\ \A j \in 1..i : admitted'[c][j].turn <= admitted'[c][i].turn
      BY <1>1 DEF OrderInv
    <2>1. CASE c # b
      BY <1>5, <2>1 DEF RateInv, OrderInv
    <2>2. CASE c = b /\ i = n
      <3>1. /\ push.now <= push.turn /\ push.turn <= clock
            /\ push.turn <= push.now + MaxWait
        BY <1>0, <1>3
      <3>2. ASSUME NEW j \in 1..n PROVE admitted'[b][j].turn <= push.turn
        <4>1. CASE j = n
          BY SMTT(30), <1>0, <1>3, <1>4, <4>1
        <4>2. CASE j # n
          <5>1. j \in 1..(n - 1)
            BY <1>3, <4>2
          <5> QED BY <1>3, <1>4, <1>8, <5>1
        <4> QED BY <4>1, <4>2
      <3> QED BY <1>4, <2>2, <3>1, <3>2
    <2>3. CASE c = b /\ i # n
      <3>1. i \in 1..(n - 1) /\ \A j \in 1..i : j \in 1..(n - 1)
        BY <1>3, <1>4, <2>3
      <3> QED BY <1>4, <1>8, <2>3, <3>1
    <2> QED BY <2>1, <2>2, <2>3
  <1>10. \A i \in 1..(n - 1) : Late(b, i)' <=> Late(b, i)
    <2> SUFFICES ASSUME NEW i \in 1..(n - 1) PROVE Late(b, i)' <=> Late(b, i)
      OBVIOUS
    <2>1. admitted'[b][i] = admitted[b][i]
      BY <1>4
    <2> QED BY <2>1 DEF Late
  <1>11. StayInv'
    <2> SUFFICES ASSUME NEW c \in Buckets, NEW i \in DOMAIN admitted'[c], ~Late(c, i)',
                        i \notin windows'[c]
                 PROVE  clock >= admitted'[c][i].now + Minute
      BY <1>1 DEF StayInv
    <2>1. CASE c # b
      BY <1>5, <2>1 DEF RateInv, StayInv, Late
    <2>2. CASE c = b
      <3>1. i \in 1..(n - 1) /\ i \notin kept
        BY <1>3, <1>4, <2>2
      <3>2. ~Late(b, i) /\ admitted'[b][i] = admitted[b][i] /\ i \in DOMAIN admitted[b]
        BY <1>3, <1>4, <1>10, <2>2, <3>1
      <3>3. clock >= admitted[b][i].now + Minute
        BY <1>0, <3>1, <3>2, KeptStays
      <3> QED BY <2>2, <3>2, <3>3
    <2> QED BY <2>1, <2>2
  <1>12. RateHeld'
    <2> SUFFICES ASSUME NEW c \in Buckets, NEW t \in 0..clock
                 PROVE  Cardinality({i \in InMinute(c, t)' : ~Late(c, i)'}) <= Limit[c]
      BY <1>1 DEF RateHeld
    <2>1. CASE c # b
      BY <1>5, <2>1 DEF RateInv, RateHeld, InMinute, Late
    <2> DEFINE Old == {i \in InMinute(b, t) : ~Late(b, i)}
               New == {i \in InMinute(b, t)' : ~Late(b, i)'}
    <2>2. Cardinality(Old) <= Limit[b]
      BY <1>0 DEF RateInv, RateHeld
    <2>0. ASSUME NEW i \in 1..(n - 1) PROVE i \in New <=> i \in Old
      <3>1. admitted'[b][i] = admitted[b][i] /\ (Late(b, i)' <=> Late(b, i))
            /\ i \in DOMAIN admitted[b] /\ i \in DOMAIN admitted'[b]
        BY <1>3, <1>4, <1>10
      <3> QED BY <3>1 DEF InMinute
    <2>3. /\ New \subseteq Old \cup {n} /\ New \subseteq 1..n /\ Old \subseteq 1..(n - 1)
      <3>1. New \subseteq 1..n /\ Old \subseteq 1..(n - 1)
        BY <1>3, <1>4 DEF InMinute
      <3> HIDE DEF Old, New
      <3> QED BY <1>3, <2>0, <3>1
    <2>4. CASE c = b /\ n \notin New
      <3>1. New \subseteq Old
        BY <2>3, <2>4
      <3>2. Old \subseteq New
        <4> HIDE DEF Old, New
        <4> QED BY <2>0, <2>3
      <3>3. New = Old
        BY <3>1, <3>2
      <3>4. Cardinality(New) <= Limit[b]
        <4> HIDE DEF Old, New
        <4> QED BY <2>2, <3>3
      <3> QED BY <2>4, <3>4
    <2>5. CASE c = b /\ n \in New
      <3>1. now = clock /\ t = clock
        <4>1. n \in InMinute(b, t)' /\ ~Late(b, n)'
          BY <2>5
        <4>2. push.now \in (t - Minute + 1)..t /\ ~(push.turn > push.now)
          BY <1>4, <4>1 DEF InMinute, Late
        <4> QED BY <1>0, <1>3, <4>2 DEF RateAssumption
      <3>2. New \ {n} \subseteq kept
        <4> SUFFICES ASSUME NEW i \in New \ {n} PROVE i \in kept
          OBVIOUS
        <4>1. i \in 1..(n - 1) /\ ~Late(b, i) /\ admitted[b][i].now \in (t - Minute + 1)..t
          <5>1. i \in 1..(n - 1) /\ i \in Old
            BY <1>3, <2>0, <2>3
          <5> QED BY <5>1 DEF InMinute
        <4>2. ~(clock >= admitted[b][i].now + Minute)
          <5>1. clock \in Nat /\ Minute \in Nat
            BY <1>0 DEF RateAssumption
          <5>2. PICK m : m = admitted[b][i].now
            OBVIOUS
          <5>3. m \in (clock - Minute + 1)..clock
            BY <3>1, <4>1, <5>2
          <5> QED BY <5>1, <5>2, <5>3
        <4> QED BY <1>0, <1>3, <4>1, <4>2, KeptStays
      <3>3. IsFiniteSet(kept) /\ Cardinality(kept) \in Nat
        BY <1>0, <1>2, InMinuteFinite DEF RateInv
      <3>4. IsFiniteSet(kept \cup {n}) /\ Cardinality(kept \cup {n}) <= Cardinality(kept) + 1
        <4> HIDE DEF New
        <4>1. /\ IsFiniteSet(kept \cup {n})
              /\ \/ Cardinality(kept \cup {n}) = Cardinality(kept)
                 \/ Cardinality(kept \cup {n}) = Cardinality(kept) + 1
          BY <3>3, FS_AddElement
        <4> QED BY <3>3, <4>1
      <3>5. New \subseteq kept \cup {n}
        BY <3>2
      <3>6. Cardinality(New) <= Cardinality(kept \cup {n})
        BY <3>4, <3>5, FS_Subset
      <3>7. /\ Cardinality(New) \in Nat /\ Cardinality(kept \cup {n}) \in Nat
        BY <3>4, <3>5, FS_Subset, FS_CardinalityType
      <3>8. Cardinality(kept) < Limit[b] /\ Limit[b] \in Nat
        BY <1>0, <1>1 DEF Room, RateAssumption
      <3> HIDE DEF New
      <3>9. Cardinality(New) <= Limit[b]
        BY <3>3, <3>4, <3>6, <3>7, <3>8
      <3> QED BY <2>5, <3>9 DEF New
    <2> QED BY <2>1, <2>4, <2>5
  <1>13. RefusedWhenFull'
    <2> SUFFICES ASSUME NEW c \in Askers, asks'[c].phase = "refused"
                 PROVE  Cardinality(LetThroughSince(asks[c].bucket, asks[c].now)')
                          >= Limit[asks'[c].bucket]
      BY DEF RefusedWhenFull
    <2>1. asks'[c] = asks[c] /\ asks[c].phase = "refused"
      BY <1>1 DEF RateInv, AskInv, NotAsking
    <2>2. PICK d \in Buckets, u \in Nat : d = asks[c].bucket /\ u = asks[c].now
      BY <1>0, <2>1 DEF RateInv, AskInv
    <2> DEFINE S == LetThroughSince(d, u)
               R == LetThroughSince(d, u)'
    <2>3. Cardinality(S) >= Limit[d]
      BY <2>1, <2>2 DEF RateInv, RefusedWhenFull
    <2>4. S \subseteq R
      <3>1. CASE d # b
        BY <1>5, <3>1 DEF LetThroughSince
      <3>2. CASE d = b
        <4> SUFFICES ASSUME NEW i \in S PROVE i \in R
          OBVIOUS
        <4>1. i \in 1..(n - 1) /\ admitted[b][i].now > u - Minute
          BY <1>3, <3>2 DEF LetThroughSince
        <4>2. i \in 1..n /\ admitted'[b][i] = admitted[b][i]
          BY <1>3, <1>4, <4>1
        <4> QED BY <1>4, <3>2, <4>1, <4>2 DEF LetThroughSince
      <3> QED BY <3>1, <3>2
    <2>5. IsFiniteSet(R) /\ Cardinality(R) \in Nat /\ Cardinality(S) \in Nat
      <3>1. IsFiniteSet(R) /\ Cardinality(R) \in Nat
        <4>1. R \subseteq DOMAIN admitted'[d]
          BY DEF LetThroughSince
        <4> HIDE DEF R
        <4>2. IsFiniteSet(DOMAIN admitted'[d])
          <5>1. admitted'[d] \in Seq(Push)
            BY <1>6 DEF RateType
          <5>2. PICK m \in Nat : m = Len(admitted'[d]) /\ DOMAIN admitted'[d] = 1..m
            BY <5>1
          <5>3. IsFiniteSet(1..m)
            BY FS_Interval
          <5> QED BY <5>2, <5>3
        <4> QED BY <4>1, <4>2, FS_Subset, FS_CardinalityType
      <3> HIDE DEF R, S
      <3> QED BY <2>4, <3>1, FS_Subset, FS_CardinalityType
    <2>6. Cardinality(S) <= Cardinality(R) /\ Limit[d] \in Nat
      <3>1. Limit[d] \in Nat
        BY DEF RateAssumption
      <3> HIDE DEF R, S
      <3> QED BY <2>4, <2>5, <3>1, FS_Subset
    <2>7. Cardinality(R) >= Limit[d]
      BY <2>3, <2>5, <2>6
    <2>8. R = LetThroughSince(asks[c].bucket, asks[c].now)' /\ asks'[c].bucket = d
      BY <2>1, <2>2
    <2> HIDE DEF R
    <2> QED BY <2>7, <2>8
  <1> QED BY <1>6, <1>7, <1>9, <1>11, <1>12, <1>13 DEF RateInv

\* A window is dropped only when its last push, and so all of them, are old.
LEMMA RateCleanup ==
    ASSUME RateAssumption, RateInv, Cleanup PROVE RateInv'
  <1>1. PICK now \in 0..clock :
          windows' = [b \in Buckets |->
                        IF windows[b] # {} /\ Stale(b, now) THEN {} ELSE windows[b]]
    BY DEF Cleanup
  <1>2. UNCHANGED <<clock, asks, admitted>> /\ clock \in Nat
    BY DEF Cleanup, RateInv, RateType
  <1>3. RateType' /\ AskInv' /\ RefusedWhenFull'
    <2>1. RateType'
      BY <1>1, <1>2 DEF RateInv, RateType
    <2>2. AskInv'
      BY <1>2 DEF RateInv, AskInv
    <2> QED BY <1>2, <2>1, <2>2, RefusedStill
  <1>4. StayInv'
    <2> SUFFICES ASSUME NEW b \in Buckets, NEW i \in DOMAIN admitted[b], ~Late(b, i),
                        i \notin windows'[b]
                 PROVE  clock >= admitted[b][i].now + Minute
      BY <1>2 DEF StayInv, Late
    <2>1. CASE i \notin windows[b]
      BY <2>1 DEF RateInv, StayInv
    <2>2. CASE i \in windows[b]
      <3>1. Stale(b, now) /\ windows[b] # {}
        BY <1>1, <2>2
      <3>2. IsFiniteSet(windows[b]) /\ windows[b] \subseteq Nat
            /\ windows[b] \subseteq DOMAIN admitted[b]
        BY InMinuteFinite DEF RateInv, RateType
      <3>3. PICK k \in windows[b] : k = Max(windows[b]) /\ i <= k
        BY <2>2, <3>1, <3>2, MaxIn
      <3>4. k \in DOMAIN admitted[b] /\ i \in 1..k
            /\ admitted[b][k] \in Push /\ admitted[b][i] \in Push
        BY <3>2, <3>3 DEF RateInv, RateType
      <3>5. /\ admitted[b][i].turn <= admitted[b][k].turn
            /\ admitted[b][k].turn <= admitted[b][k].now + MaxWait
            /\ admitted[b][i].now <= admitted[b][i].turn
        BY <3>4 DEF RateInv, OrderInv
      <3>6. now - admitted[b][k].now >= 2 * Minute
        BY <3>1, <3>3 DEF Stale
      <3> QED BY <1>2, <3>4, <3>5, <3>6 DEF Push, RateAssumption
    <2> QED BY <2>1, <2>2
  <1> QED BY <1>2, <1>3, <1>4, HeldStill DEF RateInv

LEMMA RateTick ==
    ASSUME RateAssumption, RateInv, Tick PROVE RateInv'
  <1>1. UNCHANGED <<windows, asks, admitted>> /\ clock' = clock + 1 /\ clock \in Nat
    BY DEF Tick, RateInv, RateType
  <1>2. \A b \in Buckets : \A i \in DOMAIN admitted[b] : admitted[b][i] \in Push
    BY DEF RateInv, RateType
  <1>3. RateType'
    BY <1>1 DEF RateInv, RateType
  <1>4. AskInv'
    BY <1>1 DEF RateInv, AskInv, Tick, RateAssumption
  <1>5. OrderInv'
    BY <1>1, <1>2 DEF RateInv, OrderInv, Push
  <1>6. StayInv'
    BY <1>1, <1>2 DEF RateInv, StayInv, Late, Push, RateAssumption
  <1>7. RateHeld'
    <2> SUFFICES ASSUME NEW b \in Buckets, NEW t \in 0..(clock + 1)
                 PROVE  Cardinality({i \in InMinute(b, t) : ~Late(b, i)}) <= Limit[b]
      BY <1>1 DEF RateHeld, InMinute, Late
    <2>1. CASE t \in 0..clock
      BY <2>1 DEF RateInv, RateHeld
    <2>2. CASE t = clock + 1
      <3> DEFINE Old == {i \in InMinute(b, clock) : ~Late(b, i)}
                 New == {i \in InMinute(b, t) : ~Late(b, i)}
      <3>1. New \subseteq Old
        <4> SUFFICES ASSUME NEW i \in New PROVE admitted[b][i].now \in (clock - Minute + 1)..clock
          BY DEF InMinute
        <4>1. i \in DOMAIN admitted[b] /\ admitted[b][i].now \in (t - Minute + 1)..t
          BY DEF InMinute
        <4>2. admitted[b][i].now <= clock /\ admitted[b][i] \in Push
          BY <1>1, <1>2, <4>1 DEF RateInv, OrderInv, Push
        <4> QED BY <1>1, <2>2, <4>1, <4>2 DEF Push, RateAssumption
      <3>2. Cardinality(Old) <= Limit[b] /\ clock \in 0..clock
        BY <1>1 DEF RateInv, RateHeld
      <3>3. IsFiniteSet(Old) /\ Cardinality(Old) \in Nat /\ Cardinality(New) \in Nat
        <4>1. Old \subseteq DOMAIN admitted[b] /\ New \subseteq DOMAIN admitted[b]
          BY DEF InMinute
        <4> HIDE DEF Old, New
        <4> QED BY <4>1, InMinuteFinite DEF RateInv
      <3>4. Cardinality(New) <= Cardinality(Old) /\ Limit[b] \in Nat
        <4>1. Limit[b] \in Nat
          BY DEF RateAssumption
        <4> HIDE DEF Old, New
        <4> QED BY <3>1, <3>3, <4>1, FS_Subset
      <3> QED BY <3>2, <3>3, <3>4
    <2> QED BY <1>1, <2>1, <2>2
  <1>8. RefusedWhenFull'
    BY <1>1, RefusedStill
  <1> QED BY <1>3, <1>4, <1>5, <1>6, <1>7, <1>8 DEF RateInv

LEMMA RateStep == ASSUME RateAssumption PROVE RateInv /\ [RateNext]_rateVars => RateInv'
  <1> SUFFICES ASSUME RateInv, [RateNext]_rateVars PROVE RateInv'
    OBVIOUS
  <1>1. ASSUME NEW a \in Askers, Leave(a) PROVE RateInv'
    <2>1. /\ UNCHANGED <<clock, windows, admitted>> /\ asks'[a] = NotAsking
          /\ \A c \in Askers \ {a} : asks'[c] = asks[c]
          /\ asks' = [c \in Askers |-> asks'[c]]
      BY <1>1 DEF Leave, RateInv, AskInv
    <2>2. RateType' /\ StayInv'
      BY <2>1 DEF RateInv, RateType, StayInv, Late
    <2>3. AskInv'
      <3>1. clock' = clock /\ asks'[a].phase = "idle"
        BY <2>1 DEF NotAsking
      <3>2. \A c \in Askers \ {a} : asks'[c] = asks[c]
        BY <2>1
      <3>3. ASSUME NEW c \in Askers
            PROVE  /\ asks'[c].phase \in {"waiting", "refused"} =>
                         asks'[c].bucket \in Buckets /\ asks'[c].now \in 0..clock
                   /\ asks'[c].phase = "waiting" => clock <= asks'[c].now + MaxWait
        <4>1. CASE c = a
          BY <3>1, <4>1
        <4>2. CASE c # a
          BY <3>2, <4>2 DEF RateInv, AskInv
        <4> QED BY <4>1, <4>2
      <3>4. asks' = [c \in Askers |-> asks'[c]]
        BY <2>1
      <3> QED BY <3>1, <3>3, <3>4 DEF AskInv
    <2>4. RefusedWhenFull'
      BY <2>1, RefusedStill DEF NotAsking
    <2> QED BY <2>1, <2>2, <2>3, <2>4, HeldStill DEF RateInv
  <1>2. CASE UNCHANGED rateVars
    <2>1. RateType' /\ StayInv' /\ AskInv' /\ RefusedWhenFull'
      BY <1>2, RefusedStill DEF rateVars, RateInv, RateType, StayInv, Late, AskInv
    <2> QED BY <1>2, <2>1, HeldStill DEF rateVars, RateInv
  <1> QED BY <1>1, <1>2, RateAsk, RateAdmit, RateRefuse, RateCleanup, RateTick DEF RateNext

\* For every limit and window, however requests wait and overtake each other:
\* those that did not wait are never more than the limit in any minute.
THEOREM LimitHolds == RateSpec => []RateHeld
  <1>1. RateInit => RateInv
    BY RateStart, RateAssumption
  <1>2. RateInv /\ [RateNext]_rateVars => RateInv'
    BY RateStep, RateAssumption
  <1>3. RateInv => RateHeld
    BY DEF RateInv
  <1> QED BY <1>1, <1>2, <1>3, PTL DEF RateSpec

\* For every limit and window, nobody is refused who finds fewer than the
\* limit let through in the minute before him.
THEOREM NoRoomWasted == RateSpec => []RefusedWhenFull
  <1>1. RateInit => RateInv
    BY RateStart, RateAssumption
  <1>2. RateInv /\ [RateNext]_rateVars => RateInv'
    BY RateStep, RateAssumption
  <1>3. RateInv => RefusedWhenFull
    BY DEF RateInv
  <1> QED BY <1>1, <1>2, <1>3, PTL DEF RateSpec

-----------------------------------------------------------------------------
(* Models *)

MappedTo == [suffix : BedrockModel, display : Name \cup {Absent}]

\* The inductive invariant: a name is mapped to a model in whose text its own
\* occurs without the date, and the history tells if that is another version.
ModelsInv ==
    /\ profiles \in Seq(BedrockModel)
    /\ guessed \subseteq Name
    /\ mappings \in [Name -> MappedTo \cup {Absent}]
    /\ \A m \in Mapped :
          LET row == mappings[m]
          IN  /\ row \in MappedTo
              /\ row.display \in {m, Absent}
              /\ Occurs(StripDate(m), row.suffix.name)
              /\ m \notin guessed => SameVersion(m, row.suffix.name)

\* A name without its date is one, of the same version.
LEMMA Dateless ==
    ASSUME NEW m \in Name
    PROVE  /\ StripDate(m) \in Name /\ StripDate(m).family = m.family
           /\ StripDate(m).major = m.major /\ StripDate(m).minor = m.minor
           /\ StripDate(m).date = Absent /\ StripDate(StripDate(m)) = StripDate(m)
  BY DEF StripDate, Name

\* A name occurs in itself, and in what it occurs in without its date too.
LEMMA OccursInItself ==
    ASSUME ModelsAssumption, NEW m \in Name
    PROVE  Occurs(m, m)
  <1>1. m.major \in Seq(0..9) /\ (m.minor # Absent => m.minor \in Seq(0..9))
    BY DEF ModelsAssumption, Name
  <1>2. Begins(m.major, m.major) /\ (m.minor # Absent => Begins(m.minor, m.minor))
    BY <1>1 DEF Begins
  <1> QED
    BY <1>2 DEF Occurs, SameVersion, Following

LEMMA OccursStripped ==
    ASSUME ModelsAssumption, NEW m \in Name, NEW n \in Name, Occurs(m, n)
    PROVE  Occurs(StripDate(m), n)
  <1>1. n.major \in Seq(0..9) /\ (n.minor # Absent => n.minor \in Seq(0..9))
    BY DEF ModelsAssumption, Name
  <1>2. Begins(n.major, n.major) /\ (n.minor # Absent => Begins(n.minor, n.minor))
    BY <1>1 DEF Begins
  <1>3. PICK u : /\ u = StripDate(m) /\ u.family = m.family /\ u.major = m.major
                 /\ u.minor = m.minor /\ u.date = Absent
    BY Dateless
  <1>4. Occurs(u, n)
    BY <1>2, <1>3 DEF Occurs, SameVersion, Following
  <1> QED
    BY <1>3, <1>4

\* What occurs in a name occurs in one that has it whole.
LEMMA OccursFurther ==
    ASSUME NEW u \in Name, NEW v \in Name, NEW w \in Name,
           u.date = Absent, Occurs(u, v), Occurs(v, w), SameVersion(v, w)
    PROVE  Occurs(u, w)
  BY DEF Occurs, SameVersion, Following

\* A place of a list that a set of places has, when there is one.
LEMMA FirstOfPlaces ==
    ASSUME NEW places \in SUBSET Nat, places # {}
    PROVE  FirstOf(places) \in places
  <1>1. PICK k \in places : \A j \in places : ~ (<<j, k>> \in OpToRel(<, Nat))
    BY NatLessThanWellFounded, WFMin
  <1>2. \A j \in places : ~ (j < k)
    BY <1>1 DEF OpToRel
  <1>3. \A j \in places : k <= j
    BY <1>2
  <1> QED
    BY <1>3 DEF FirstOf

\* select_profile_id() returns a profile that is listed, in whose name the stem
\* occurs, or nothing.
LEMMA Selected ==
    ASSUME ModelsAssumption, NEW ids \in Seq(BedrockModel), NEW m \in Name,
           Select(ids, m) # Absent
    PROVE  Select(ids, m) \in BedrockModel /\ Occurs(m, Select(ids, m).name)
  <1> DEFINE exact == {k \in DOMAIN ids : ids[k].name = m /\ ~ids[k].tag}
             versioned == {k \in DOMAIN ids : ids[k].name = m}
             fuzzy == {k \in DOMAIN ids : Occurs(m, ids[k].name)}
  <1>1. exact \in SUBSET Nat /\ versioned \in SUBSET Nat /\ fuzzy \in SUBSET Nat
        /\ DOMAIN ids = 1..Len(ids)
    OBVIOUS
  <1>2. \A b \in BedrockModel : b.name = m => Occurs(m, b.name)
    BY OccursInItself
  <1>3. CASE exact # {}
    <2>1. FirstOf(exact) \in exact
      BY <1>1, <1>3, FirstOfPlaces
    <2>2. Select(ids, m) = ids[FirstOf(exact)]
      BY <1>3 DEF Select
    <2> QED
      BY <1>2, <2>1, <2>2
  <1>4. CASE exact = {} /\ versioned # {}
    <2>1. FirstOf(versioned) \in versioned
      BY <1>1, <1>4, FirstOfPlaces
    <2>2. Select(ids, m) = ids[FirstOf(versioned)]
      BY <1>4 DEF Select
    <2> QED
      BY <1>2, <2>1, <2>2
  <1>5. CASE exact = {} /\ versioned = {} /\ fuzzy # {}
    <2>1. FirstOf(fuzzy) \in fuzzy
      BY <1>1, <1>5, FirstOfPlaces
    <2>2. Select(ids, m) = ids[FirstOf(fuzzy)]
      BY <1>5 DEF Select
    <2> QED
      BY <2>1, <2>2
  <1>6. CASE exact = {} /\ versioned = {} /\ fuzzy = {}
    BY <1>6 DEF Select
  <1> QED
    BY <1>3, <1>4, <1>5, <1>6

LEMMA ModelsInvInit == ModelsInit => ModelsInv
  BY DEF ModelsInit, ModelsInv, Mapped

LEMMA ModelsInvNext ==
    ASSUME ModelsAssumption
    PROVE  ModelsInv /\ [ModelsNext]_modelVars => ModelsInv'
  <1> SUFFICES ASSUME ModelsInv, [ModelsNext]_modelVars
               PROVE  ModelsInv'
    OBVIOUS
  <1>1. ASSUME NEW m \in Name, Discover(m)
        PROVE  ModelsInv'
    <2>1. PICK chosen : chosen = Select(profiles, StripDate(m))
      OBVIOUS
    <2>2. /\ chosen # Absent
          /\ mappings' = [mappings EXCEPT ![m] = MappingRow(m, chosen)]
          /\ guessed' = IF SameVersion(m, chosen.name) THEN guessed \ {m}
                        ELSE guessed \cup {m}
          /\ profiles' = profiles
      BY <1>1, <2>1 DEF Discover
    <2>3. StripDate(m) \in Name
      BY Dateless
    <2>4. chosen \in BedrockModel /\ Occurs(StripDate(m), chosen.name)
      BY <2>1, <2>2, <2>3, Selected DEF ModelsInv
    <2>6. PICK row : /\ row = MappingRow(m, chosen) /\ row \in MappedTo
                     /\ row.suffix = chosen /\ row.display \in {m, Absent}
      <3>1. PICK shown : shown = IF StripDate(m) = m THEN Absent ELSE m
        OBVIOUS
      <3>2. MappingRow(m, chosen) = [suffix |-> chosen, display |-> shown]
        BY <3>1 DEF MappingRow
      <3> QED
        BY <2>4, <3>1, <3>2 DEF MappedTo
    <2>7. mappings' = [mappings EXCEPT ![m] = row]
      BY <2>2, <2>6
    <2>8. mappings' \in [Name -> MappedTo \cup {Absent}]
      BY <2>6, <2>7 DEF ModelsInv
    <2>9. guessed' \subseteq Name
      BY <2>2 DEF ModelsInv
    <2>10. ASSUME NEW n \in Name, mappings'[n] # Absent
           PROVE  /\ mappings'[n] \in MappedTo
                  /\ mappings'[n].display \in {n, Absent}
                  /\ Occurs(StripDate(n), mappings'[n].suffix.name)
                  /\ n \notin guessed' => SameVersion(n, mappings'[n].suffix.name)
      <3>1. CASE n = m
        <4>1. mappings'[n] = row
          BY <2>7, <3>1 DEF ModelsInv
        <4>2. m \notin guessed' => SameVersion(m, chosen.name)
          BY <2>2
        <4> QED
          BY <2>4, <2>6, <3>1, <4>1, <4>2
      <3>2. CASE n # m
        <4>1. mappings'[n] = mappings[n] /\ (n \in guessed' <=> n \in guessed)
          BY <2>2, <2>7, <3>2 DEF ModelsInv
        <4>2. n \in Mapped
          BY <2>10, <4>1 DEF Mapped, ModelsInv
        <4> QED
          BY <4>1, <4>2 DEF ModelsInv
      <3> QED
        BY <3>1, <3>2
    <2>11. ModelsInv'
      BY <2>2, <2>8, <2>9, <2>10 DEF ModelsInv, Mapped, SameVersion
    <2> QED
      BY <2>11
  <1>2. ASSUME NEW b \in BedrockModel, NEW k \in 1..(Len(profiles) + 1), Publish(b, k)
        PROVE  ModelsInv'
    <2>1. profiles' \in Seq(BedrockModel)
      <3>1. SubSeq(profiles, 1, k - 1) \in Seq(BedrockModel)
        BY DEF ModelsInv
      <3>2. SubSeq(profiles, k, Len(profiles)) \in Seq(BedrockModel)
        BY DEF ModelsInv
      <3>3. <<b>> \in Seq(BedrockModel)
        OBVIOUS
      <3> QED
        BY <1>2, <3>1, <3>2, <3>3 DEF Publish
    <2> QED
      BY <1>2, <2>1 DEF ModelsInv, Mapped, Publish
  <1>3. CASE UNCHANGED modelVars
    BY <1>3 DEF ModelsInv, Mapped, modelVars
  <1> QED
    BY <1>1, <1>2, <1>3 DEF ModelsNext

-----------------------------------------------------------------------------

\* A stem that matches has the version, or ends within a number.
LEMMA StemsMatch ==
    ASSUME NEW n \in Name, NEW stem \in Name, StemMatches(n, stem)
    PROVE  Occurs(stem, n) /\ (SameVersion(stem, n) \/ EndsWithin(stem, n))
  BY DEF StemMatches, Occurs, SameVersion, EndsWithin

LEMMA Requested ==
    ASSUME ModelsAssumption, ModelsInv, NEW m \in Name, NEW contended \in BOOLEAN,
           Forward(m, contended) # Absent
    PROVE  \/ SameVersion(m, Forward(m, contended).name)
           \/ /\ AskedAs(m) \cap guessed # {}
              /\ Occurs(StripDate(m), Forward(m, contended).name)
  <1>1. ASSUME NEW n \in Name, Cached(n) # Absent
        PROVE  \/ SameVersion(n, Cached(n).name)
               \/ n \in guessed /\ Occurs(StripDate(n), Cached(n).name)
    BY <1>1 DEF Cached, ModelsInv, Mapped
  <1>2. PICK stripped \in Name : /\ stripped = StripDate(m)
                                 /\ stripped.family = m.family
                                 /\ stripped.major = m.major /\ stripped.minor = m.minor
                                 /\ StripDate(stripped) = stripped
    BY Dateless
  <1>3. ASSUME WithFallback(m) # Absent
        PROVE  \/ SameVersion(m, WithFallback(m).name)
               \/ AskedAs(m) \cap guessed # {} /\ Occurs(StripDate(m), WithFallback(m).name)
    <2>1. CASE Cached(m) # Absent
      BY <1>1, <2>1 DEF WithFallback, AskedAs
    <2>2. CASE Cached(m) = Absent
      <3>1. MinorBearing(m) /\ WithFallback(m) = Cached(stripped)
        BY <1>2, <1>3, <2>2 DEF WithFallback
      <3>2. stripped \in AskedAs(m)
        BY <1>2, <3>1 DEF AskedAs
      <3>3. \/ SameVersion(stripped, Cached(stripped).name)
            \/ stripped \in guessed /\ Occurs(stripped, Cached(stripped).name)
        BY <1>1, <1>2, <1>3, <3>1
      <3> QED
        BY <1>2, <3>1, <3>2, <3>3 DEF SameVersion
    <2> QED
      BY <2>1, <2>2
  <1>4. ASSUME HardCoded(m) # Absent
        PROVE  SameVersion(m, HardCoded(m).name)
    BY <1>4 DEF HardCoded, ModelsAssumption
  <1> QED
    BY <1>3, <1>4 DEF Forward

LEMMA Responded ==
    ASSUME ModelsAssumption, ModelsInv, NEW b \in BedrockModel, NEW n \in Answered(b)
    PROVE  n \in Name /\ (Unmistaken(b) => SameVersion(n, b.name))
  <1>1. b.name \in Name
    BY DEF BedrockModel
  <1>2. CASE n = HardCodedReverse(b)
    <2> DEFINE fits == {k \in DOMAIN BuiltInReverse : StemMatches(b.name, BuiltInReverse[k][1])}
    <2>1. CASE fits = {}
      BY <1>1, <1>2, <2>1 DEF HardCodedReverse, SameVersion
    <2>2. CASE fits # {}
      <3>1. FirstOf(fits) \in fits
        <4>1. DOMAIN BuiltInReverse = 1..Len(BuiltInReverse)
          BY DEF ModelsAssumption
        <4>2. fits \in SUBSET Nat
          BY <4>1
        <4> HIDE DEF fits
        <4> QED
          BY <2>2, <4>2, FirstOfPlaces
      <3>2. PICK k \in DOMAIN BuiltInReverse : k = FirstOf(fits) /\ StemMatches(b.name, BuiltInReverse[k][1])
        BY <3>1
      <3>3. BuiltInReverse[k] \in Name \X Name /\ SameVersion(BuiltInReverse[k][1], BuiltInReverse[k][2])
        BY DEF ModelsAssumption
      <3>4. n = BuiltInReverse[k][2]
        BY <1>2, <2>2, <3>2 DEF HardCodedReverse
      <3>5. SameVersion(BuiltInReverse[k][1], b.name) \/ EndsWithin(BuiltInReverse[k][1], b.name)
        BY <1>1, <3>2, <3>3, StemsMatch
      <3>6. BuiltInReverse[k][1] \in Stems
        BY DEF Stems
      <3> QED
        BY <3>3, <3>4, <3>5, <3>6 DEF SameVersion, Unmistaken
    <2> QED
      BY <2>1, <2>2
  <1>3. CASE n \in CachedReverse(b)
    <2>1. PICK m \in Mapped : /\ n = Shown(mappings[m])
                              /\ \/ mappings[m].suffix = b
                                 \/ StemMatches(b.name, m)
                                 \/ StemMatches(b.name, mappings[m].suffix.name)
      BY <1>3 DEF CachedReverse
    <2>2. PICK row \in MappedTo : row = mappings[m]
      BY DEF ModelsInv
    <2>3. /\ m \in Name /\ row.suffix \in BedrockModel /\ row.suffix.name \in Name
          /\ row.display \in {m, Absent}
          /\ Occurs(StripDate(m), row.suffix.name)
          /\ m \notin guessed => SameVersion(m, row.suffix.name)
      BY <2>2 DEF ModelsInv, Mapped, MappedTo, BedrockModel
    <2>4. n = m \/ n = row.suffix.name
      BY <2>1, <2>2, <2>3 DEF Shown, Canonical
    <2>5. ASSUME Unmistaken(b)
          PROVE  SameVersion(n, b.name)
      <3>1. m \in Stems /\ row.suffix.name \in Stems
        BY <2>2 DEF Stems
      <3>2. CASE StemMatches(b.name, m)
        <4>1. Occurs(m, b.name) /\ SameVersion(m, b.name)
          BY <1>1, <2>3, <2>5, <3>1, <3>2, StemsMatch DEF Unmistaken
        <4>2. m \notin guessed
          BY <1>1, <2>3, <2>5, <4>1, OccursStripped DEF Unmistaken
        <4> QED
          BY <2>3, <2>4, <4>1, <4>2 DEF SameVersion
      <3>3. CASE mappings[m].suffix = b \/ StemMatches(b.name, mappings[m].suffix.name)
        <4>1. Occurs(row.suffix.name, b.name) /\ SameVersion(row.suffix.name, b.name)
          <5>1. CASE mappings[m].suffix = b
            BY <1>1, <2>2, <5>1, OccursInItself DEF SameVersion
          <5>2. CASE StemMatches(b.name, mappings[m].suffix.name)
            BY <1>1, <2>2, <2>3, <2>5, <3>1, <5>2, StemsMatch DEF Unmistaken
          <5> QED
            BY <3>3, <5>1, <5>2
        <4>2. Occurs(StripDate(m), b.name)
          BY <1>1, <2>3, <4>1, OccursFurther, Dateless
        <4>3. m \notin guessed
          BY <2>5, <4>2 DEF Unmistaken
        <4> QED
          BY <2>3, <2>4, <4>1, <4>3 DEF SameVersion
      <3> QED
        BY <2>1, <3>2, <3>3
    <2> QED
      BY <2>3, <2>4, <2>5
  <1> QED
    BY <1>2, <1>3 DEF Answered

\* What an endpoint with an override for b has: the profiles that are listed,
\* and b unless one of them covers it.
LEMMA WithOverride ==
    ASSUME NEW cri \in SUBSET BedrockModel, NEW b \in BedrockModel, ModelsAssumption
    PROVE  \E available : /\ ComputeHealthState(cri, <<b>>, Absent, FALSE) =
                                [healthy |-> TRUE, available |-> available,
                                 derived |-> available \ cri]
                          /\ available \subseteq cri \cup {b}
                          /\ cri \subseteq available
                          /\ b \in available \/ \E a \in cri : Covers(a, b)
  <1> DEFINE Body(union) ==
               [n \in 0..1 |->
                  IF n = 0 THEN cri
                  ELSE IF \E a \in union[n - 1] : Covers(a, b) THEN union[n - 1]
                  ELSE union[n - 1] \cup {b}]
             last == IF \E a \in cri : Covers(a, b) THEN cri ELSE cri \cup {b}
  <1>1. \E union : union = Body(union)
    <2> DEFINE f == [n \in 0..1 |-> IF n = 0 THEN cri ELSE last]
    <2>1. f[0] = cri
      OBVIOUS
    <2>2. \A n \in 0..1 : n # 0 => n - 1 = 0
      OBVIOUS
    <2>3. f = Body(f)
      BY <2>1, <2>2
    <2> QED
      BY <2>3
  <1>2. Len(<<b>>) = 1 /\ <<b>>[1] = b
    OBVIOUS
  <1>3. PICK union : union = Union(cri, <<b>>) /\ union = Body(union)
    <2>1. \A n \in 0..1 : n # 0 => <<b>>[n] = b
      OBVIOUS
    <2> QED
      BY <1>1, <1>2, <2>1 DEF Union
  <1>4. union[1] = last
    <2>1. union[0] = cri /\ 1 \in 0..1 /\ 1 # 0 /\ 1 - 1 = 0
      BY <1>3
    <2>2. \A n \in 0..1 :
             union[n] = IF n = 0 THEN cri
                        ELSE IF \E a \in union[n - 1] : Covers(a, b) THEN union[n - 1]
                        ELSE union[n - 1] \cup {b}
      BY <1>3
    <2>3. union[1] = IF \E a \in union[0] : Covers(a, b) THEN union[0]
                     ELSE union[0] \cup {b}
      BY <2>1, <2>2
    <2> QED
      BY <2>1, <2>3
  <1>5. cri # Absent /\ Absent # b /\ <<b>> # <<>> /\ Members(<<b>>) = {b}
    BY DEF ModelsAssumption, Members
  <1>6. ComputeHealthState(cri, <<b>>, Absent, FALSE) =
          [healthy |-> TRUE, available |-> last, derived |-> last \ cri]
    BY <1>2, <1>3, <1>4, <1>5 DEF ComputeHealthState
  <1> QED
    BY <1>6

LEMMA WhatIsListed ==
    ASSUME ModelsAssumption, ModelsInv, NEW b \in BedrockModel
    PROVE  ListsWhatIsThere(b)
  <1> DEFINE cri == Members(profiles)
             state == ComputeHealthState(cri, <<b>>, Absent, FALSE)
             listed == ListedModels({}, {[available |-> state.available,
                                          supported |-> {b} \cap Probed(state, TRUE)]})
  <1>1. cri \in SUBSET BedrockModel
    BY DEF ModelsInv, Members
  <1>2. PICK available : /\ state = [healthy |-> TRUE, available |-> available,
                                     derived |-> available \ cri]
                         /\ available \subseteq cri \cup {b}
                         /\ b \in available \/ \E a \in cri : Covers(a, b)
                         /\ cri \subseteq available
    <2> HIDE DEF cri
    <2> QED
      BY <1>1, WithOverride
  <1>3. available \subseteq BedrockModel
    BY <1>1, <1>2
  <1> DEFINE pairs == UNION {Answered(p) \X {p} : p \in available}
             capable == {b} \cap available
  <1>4. /\ \A e \in listed : \E p \in pairs :
             /\ e = [id |-> p[1], long |-> e.long, shown |-> DisplayName(p[1])]
             /\ e.long => p[2] \in capable
        /\ \A p \in pairs : p[2] \in capable =>
              [id |-> p[1], long |-> TRUE, shown |-> DisplayName(p[1])] \in listed
    <2> DEFINE c == [available |-> available, supported |-> {b} \cap available]
    <2> HIDE DEF cri, state
    <2>1. listed = ListedModels({}, {c})
      BY <1>2 DEF Probed
    <2>2. UNION {x.available : x \in {c}} = available
      OBVIOUS
    <2>3. UNION {x.available \cap x.supported : x \in {c}} = capable
      OBVIOUS
    <2>4. listed = ModelsResponse(pairs, capable)
      BY <2>1, <2>2, <2>3 DEF ListedModels
    <2> HIDE DEF listed, pairs, capable, c
    <2> DEFINE Item(p, long) == [id |-> p[1], long |-> long, shown |-> DisplayName(p[1])]
    <2>5. listed = {Item(p, FALSE) : p \in pairs}
                      \cup {Item(p, TRUE) : p \in {q \in pairs : q[2] \in capable}}
      BY <2>4 DEF ModelsResponse
    <2>6. ASSUME NEW e \in listed
          PROVE  \E p \in pairs : /\ e = Item(p, e.long)
                                  /\ e.long => p[2] \in capable
      BY <2>5
    <2>7. \A p \in pairs : p[2] \in capable => Item(p, TRUE) \in listed
      BY <2>5
    <2> QED
      BY <2>6, <2>7
  <1> HIDE DEF listed
  <1>5. ASSUME \A p \in available : Unmistaken(p), NEW e \in listed
        PROVE  \E p \in available : SameVersion(e.shown, p.name) /\ (e.long => p = b)
    <2>1. PICK q \in pairs : /\ e = [id |-> q[1], long |-> e.long, shown |-> DisplayName(q[1])]
                             /\ e.long => q[2] \in capable
      BY <1>4, <1>5
    <2>2. PICK p \in available : q[2] = p /\ q[1] \in Answered(p)
      OBVIOUS
    <2>3. q[1] \in Name /\ SameVersion(q[1], p.name)
      BY <1>3, <1>5, <2>2, Responded
    <2>4. e.shown = StripDate(q[1])
      BY <2>1 DEF DisplayName
    <2>5. SameVersion(StripDate(q[1]), p.name)
      BY <2>3 DEF StripDate, SameVersion, Name
    <2> QED
      BY <2>1, <2>2, <2>4, <2>5
  <1>6. ASSUME \A p \in available : Unmistaken(p)
        PROVE  \/ \E e \in listed : e.long /\ SameVersion(e.id, b.name)
               \/ \E p \in cri \ {b} : Covers(p, b)
    <2>1. CASE b \in available
      <3>1. PICK n : n = HardCodedReverse(b)
        OBVIOUS
      <3>2. n \in Answered(b) /\ SameVersion(n, b.name)
        BY <1>6, <2>1, <3>1, Responded DEF Answered
      <3>3. <<n, b>> \in pairs /\ b \in capable
        BY <2>1, <3>2
      <3>4. [id |-> n, long |-> TRUE, shown |-> DisplayName(n)] \in listed
        BY <1>4, <3>3
      <3> QED
        BY <3>2, <3>4
    <2>2. CASE b \notin available
      BY <1>2, <2>2
    <2> QED
      BY <2>1, <2>2
  <1>7. state.available = available
    <2> HIDE DEF state
    <2> QED
      BY <1>2
  <1> HIDE DEF state, pairs, capable, cri
  <1> QED
    <2>1. ListsWhatIsThere(b) <=>
            ((\A p \in state.available : Unmistaken(p)) =>
               /\ \A e \in listed :
                     \E p \in state.available : SameVersion(e.shown, p.name) /\ (e.long => p = b)
               /\ \/ \E e \in listed : e.long /\ SameVersion(e.id, b.name)
                  \/ \E p \in cri \ {b} : Covers(p, b))
      BY DEF ListsWhatIsThere, listed, state, cri
    <2> QED
      BY <1>5, <1>6, <1>7, <2>1

\* A request is answered by a model of the version it names, and a response and
\* the list of models name it, for all names, built-in mappings, profiles and
\* orders of discovery, unless a name was given to a model in whose text it
\* only occurs, or a stem ends within a number of the model's.
THEOREM VersionKept ==
    ASSUME ModelsAssumption
    PROVE  ModelsSpec => []SameModel
  <1>1. ModelsInv => SameModel
    BY Requested, Responded, WhatIsListed DEF SameModel
  <1> QED
    BY <1>1, ModelsInvInit, ModelsInvNext, PTL DEF ModelsSpec

-----------------------------------------------------------------------------
(* Sequences: what is joined, and what is made of it *)

\* Induction over the numbers and over sequences, for a set of them.
LEMMA Induction ==
    ASSUME NEW A, 0 \in A, \A n \in Nat : n \in A => n + 1 \in A
    PROVE  Nat \subseteq A
  <1> DEFINE R == OpToRel(<, Nat)
             T == Nat \ A
  <1> SUFFICES ASSUME T # {} PROVE FALSE
    OBVIOUS
  <1>1. PICK n \in T : \A m \in T : ~ (<<m, n>> \in R)
    <2>1. T \subseteq Nat
      OBVIOUS
    <2>2. IsWellFoundedOn(R, Nat)
      BY NatLessThanWellFounded
    <2> HIDE DEF R, T
    <2> QED
      BY <2>1, <2>2, WFMin
  <1>2. n # 0 /\ n - 1 \in Nat /\ n \in Nat
    OBVIOUS
  <1>3. n - 1 \notin A
    BY <1>2
  <1>4. <<n - 1, n>> \in R
    BY <1>2 DEF OpToRel
  <1> QED
    BY <1>1, <1>2, <1>3, <1>4

\* A set that holds the empty sequence, and with each what it is the beginning
\* of, holds all sequences.
LEMMA SequencesFromTheEnd ==
    ASSUME NEW S, NEW A, <<>> \in A,
           \A s \in Seq(S), e \in S : s \in A => Append(s, e) \in A
    PROVE  Seq(S) \subseteq A
  <1> DEFINE B == {n \in Nat : \A s \in Seq(S) : Len(s) = n => s \in A}
  <1>1. 0 \in B
    <2>1. \A s \in Seq(S) : Len(s) = 0 => s = <<>>
      BY EmptySeq
    <2> QED
      BY <2>1
  <1>2. ASSUME NEW n \in Nat, n \in B
        PROVE  n + 1 \in B
    <2>1. ASSUME NEW s \in Seq(S), Len(s) = n + 1
          PROVE  s \in A
      <3>1. s # <<>>
        BY <2>1
      <3>2. PICK front \in Seq(S), e \in S : s = Append(front, e)
        BY <3>1, SequenceEmptyOrAppend
      <3>3. Len(s) = Len(front) + 1 /\ Len(front) \in Nat
        BY <3>2, AppendProperties
      <3>4. Len(front) = n
        BY <2>1, <3>3
      <3>5. front \in A
        BY <1>2, <3>4
      <3> QED
        BY <3>2, <3>5
    <2> QED
      BY <2>1
  <1>3. Nat \subseteq B
    <2> HIDE DEF B
    <2> QED
      BY <1>1, <1>2, Induction
  <1> QED
    BY <1>3

\* What the provers need not look into
Then(s, t) == s \o t

\* What the first m pieces make, one after the other
Joins(f, pieces, m) ==
    f = [n \in 0..m |-> IF n = 0 THEN <<>> ELSE Then(f[n - 1], pieces[n])]

\* A recursive function of this form exists, so that its CHOOSE is one.
LEMMA Joined ==
    ASSUME NEW pieces, Len(pieces) \in Nat
    PROVE  \E f : Joins(f, pieces, Len(pieces)) /\ Flattened(pieces) = f[Len(pieces)]
  <1> DEFINE A == {m \in Nat : \E f : Joins(f, pieces, m)}
  <1>1. 0 \in A
    <2>1. PICK f : f = [n \in 0..0 |-> <<>>]
      OBVIOUS
    <2>2. f = [n \in 0..0 |-> IF n = 0 THEN <<>> ELSE Then(f[n - 1], pieces[n])]
      BY <2>1
    <2> QED
      BY <2>2 DEF Joins
  <1>2. ASSUME NEW m \in Nat, m \in A
        PROVE  m + 1 \in A
    <2>1. PICK f : Joins(f, pieces, m)
      BY <1>2
    <2>2. PICK g : g = [n \in 0..(m + 1) |->
                          IF n = m + 1 THEN Then(f[m], pieces[m + 1]) ELSE f[n]]
      OBVIOUS
    <2>3. \A n \in 0..m : g[n] = f[n]
      BY <2>2
    <2>4. ASSUME NEW n \in 0..(m + 1)
          PROVE  g[n] = IF n = 0 THEN <<>> ELSE Then(g[n - 1], pieces[n])
      <3>1. CASE n = m + 1
        <4>1. g[n] = Then(f[m], pieces[m + 1])
          BY <2>2, <3>1
        <4>2. g[n - 1] = f[m] /\ n # 0
          BY <2>3, <3>1
        <4> QED
          BY <3>1, <4>1, <4>2
      <3>2. CASE n \in 0..m
        <4>1. f[n] = IF n = 0 THEN <<>> ELSE Then(f[n - 1], pieces[n])
          BY <2>1, <3>2 DEF Joins
        <4>2. g[n] = f[n] /\ (n # 0 => g[n - 1] = f[n - 1])
          BY <2>3, <3>2
        <4> QED
          BY <4>1, <4>2
      <3> QED
        BY <3>1, <3>2
    <2>5. g = [n \in 0..(m + 1) |-> g[n]]
      BY <2>2
    <2>6. Joins(g, pieces, m + 1)
      BY <2>4, <2>5 DEF Joins
    <2> QED
      BY <2>6
  <1>3. Len(pieces) \in A
    <2> HIDE DEF A
    <2> QED
      BY <1>1, <1>2, Induction
  <1>4. \E f : Joins(f, pieces, Len(pieces))
    BY <1>3
  <1>5. PICK f : f = CHOOSE g : Joins(g, pieces, Len(pieces))
    OBVIOUS
  <1>6. Flattened(pieces) = f[Len(pieces)]
    BY <1>5 DEF Flattened, Joins, Then
  <1> QED
    BY <1>4, <1>5, <1>6

LEMMA JoinsStep ==
    ASSUME NEW m \in Nat, NEW k \in Nat, k + 1 <= m, NEW p, NEW f, Joins(f, p, m)
    PROVE  f[k + 1] = Then(f[k], p[k + 1])
  <1>1. PICK j \in 0..m : j = k + 1 /\ j # 0 /\ j - 1 = k
    OBVIOUS
  <1>2. f[j] = Then(f[j - 1], p[j])
    BY <1>1 DEF Joins
  <1> QED
    BY <1>1, <1>2

LEMMA JoinsAgree ==
    ASSUME NEW m \in Nat, NEW n \in Nat, m <= n, NEW p, NEW q, NEW f, NEW g,
           Joins(f, p, m), Joins(g, q, n), \A k \in 1..m : p[k] = q[k]
    PROVE  f[m] = g[m]
  <1> DEFINE A == {k \in Nat : k <= m => f[k] = g[k]}
  <1>1. 0 \in A
    BY DEF Joins
  <1>2. ASSUME NEW k \in Nat, k \in A
        PROVE  k + 1 \in A
    <2>1. CASE k + 1 <= m
      <3>1. f[k + 1] = Then(f[k], p[k + 1])
        BY <2>1, JoinsStep
      <3>2. g[k + 1] = Then(g[k], q[k + 1])
        <4>1. k + 1 <= n
          BY <2>1
        <4> QED
          BY <4>1, JoinsStep
      <3>3. p[k + 1] = q[k + 1]
        BY <2>1
      <3>4. f[k] = g[k]
        BY <1>2, <2>1
      <3> QED
        BY <3>1, <3>2, <3>3, <3>4
    <2> QED
      BY <2>1
  <1>3. m \in A
    <2> HIDE DEF A
    <2> QED
      BY <1>1, <1>2, Induction
  <1> QED
    BY <1>3

\* One more piece is joined at the end.
LEMMA FlattenedAppend ==
    ASSUME NEW S, NEW pieces \in Seq(S), NEW last \in S
    PROVE  Flattened(Append(pieces, last)) = Flattened(pieces) \o last
  <1> DEFINE more == Append(pieces, last)
             m == Len(pieces)
  <1>1. /\ m \in Nat /\ Len(more) = m + 1
        /\ more[m + 1] = last
        /\ \A k \in 1..m : pieces[k] = more[k]
    BY AppendProperties
  <1> HIDE DEF more, m
  <1>2. PICK f : Joins(f, pieces, m) /\ Flattened(pieces) = f[m]
    BY <1>1, Joined DEF m
  <1>3. PICK g : Joins(g, more, m + 1) /\ Flattened(more) = g[m + 1]
    BY <1>1, Joined
  <1>4. g[m + 1] = Then(g[m], more[m + 1])
    BY <1>1, <1>3, JoinsStep
  <1>5. f[m] = g[m]
    BY <1>1, <1>2, <1>3, JoinsAgree
  <1> QED
    BY <1>1, <1>2, <1>3, <1>4, <1>5 DEF more, Then

LEMMA FlattenedEmpty == Flattened(<<>>) = <<>>
  <1>1. PICK f : Joins(f, <<>>, 0) /\ Flattened(<<>>) = f[0]
    <2>1. Len(<<>>) = 0
      OBVIOUS
    <2> QED
      BY <2>1, Joined
  <1>2. f[0] = <<>>
    BY <1>1 DEF Joins
  <1> QED
    BY <1>1, <1>2

\* The pieces that OfKinds joins
KeptOnes(list, kinds) ==
    [i \in DOMAIN list |-> IF list[i].kind \in kinds THEN << list[i] >> ELSE <<>>]

LEMMA Appended ==
    ASSUME NEW S, NEW s \in Seq(S), NEW e \in S
    PROVE  /\ Append(s, e) \in Seq(S) /\ Len(Append(s, e)) = Len(s) + 1
           /\ DOMAIN s = 1..Len(s) /\ Len(s) \in Nat
           /\ DOMAIN Append(s, e) = 1..(Len(s) + 1)
           /\ \A i \in 1..Len(s) : Append(s, e)[i] = s[i] /\ s[i] \in S
           /\ Append(s, e)[Len(s) + 1] = e
  BY AppendProperties

\* A sequence that is told by its parts
Goes(t, n) == t = [i \in 1..n |-> t[i]]

LEMMA IsAppended ==
    ASSUME NEW S, NEW s \in Seq(S), NEW e \in S, NEW n \in Nat, n = Len(s),
           NEW t, Goes(t, n + 1),
           \A i \in 1..n : t[i] = s[i], t[n + 1] = e
    PROVE  t = Append(s, e)
  <1>1. \A i \in 1..(n + 1) : i \in 1..n \/ i = n + 1
    OBVIOUS
  <1>2. ASSUME NEW i \in 1..(n + 1)
        PROVE  t[i] = Append(s, e)[i]
    <2>1. CASE i \in 1..n
      <3>1. Append(s, e)[i] = s[i]
        BY <2>1, AppendProperties
      <3> QED
        BY <2>1, <3>1
    <2>2. CASE i = n + 1
      <3>1. Append(s, e)[n + 1] = e
        BY AppendProperties
      <3> QED
        BY <2>2, <3>1
    <2> QED
      BY <1>1, <2>1, <2>2
  <1>3. t \in Seq(S)
    <2>1. \A i \in 1..(n + 1) : t[i] \in S
      BY <1>1, Appended
    <2>2. t \in [1..(n + 1) -> S]
      BY <2>1 DEF Goes
    <2> QED
      BY <2>2
  <1>4. Append(s, e) \in Seq(S) /\ Len(Append(s, e)) = n + 1
    BY Appended
  <1>5. Len(t) = n + 1
    <2>1. DOMAIN t = 1..(n + 1)
      BY DEF Goes
    <2> QED
      BY <1>3, <2>1
  <1> QED
    BY <1>2, <1>3, <1>4, <1>5, SeqEqual

Grows(T, n, p, q, piece) ==
    /\ n \in Nat /\ Goes(p, n) /\ Goes(q, n + 1)
    /\ \A i \in 1..n : q[i] = p[i] /\ p[i] \in T
    /\ q[n + 1] = piece /\ piece \in T

LEMMA FlattenedGrows ==
    ASSUME NEW T, NEW n, NEW p, NEW q, NEW piece, Grows(T, n, p, q, piece)
    PROVE  Flattened(q) = Then(Flattened(p), piece)
  <1>0. /\ n \in Nat /\ Goes(p, n) /\ Goes(q, n + 1)
        /\ \A i \in 1..n : q[i] = p[i] /\ p[i] \in T
        /\ q[n + 1] = piece /\ piece \in T
    BY DEF Grows
  <1>1. p \in Seq(T) /\ Len(p) = n
    <2>1. p \in [1..n -> T]
      BY <1>0 DEF Goes
    <2>2. n \in Nat
      BY <1>0
    <2> QED
      BY <2>1, <2>2
  <1>2. q = Append(p, piece)
    BY <1>0, <1>1, IsAppended
  <1> QED
    BY <1>0, <1>1, <1>2, FlattenedAppend DEF Then

\* What one adds to those of the kinds
One(e, kinds) == IF e.kind \in kinds THEN << e >> ELSE <<>>

\* Of a list that grows, one more is taken if it is of the kinds.
LEMMA OfKindsAppend ==
    ASSUME NEW S, NEW s \in Seq(S), NEW e \in S, NEW kinds
    PROVE  OfKinds(Append(s, e), kinds) = Then(OfKinds(s, kinds), One(e, kinds))
  <1> DEFINE T == {<< x >> : x \in S} \cup {<<>>}
             piece == IF e.kind \in kinds THEN << e >> ELSE <<>>
             p == KeptOnes(s, kinds)
             q == KeptOnes(Append(s, e), kinds)
  <1>1. PICK n \in Nat : n = Len(s)
    BY Appended
  <1>2. piece \in T /\ q[n + 1] = piece
    BY <1>1, Appended DEF KeptOnes
  <1>3. Goes(p, n) /\ Goes(q, n + 1)
    BY <1>1, Appended DEF KeptOnes, Goes
  <1>4. \A i \in 1..n : q[i] = p[i] /\ p[i] \in T
    BY <1>1, Appended DEF KeptOnes
  <1> HIDE DEF p, q, piece, T
  <1>5. Flattened(q) = Then(Flattened(p), piece)
    <2>1. Grows(T, n, p, q, piece)
      BY <1>1, <1>2, <1>3, <1>4 DEF Grows
    <2> QED
      BY <2>1, FlattenedGrows
  <1> QED
    BY <1>5 DEF OfKinds, KeptOnes, One, p, q, piece

LEMMA OfKindsEmpty == ASSUME NEW kinds PROVE OfKinds(<<>>, kinds) = <<>>
  <1>1. KeptOnes(<<>>, kinds) = <<>>
    BY DEF KeptOnes
  <1> QED
    BY <1>1, FlattenedEmpty DEF OfKinds, KeptOnes

LEMMA OfKindsType ==
    ASSUME NEW S, NEW s \in Seq(S), NEW kinds
    PROVE  OfKinds(s, kinds) \in Seq(S)
  <1> DEFINE A == {t \in Seq(S) : OfKinds(t, kinds) \in Seq(S)}
  <1>1. <<>> \in A
    BY OfKindsEmpty, EmptySeq
  <1>2. ASSUME NEW t \in Seq(S), NEW e \in S, t \in A
        PROVE  Append(t, e) \in A
    <2>1. One(e, kinds) \in Seq(S)
      BY DEF One
    <2>2. OfKinds(Append(t, e), kinds) = Then(OfKinds(t, kinds), One(e, kinds))
      BY OfKindsAppend
    <2>3. OfKinds(t, kinds) \in Seq(S)
      BY <1>2
    <2>4. OfKinds(Append(t, e), kinds) \in Seq(S)
      BY <2>1, <2>2, <2>3, ConcatProperties DEF Then
    <2> QED
      BY <2>4, Appended
  <1>3. Seq(S) \subseteq A
    <2> HIDE DEF A
    <2> QED
      BY <1>1, <1>2, SequencesFromTheEnd
  <1> QED
    BY <1>3

\* Appending one that is of the kinds, or is not
LEMMA OfKindsOne ==
    ASSUME NEW S, NEW s \in Seq(S), NEW e \in S, NEW kinds
    PROVE  OfKinds(Append(s, e), kinds) =
             IF e.kind \in kinds THEN Append(OfKinds(s, kinds), e) ELSE OfKinds(s, kinds)
  <1>1. OfKinds(Append(s, e), kinds) = Then(OfKinds(s, kinds), One(e, kinds))
    BY OfKindsAppend
  <1>2. PICK k \in Seq(S) : k = OfKinds(s, kinds)
    BY OfKindsType
  <1>3. Then(k, << e >>) = Append(k, e) /\ Then(k, <<>>) = k
    BY <1>2, AppendIsConcat, ConcatEmptySeq DEF Then
  <1>4. One(e, kinds) = IF e.kind \in kinds THEN << e >> ELSE <<>>
    BY DEF One
  <1> QED
    BY <1>1, <1>2, <1>3, <1>4

LEMMA OfKindsSkip ==
    ASSUME NEW S, NEW s \in Seq(S), NEW e \in S, NEW kinds, e.kind \notin kinds
    PROVE  OfKinds(Append(s, e), kinds) = OfKinds(s, kinds)
  BY OfKindsOne

LEMMA Two ==
    ASSUME NEW S, NEW s \in Seq(S), NEW x \in S, NEW y \in S
    PROVE  s \o << x, y >> = Append(Append(s, x), y)
  OBVIOUS

LEMMA Three ==
    ASSUME NEW S, NEW s \in Seq(S), NEW x \in S, NEW y \in S, NEW z \in S
    PROVE  s \o << x, y, z >> = Append(Append(Append(s, x), y), z)
  OBVIOUS

-----------------------------------------------------------------------------
(* What is made of the blocks *)

Names == UNION {Range(kinds) : kinds \in Replies}

Id == Nat \X Nat

Block == [kind : {"text", "tool_use"}, name : Names, id : Id]

Piece ==
    Block \cup [kind : {"server_tool_use"}, name : Names, id : Id]
          \cup [kind : {"web_search_tool_result"}, name : {"none"}, id : Id, results : BOOLEAN]

SaidKinds == {"text", "tool_use", "server_tool_use"}

\* The blocks s become the pieces r: in their order, each search with its result
\* behind it, and the other uses of tools as they are.
Becomes(s, r) ==
    /\ s \in Seq(Block) /\ r \in Seq(Piece)
    /\ Len(OfKinds(r, SaidKinds)) = Len(s)
    /\ \A i \in 1..Len(s) : OfKinds(r, SaidKinds)[i].id = s[i].id
    /\ \A i \in 1..Len(r) :
          r[i].kind = "server_tool_use" => i < Len(r) /\ r[i + 1] = ResultBlock(r[i].id)
    /\ \A i \in 1..Len(s) :
          UsesTool(s[i]) /\ ~IsSearch(s[i]) => \E j \in 1..Len(r) : r[j] = s[i]

\* A block that is no search stays as it is.
LEMMA BecomesPlain ==
    ASSUME NEW s, NEW r, Becomes(s, r), NEW e \in Block, ~IsSearch(e)
    PROVE  Becomes(Append(s, e), r \o << e >>)
  <1> DEFINE k == OfKinds(r, SaidKinds)
             r1 == Append(r, e)
             s1 == Append(s, e)
             k1 == Append(k, e)
  <1>1. s \in Seq(Block) /\ r \in Seq(Piece) /\ e \in Piece /\ k \in Seq(Piece)
    BY OfKindsType DEF Becomes, Piece
  <1>2. r \o << e >> = r1 /\ r1 \in Seq(Piece) /\ s1 \in Seq(Block)
    BY <1>1, AppendIsConcat, AppendProperties
  <1>3. e.kind \in SaidKinds /\ e.kind # "server_tool_use"
    BY DEF Block, SaidKinds
  <1>4. OfKinds(r1, SaidKinds) = k1
    BY <1>1, <1>3, OfKindsOne
  <1>5. PICK n \in Nat, m \in Nat, l \in Nat : n = Len(s) /\ m = Len(r) /\ l = Len(k)
    BY <1>1, Appended
  <1>6. l = n /\ (\A i \in 1..n : k[i].id = s[i].id)
    BY <1>5 DEF Becomes
  <1>7. /\ Len(s1) = n + 1 /\ s1[n + 1] = e /\ \A i \in 1..n : s1[i] = s[i]
        /\ Len(r1) = m + 1 /\ r1[m + 1] = e /\ \A i \in 1..m : r1[i] = r[i]
        /\ Len(k1) = n + 1 /\ k1[n + 1] = e /\ \A i \in 1..n : k1[i] = k[i]
    <2>1. Len(s1) = n + 1 /\ s1[n + 1] = e /\ \A i \in 1..n : s1[i] = s[i]
      BY <1>1, <1>5, Appended
    <2>2. Len(r1) = m + 1 /\ r1[m + 1] = e /\ \A i \in 1..m : r1[i] = r[i]
      BY <1>1, <1>5, Appended
    <2>3. Len(k1) = n + 1 /\ k1[n + 1] = e /\ \A i \in 1..n : k1[i] = k[i]
      <3> HIDE DEF k
      <3>1. n = Len(k)
        BY <1>5, <1>6
      <3> QED
        BY <1>1, <3>1, Appended
    <2> QED
      BY <2>1, <2>2, <2>3
  <1>8. /\ \A i \in 1..(n + 1) : i \in 1..n \/ i = n + 1
        /\ \A i \in 1..(m + 1) : i \in 1..m \/ i = m + 1
        /\ \A i \in 1..m : i \in 1..(m + 1)
        /\ m + 1 \in 1..(m + 1)
    OBVIOUS
  <1>9. /\ \A i \in 1..m :
             r[i].kind = "server_tool_use" => i < m /\ r[i + 1] = ResultBlock(r[i].id)
        /\ \A i \in 1..n :
             UsesTool(s[i]) /\ ~IsSearch(s[i]) => \E j \in 1..m : r[j] = s[i]
    BY <1>5 DEF Becomes
  <1> HIDE DEF k, r1, s1, k1
  <1>10. \A i \in 1..(n + 1) : k1[i].id = s1[i].id
    BY <1>6, <1>7, <1>8
  <1>11. ASSUME NEW i \in 1..(m + 1), r1[i].kind = "server_tool_use"
         PROVE  i < m + 1 /\ r1[i + 1] = ResultBlock(r1[i].id)
    <2>1. i \in 1..m
      BY <1>3, <1>7, <1>8, <1>11
    <2>2. r1[i] = r[i] /\ i < m /\ r[i + 1] = ResultBlock(r[i].id)
      BY <1>7, <1>9, <1>11, <2>1
    <2>3. i + 1 \in 1..m
      BY <2>1, <2>2
    <2> QED
      BY <1>7, <2>2, <2>3
  <1>12. ASSUME NEW i \in 1..(n + 1), UsesTool(s1[i]), ~IsSearch(s1[i])
         PROVE  \E j \in 1..(m + 1) : r1[j] = s1[i]
    BY <1>7, <1>8, <1>9, <1>12
  <1>13. Becomes(s1, r1)
    BY <1>2, <1>4, <1>7, <1>10, <1>11, <1>12 DEF Becomes
  <1> QED
    BY <1>2, <1>13 DEF s1

\* A search becomes the server's, with its result behind it.
LEMMA BecomesSearch ==
    ASSUME NEW s, NEW r, Becomes(s, r), NEW e \in Block, IsSearch(e), NEW x, NEW y,
           x = [e EXCEPT !.kind = "server_tool_use"], y = ResultBlock(e.id)
    PROVE  Becomes(Append(s, e), r \o << x, y >>)
  <1> DEFINE k == OfKinds(r, SaidKinds)
             r1 == Append(r, x)
             r2 == Append(r1, y)
             s1 == Append(s, e)
             k1 == Append(k, x)
  <1>0. /\ x \in Piece /\ x.kind = "server_tool_use" /\ x.id = e.id
        /\ y \in Piece /\ y.kind = "web_search_tool_result"
    BY DEF Block, Piece, ResultBlock
  <1>1. s \in Seq(Block) /\ r \in Seq(Piece) /\ k \in Seq(Piece)
    BY OfKindsType DEF Becomes
  <1>2. r \o << x, y >> = r2 /\ r1 \in Seq(Piece) /\ r2 \in Seq(Piece) /\ s1 \in Seq(Block)
    BY <1>0, <1>1, Two, AppendProperties
  <1>3. x.kind \in SaidKinds /\ y.kind \notin SaidKinds
    BY <1>0 DEF SaidKinds
  <1>4. OfKinds(r2, SaidKinds) = k1
    <2>1. OfKinds(r1, SaidKinds) = k1
      BY <1>0, <1>1, <1>3, OfKindsOne
    <2>2. OfKinds(r2, SaidKinds) = OfKinds(r1, SaidKinds)
      <3> HIDE DEF r1
      <3> QED
        BY <1>0, <1>2, <1>3, OfKindsOne
    <2> QED
      BY <2>1, <2>2
  <1>5. PICK n \in Nat, m \in Nat, l \in Nat : n = Len(s) /\ m = Len(r) /\ l = Len(k)
    BY <1>1, Appended
  <1>6. l = n /\ (\A i \in 1..n : k[i].id = s[i].id)
    BY <1>5 DEF Becomes
  <1>7. /\ Len(s1) = n + 1 /\ s1[n + 1] = e /\ \A i \in 1..n : s1[i] = s[i]
        /\ Len(r2) = m + 2 /\ r2[m + 1] = x /\ r2[m + 2] = y
        /\ \A i \in 1..m : r2[i] = r[i]
        /\ Len(k1) = n + 1 /\ k1[n + 1] = x /\ \A i \in 1..n : k1[i] = k[i]
    <2>1. Len(s1) = n + 1 /\ s1[n + 1] = e /\ \A i \in 1..n : s1[i] = s[i]
      BY <1>1, <1>5, Appended
    <2>2. Len(r1) = m + 1 /\ r1[m + 1] = x /\ \A i \in 1..m : r1[i] = r[i]
      BY <1>0, <1>1, <1>5, Appended
    <2>3. Len(r2) = m + 2 /\ r2[m + 2] = y /\ \A i \in 1..(m + 1) : r2[i] = r1[i]
      <3>1. PICK l1 \in Nat : l1 = Len(r1) /\ l1 = m + 1 /\ l1 + 1 = m + 2
        BY <2>2
      <3>2. Len(r2) = l1 + 1 /\ r2[l1 + 1] = y /\ \A i \in 1..l1 : r2[i] = r1[i]
        BY <1>0, <1>2, <3>1, Appended
      <3> QED
        BY <3>1, <3>2
    <2>4. Len(k1) = n + 1 /\ k1[n + 1] = x /\ \A i \in 1..n : k1[i] = k[i]
      <3> HIDE DEF k
      <3>1. n = Len(k)
        BY <1>5, <1>6
      <3> QED
        BY <1>0, <1>1, <3>1, Appended
    <2>5. m + 1 \in 1..(m + 1) /\ \A i \in 1..m : i \in 1..(m + 1)
      OBVIOUS
    <2> HIDE DEF r1, r2, s1, k1
    <2> QED
      BY <2>1, <2>2, <2>3, <2>4, <2>5
  <1>8. /\ \A i \in 1..(n + 1) : i \in 1..n \/ i = n + 1
        /\ \A i \in 1..(m + 2) : i \in 1..m \/ i = m + 1 \/ i = m + 2
        /\ \A i \in 1..m : i \in 1..(m + 2)
    OBVIOUS
  <1>9. /\ \A i \in 1..m :
             r[i].kind = "server_tool_use" => i < m /\ r[i + 1] = ResultBlock(r[i].id)
        /\ \A i \in 1..n :
             UsesTool(s[i]) /\ ~IsSearch(s[i]) => \E j \in 1..m : r[j] = s[i]
    BY <1>5 DEF Becomes
  <1> HIDE DEF k, r1, r2, s1, k1
  <1>10. \A i \in 1..(n + 1) : k1[i].id = s1[i].id
    BY <1>0, <1>6, <1>7, <1>8
  <1>11. ASSUME NEW i \in 1..(m + 2), r2[i].kind = "server_tool_use"
         PROVE  i < m + 2 /\ r2[i + 1] = ResultBlock(r2[i].id)
    <2>1. CASE i \in 1..m
      <3>1. r2[i] = r[i] /\ i < m /\ r[i + 1] = ResultBlock(r[i].id)
        BY <1>7, <1>9, <1>11, <2>1
      <3>2. i + 1 \in 1..m
        BY <2>1, <3>1
      <3> QED
        BY <1>7, <3>1, <3>2
    <2>2. CASE i = m + 1
      <3>1. i < m + 2 /\ i + 1 = m + 2
        BY <2>2
      <3>2. r2[i] = x /\ r2[i + 1] = y
        BY <1>7, <2>2, <3>1
      <3> QED
        BY <1>0, <3>1, <3>2
    <2>3. i # m + 2
      BY <1>0, <1>7, <1>11
    <2> QED
      BY <1>8, <2>1, <2>2, <2>3
  <1>12. ASSUME NEW i \in 1..(n + 1), UsesTool(s1[i]), ~IsSearch(s1[i])
         PROVE  \E j \in 1..(m + 2) : r2[j] = s1[i]
    <2>1. i \in 1..n
      BY <1>7, <1>8, <1>12
    <2> QED
      BY <1>7, <1>8, <1>9, <1>12, <2>1
  <1>13. Becomes(s1, r2)
    BY <1>2, <1>4, <1>7, <1>10, <1>11, <1>12 DEF Becomes
  <1> QED
    BY <1>2, <1>13 DEF s1

\* rewrite_response_content() of blocks
RewrittenOf(s) == Flattened([i \in DOMAIN s |-> Rewrite(s[i])])

\* What rewrite_response_content() makes of any blocks
LEMMA WhatBecomes ==
    ASSUME NEW s \in Seq(Block)
    PROVE  Becomes(s, RewrittenOf(s))
  <1> DEFINE A == {t \in Seq(Block) : Becomes(t, RewrittenOf(t))}
  <1>1. <<>> \in A
    <2>1. [i \in DOMAIN <<>> |-> Rewrite(<<>>[i])] = <<>>
      OBVIOUS
    <2>2. RewrittenOf(<<>>) = <<>>
      BY <2>1, FlattenedEmpty DEF RewrittenOf
    <2>3. Becomes(<<>>, <<>>)
      BY OfKindsEmpty DEF Becomes
    <2> QED
      BY <2>2, <2>3
  <1>2. ASSUME NEW t \in Seq(Block), NEW e \in Block, t \in A
        PROVE  Append(t, e) \in A
    <2> DEFINE p == [i \in DOMAIN t |-> Rewrite(t[i])]
               q == [i \in DOMAIN Append(t, e) |-> Rewrite(Append(t, e)[i])]
               T == {Rewrite(b) : b \in Block}
    <2>1. PICK n \in Nat : n = Len(t)
      BY Appended
    <2>2. Goes(p, n) /\ Goes(q, n + 1)
      BY <2>1, Appended DEF Goes
    <2>3. q[n + 1] = Rewrite(e) /\ Rewrite(e) \in T
      BY <2>1, Appended
    <2>4. \A i \in 1..n : q[i] = p[i] /\ p[i] \in T
      BY <2>1, Appended
    <2>5. RewrittenOf(t) = Flattened(p) /\ RewrittenOf(Append(t, e)) = Flattened(q)
      BY DEF RewrittenOf
    <2> HIDE DEF p, q, T
    <2>6. RewrittenOf(Append(t, e)) = Then(RewrittenOf(t), Rewrite(e))
      <3>1. Grows(T, n, p, q, Rewrite(e))
        BY <2>1, <2>2, <2>3, <2>4 DEF Grows
      <3> QED
        BY <2>5, <3>1, FlattenedGrows
    <2>7. Becomes(t, RewrittenOf(t))
      BY <1>2
    <2>8. CASE IsSearch(e)
      <3>1. PICK x, y : x = [e EXCEPT !.kind = "server_tool_use"] /\ y = ResultBlock(e.id)
        OBVIOUS
      <3>2. Rewrite(e) = << x, y >>
        BY <2>8, <3>1 DEF Rewrite
      <3>3. Becomes(Append(t, e), RewrittenOf(t) \o << x, y >>)
        BY <2>7, <2>8, <3>1, BecomesSearch
      <3> QED
        BY <2>6, <3>2, <3>3, Appended DEF Then
    <2>9. CASE ~IsSearch(e)
      <3>1. Rewrite(e) = << e >>
        BY <2>9 DEF Rewrite
      <3>2. Becomes(Append(t, e), RewrittenOf(t) \o << e >>)
        BY <2>7, <2>9, BecomesPlain
      <3> QED
        BY <2>6, <3>1, <3>2, Appended DEF Then
    <2> QED
      BY <2>8, <2>9
  <1>3. Seq(Block) \subseteq A
    <2> HIDE DEF A
    <2> QED
      BY <1>1, <1>2, SequencesFromTheEnd
  <1> QED
    BY <1>3

BlockEvent ==
    [kind : {"content_block_start", "content_block_delta", "content_block_stop"},
     index : Nat, block : Piece]

StartKinds == {"content_block_start"}

\* The events v start the blocks s in their order, and each is stopped before
\* the next is started.
Streams(s, v) ==
    /\ s \in Seq(Piece) /\ v \in Seq(BlockEvent)
    /\ Len(OfKinds(v, StartKinds)) = Len(s)
    /\ \A i \in 1..Len(s) : OfKinds(v, StartKinds)[i].block = s[i]
    /\ \A i \in 1..Len(v) :
          v[i].kind = "content_block_start" =>
             \E j \in 1..Len(v) :
                /\ i < j /\ v[j].kind = "content_block_stop" /\ v[j].index = v[i].index
                /\ \A l \in 1..j : i < l => v[l].kind # "content_block_start"

\* Behind the m events v, c more are those of one block.
MoreEvents(v, e, m, c, v1) ==
    /\ v1 \in Seq(BlockEvent) /\ Len(v1) = m + c
    /\ \A i \in 1..m : v1[i] = v[i]
    /\ v1[m + 1].kind = "content_block_start" /\ v1[m + 1].block = e
    /\ v1[m + c].kind = "content_block_stop" /\ v1[m + c].index = v1[m + 1].index
    /\ \A i \in (m + 2)..(m + c) : v1[i].kind # "content_block_start"
    /\ OfKinds(v1, StartKinds) = Append(OfKinds(v, StartKinds), v1[m + 1])

LEMMA StreamGrows ==
    ASSUME NEW s, NEW v, Streams(s, v), NEW e \in Piece, NEW m \in Nat, m = Len(v),
           NEW c \in {2, 3}, NEW v1, MoreEvents(v, e, m, c, v1)
    PROVE  Streams(Append(s, e), v1)
  <1>0. /\ v1 \in Seq(BlockEvent) /\ Len(v1) = m + c
        /\ \A i \in 1..m : v1[i] = v[i]
        /\ v1[m + 1].kind = "content_block_start" /\ v1[m + 1].block = e
        /\ v1[m + c].kind = "content_block_stop" /\ v1[m + c].index = v1[m + 1].index
        /\ \A i \in (m + 2)..(m + c) : v1[i].kind # "content_block_start"
        /\ OfKinds(v1, StartKinds) = Append(OfKinds(v, StartKinds), v1[m + 1])
    BY DEF MoreEvents
  <1> DEFINE k == OfKinds(v, StartKinds)
             a == v1[m + 1]
             k1 == Append(k, a)
             s1 == Append(s, e)
  <1>1. s \in Seq(Piece) /\ v \in Seq(BlockEvent) /\ k \in Seq(BlockEvent)
    BY OfKindsType DEF Streams
  <1>2. PICK n \in Nat : n = Len(s) /\ n = Len(k)
    BY <1>1, Appended DEF Streams
  <1>3. a \in BlockEvent
    BY <1>0, m + 1 \in 1..(m + c), ElementOfSeq
  <1>4. /\ Len(s1) = n + 1 /\ s1[n + 1] = e /\ s1 \in Seq(Piece)
        /\ \A i \in 1..n : s1[i] = s[i]
    <2> HIDE DEF k, a
    <2>1. n = Len(s)
      BY <1>2
    <2> QED
      BY <1>1, <2>1, Appended
  <1>5. Len(k1) = n + 1 /\ k1[n + 1] = a /\ \A i \in 1..n : k1[i] = k[i]
    <2> HIDE DEF k, a
    <2> QED
      BY <1>1, <1>2, <1>3, Appended
  <1>6. \A i \in 1..n : k[i].block = s[i]
    BY <1>2 DEF Streams
  <1>7. \A i \in 1..m :
          v[i].kind = "content_block_start" =>
             \E j \in 1..m :
                /\ i < j /\ v[j].kind = "content_block_stop" /\ v[j].index = v[i].index
                /\ \A l \in 1..j : i < l => v[l].kind # "content_block_start"
    BY DEF Streams
  <1> HIDE DEF k, k1, s1
  <1>8. \A i \in 1..(n + 1) : k1[i].block = s1[i]
    <2>1. \A i \in 1..(n + 1) : i \in 1..n \/ i = n + 1
      OBVIOUS
    <2> QED
      BY <1>0, <1>4, <1>5, <1>6, <2>1
  <1>9. ASSUME NEW i \in 1..(m + c), v1[i].kind = "content_block_start"
        PROVE  \E j \in 1..(m + c) :
                  /\ i < j /\ v1[j].kind = "content_block_stop" /\ v1[j].index = v1[i].index
                  /\ \A l \in 1..j : i < l => v1[l].kind # "content_block_start"
    <2>1. CASE i \in 1..m
      <3>1. v[i].kind = "content_block_start"
        BY <1>0, <1>9, <2>1
      <3>2. PICK j \in 1..m :
                /\ i < j /\ v[j].kind = "content_block_stop" /\ v[j].index = v[i].index
                /\ \A l \in 1..j : i < l => v[l].kind # "content_block_start"
        BY <1>7, <2>1, <3>1
      <3>3. \A l \in 1..j : l \in 1..m
        OBVIOUS
      <3>4. v1[j] = v[j] /\ v1[i] = v[i] /\ \A l \in 1..j : v1[l] = v[l]
        BY <1>0, <2>1, <3>3
      <3>5. j \in 1..(m + c)
        OBVIOUS
      <3> QED
        BY <3>2, <3>4, <3>5
    <2>2. CASE i = m + 1
      <3>1. i < m + c /\ m + c \in 1..(m + c)
        BY <2>2
      <3>2. \A l \in 1..(m + c) : i < l => l \in (m + 2)..(m + c)
        BY <2>2
      <3> QED
        BY <1>0, <2>2, <3>1, <3>2
    <2>3. i \in 1..m \/ i = m + 1
      <3>1. i \notin (m + 2)..(m + c)
        BY <1>0, <1>9
      <3> QED
        BY <3>1
    <2> QED
      BY <2>1, <2>2, <2>3
  <1>10. OfKinds(v1, StartKinds) = k1
    BY <1>0 DEF k, k1
  <1>11. Streams(s1, v1)
    BY <1>0, <1>4, <1>5, <1>8, <1>9, <1>10 DEF Streams
  <1> QED
    BY <1>11 DEF s1

\* The events of one more block
LEMMA StreamsOne ==
    ASSUME NEW s, NEW v, Streams(s, v), NEW e \in Piece, NEW index \in Nat
    PROVE  Streams(Append(s, e), v \o BlockEvents(index, e))
  <1>1. PICK a, d, z :
          /\ a = [kind |-> "content_block_start", index |-> index, block |-> e]
          /\ d = [kind |-> "content_block_delta", index |-> index, block |-> e]
          /\ z = [kind |-> "content_block_stop", index |-> index, block |-> e]
    OBVIOUS
  <1>2. a \in BlockEvent /\ d \in BlockEvent /\ z \in BlockEvent
    BY <1>1 DEF BlockEvent
  <1>3. /\ a.kind \in StartKinds /\ d.kind \notin StartKinds /\ z.kind \notin StartKinds
        /\ a.kind = "content_block_start" /\ a.block = e /\ a.index = index
        /\ d.kind # "content_block_start" /\ z.kind # "content_block_start"
        /\ z.kind = "content_block_stop" /\ z.index = index
    BY <1>1 DEF StartKinds
  <1>4. v \in Seq(BlockEvent)
    BY DEF Streams
  <1>5. PICK m \in Nat : m = Len(v)
    BY <1>4, Appended, <1>2
  <1>6. PICK va : va = Append(v, a)
    OBVIOUS
  <1>7. /\ va \in Seq(BlockEvent) /\ Len(va) = m + 1 /\ va[m + 1] = a
        /\ \A i \in 1..m : va[i] = v[i]
        /\ OfKinds(va, StartKinds) = Append(OfKinds(v, StartKinds), a)
    BY <1>2, <1>3, <1>4, <1>5, <1>6, Appended, OfKindsOne
  <1>8. CASE e.kind # "text"
    <2>1. PICK v1 : v1 = Append(va, z)
      OBVIOUS
    <2>2. PICK m1 \in Nat : m1 = Len(va) /\ m1 = m + 1 /\ m1 + 1 = m + 2
      BY <1>7
    <2>3. /\ v1 \in Seq(BlockEvent) /\ Len(v1) = m1 + 1 /\ v1[m1 + 1] = z
          /\ \A i \in 1..m1 : v1[i] = va[i]
          /\ OfKinds(v1, StartKinds) = OfKinds(va, StartKinds)
      BY <1>2, <1>3, <1>7, <2>1, <2>2, Appended, OfKindsOne
    <2>4. m + 1 \in 1..m1 /\ \A i \in 1..m : i \in 1..m1
      BY <2>2
    <2>5. /\ v1 \in Seq(BlockEvent) /\ Len(v1) = m + 2 /\ v1[m + 2] = z /\ v1[m + 1] = a
          /\ \A i \in 1..m : v1[i] = v[i]
          /\ OfKinds(v1, StartKinds) = Append(OfKinds(v, StartKinds), a)
      BY <1>7, <2>2, <2>3, <2>4
    <2>6. \A i \in (m + 2)..(m + 2) : v1[i].kind # "content_block_start"
      BY <1>3, <2>5
    <2>7. Streams(Append(s, e), v1)
      <3>1. PICK c \in {2, 3} : c = 2
        OBVIOUS
      <3>2. /\ Len(v1) = m + c /\ v1[m + c] = z
            /\ \A i \in (m + 2)..(m + c) : v1[i].kind # "content_block_start"
        BY <2>5, <2>6, <3>1
      <3>3. /\ v1[m + 1].kind = "content_block_start" /\ v1[m + 1].block = e
            /\ v1[m + c].kind = "content_block_stop" /\ v1[m + c].index = v1[m + 1].index
            /\ OfKinds(v1, StartKinds) = Append(OfKinds(v, StartKinds), v1[m + 1])
        BY <1>3, <2>5, <3>2
      <3>4. MoreEvents(v, e, m, c, v1)
        BY <2>5, <3>2, <3>3 DEF MoreEvents
      <3> QED
        BY <1>5, <3>4, StreamGrows
    <2>8. v \o BlockEvents(index, e) = v1
      <3>1. BlockEvents(index, e) = << a, z >>
        BY <1>1, <1>8 DEF BlockEvents
      <3>2. v \o << a, z >> = v1
        BY <1>2, <1>4, <1>6, <2>1, Two
      <3> QED
        BY <3>1, <3>2
    <2> QED
      BY <2>7, <2>8
  <1>9. CASE e.kind = "text"
    <2>1. PICK vd, v1 : vd = Append(va, d) /\ v1 = Append(vd, z)
      OBVIOUS
    <2>2. PICK m1 \in Nat, m2 \in Nat : /\ m1 = Len(va) /\ m1 = m + 1 /\ m1 + 1 = m + 2
                                        /\ m2 = m + 2 /\ m2 + 1 = m + 3
      BY <1>7
    <2>3. /\ vd \in Seq(BlockEvent) /\ Len(vd) = m1 + 1 /\ vd[m1 + 1] = d
          /\ \A i \in 1..m1 : vd[i] = va[i]
          /\ OfKinds(vd, StartKinds) = OfKinds(va, StartKinds)
      BY <1>2, <1>3, <1>7, <2>1, <2>2, Appended, OfKindsOne
    <2>4. m2 = Len(vd)
      BY <2>2, <2>3
    <2>5. /\ v1 \in Seq(BlockEvent) /\ Len(v1) = m2 + 1 /\ v1[m2 + 1] = z
          /\ \A i \in 1..m2 : v1[i] = vd[i]
          /\ OfKinds(v1, StartKinds) = OfKinds(vd, StartKinds)
      <3>1. /\ v1 \in Seq(BlockEvent) /\ Len(v1) = m2 + 1 /\ v1[m2 + 1] = z
            /\ \A i \in 1..m2 : v1[i] = vd[i]
        BY <1>2, <2>1, <2>3, <2>4, Appended
      <3>2. OfKinds(Append(vd, z), StartKinds) = OfKinds(vd, StartKinds)
        BY <1>2, <1>3, <2>3, OfKindsSkip, Zenon
      <3> QED
        BY <2>1, <3>1, <3>2
    <2>6. /\ m + 1 \in 1..m1 /\ m + 1 \in 1..m2 /\ m + 2 \in 1..m2
          /\ \A i \in 1..m : i \in 1..m1 /\ i \in 1..m2
      BY <2>2
    <2>7. /\ v1 \in Seq(BlockEvent) /\ Len(v1) = m + 3 /\ v1[m + 3] = z /\ v1[m + 1] = a
          /\ v1[m + 2] = d /\ \A i \in 1..m : v1[i] = v[i]
          /\ OfKinds(v1, StartKinds) = Append(OfKinds(v, StartKinds), a)
      BY <1>7, <2>2, <2>3, <2>5, <2>6
    <2>8. \A i \in (m + 2)..(m + 3) : v1[i].kind # "content_block_start"
      <3>1. \A i \in (m + 2)..(m + 3) : i = m + 2 \/ i = m + 3
        OBVIOUS
      <3> QED
        BY <1>3, <2>7, <3>1
    <2>9. Streams(Append(s, e), v1)
      <3>1. PICK c \in {2, 3} : c = 3
        OBVIOUS
      <3>2. /\ Len(v1) = m + c /\ v1[m + c] = z
            /\ \A i \in (m + 2)..(m + c) : v1[i].kind # "content_block_start"
        BY <2>7, <2>8, <3>1
      <3>3. /\ v1[m + 1].kind = "content_block_start" /\ v1[m + 1].block = e
            /\ v1[m + c].kind = "content_block_stop" /\ v1[m + c].index = v1[m + 1].index
            /\ OfKinds(v1, StartKinds) = Append(OfKinds(v, StartKinds), v1[m + 1])
        BY <1>3, <2>7, <3>2
      <3>4. MoreEvents(v, e, m, c, v1)
        BY <2>7, <3>2, <3>3 DEF MoreEvents
      <3> QED
        BY <1>5, <3>4, StreamGrows
    <2>10. v \o BlockEvents(index, e) = v1
      <3>1. BlockEvents(index, e) = << a, d, z >>
        BY <1>1, <1>9 DEF BlockEvents
      <3>2. v \o << a, d, z >> = v1
        BY <1>2, <1>4, <1>6, <2>1, Three
      <3> QED
        BY <3>1, <3>2
    <2> QED
      BY <2>9, <2>10
  <1> QED
    BY <1>8, <1>9

\* The middle of synthesize_sse_response()
EventsOf(s) == Flattened([i \in DOMAIN s |-> BlockEvents(i - 1, s[i])])

\* The events of any pieces
LEMMA WhatStreams ==
    ASSUME NEW s \in Seq(Piece)
    PROVE  Streams(s, EventsOf(s))
  <1> DEFINE A == {t \in Seq(Piece) : Streams(t, EventsOf(t))}
  <1>1. <<>> \in A
    <2>1. [i \in DOMAIN <<>> |-> BlockEvents(i - 1, <<>>[i])] = <<>>
      OBVIOUS
    <2>2. EventsOf(<<>>) = <<>>
      BY <2>1, FlattenedEmpty DEF EventsOf
    <2>3. Streams(<<>>, <<>>)
      BY OfKindsEmpty DEF Streams
    <2> QED
      BY <2>2, <2>3
  <1>2. ASSUME NEW t \in Seq(Piece), NEW e \in Piece, t \in A
        PROVE  Append(t, e) \in A
    <2> DEFINE p == [i \in DOMAIN t |-> BlockEvents(i - 1, t[i])]
               q == [i \in DOMAIN Append(t, e) |-> BlockEvents(i - 1, Append(t, e)[i])]
               T == {BlockEvents(i, b) : i \in Nat, b \in Piece}
    <2>1. PICK n \in Nat : n = Len(t)
      BY Appended
    <2>2. Goes(p, n) /\ Goes(q, n + 1)
      BY <2>1, Appended DEF Goes
    <2>3. q[n + 1] = BlockEvents(n, e) /\ BlockEvents(n, e) \in T
      <3>1. n + 1 \in 1..(n + 1) /\ n + 1 - 1 = n
        OBVIOUS
      <3> QED
        BY <2>1, <3>1, Appended
    <2>4. \A i \in 1..n : q[i] = p[i] /\ p[i] \in T
      <3>1. \A i \in 1..n : i - 1 \in Nat
        OBVIOUS
      <3> QED
        BY <2>1, <3>1, Appended
    <2>5. EventsOf(t) = Flattened(p) /\ EventsOf(Append(t, e)) = Flattened(q)
      BY DEF EventsOf
    <2> HIDE DEF p, q, T
    <2>6. EventsOf(Append(t, e)) = Then(EventsOf(t), BlockEvents(n, e))
      <3>1. Grows(T, n, p, q, BlockEvents(n, e))
        BY <2>1, <2>2, <2>3, <2>4 DEF Grows
      <3> QED
        BY <2>5, <3>1, FlattenedGrows
    <2>7. Streams(Append(t, e), EventsOf(t) \o BlockEvents(n, e))
      BY <1>2, <2>1, StreamsOne
    <2> QED
      BY <2>6, <2>7, Appended DEF Then
  <1>3. Seq(Piece) \subseteq A
    <2> HIDE DEF A
    <2> QED
      BY <1>1, <1>2, SequencesFromTheEnd
  <1> QED
    BY <1>3

\* One in front that is not of the kinds changes nothing.
LEMMA OfKindsBehind ==
    ASSUME NEW S, NEW h \in S, NEW s \in Seq(S), NEW kinds, h.kind \notin kinds
    PROVE  OfKinds(<< h >> \o s, kinds) = OfKinds(s, kinds)
  <1> DEFINE A == {t \in Seq(S) : OfKinds(<< h >> \o t, kinds) = OfKinds(t, kinds)}
  <1>0. << h >> \in Seq(S) /\ <<>> \in Seq(S)
    OBVIOUS
  <1>1. <<>> \in A
    <2>1. << h >> \o <<>> = Append(<<>>, h)
      OBVIOUS
    <2>2. OfKinds(Append(<<>>, h), kinds) = OfKinds(<<>>, kinds)
      BY <1>0, OfKindsSkip, Zenon
    <2> QED
      BY <1>0, <2>1, <2>2
  <1>2. ASSUME NEW t \in Seq(S), NEW e \in S, t \in A
        PROVE  Append(t, e) \in A
    <2>1. PICK u \in Seq(S) : u = << h >> \o t
      BY <1>0, ConcatProperties
    <2>2. << h >> \o Append(t, e) = Append(u, e)
      BY <1>0, <2>1
    <2>3. OfKinds(u, kinds) = OfKinds(t, kinds)
      BY <1>2, <2>1
    <2>4. OfKinds(Append(u, e), kinds) = OfKinds(Append(t, e), kinds)
      <3>1. OfKinds(Append(u, e), kinds) = Then(OfKinds(u, kinds), One(e, kinds))
        BY <2>1, OfKindsAppend
      <3>2. OfKinds(Append(t, e), kinds) = Then(OfKinds(t, kinds), One(e, kinds))
        BY OfKindsAppend
      <3> QED
        BY <2>3, <3>1, <3>2
    <2>5. Append(t, e) \in Seq(S)
      BY Appended
    <2> QED
      BY <2>2, <2>4, <2>5
  <1>3. Seq(S) \subseteq A
    <2> HIDE DEF A
    <2> QED
      BY <1>1, <1>2, SequencesFromTheEnd
  <1> QED
    BY <1>3

\* What a stream of the pieces s is
Presents(s, w) ==
    /\ w # <<>>
    /\ \E n \in Nat, m \in Nat :
         /\ DOMAIN s = 1..n /\ DOMAIN w = 1..m
         /\ DOMAIN OfKinds(w, StartKinds) = 1..n
         /\ \A i \in 1..n : OfKinds(w, StartKinds)[i].block = s[i]
    /\ \A i, j \in DOMAIN w :
         w[i].kind = "content_block_start" /\ i < j
           /\ w[j].kind \in {"content_block_start", "message_delta"}
         => \E k \in i..j : w[k].kind = "content_block_stop" /\ w[k].index = w[i].index
    /\ w[Len(w) - 1].stop = talk.stop

LEMMA Framed ==
    ASSUME NEW S, NEW v \in Seq(S), NEW h \in S, NEW d \in S, NEW z \in S,
           NEW m \in Nat, m = Len(v), NEW w, w = << h >> \o v \o << d, z >>
    PROVE  /\ w \in Seq(S) /\ Len(w) = m + 3 /\ DOMAIN w = 1..(m + 3)
           /\ w[1] = h /\ w[m + 2] = d /\ w[m + 3] = z
           /\ \A i \in 1..m : w[i + 1] = v[i]
  <1>1. PICK u : u = << h >> \o v
    OBVIOUS
  <1>2. << h >> \in Seq(S) /\ << d, z >> \in Seq(S)
    OBVIOUS
  <1>3. u \in Seq(S) /\ Len(u) = m + 1 /\ u[1] = h /\ \A i \in 1..m : u[i + 1] = v[i]
    <2>1. u \in Seq(S) /\ Len(u) = 1 + m
      BY <1>1, <1>2, ConcatProperties
    <2>2. \A i \in 1..(1 + m) : u[i] = IF i <= 1 THEN << h >>[i] ELSE v[i - 1]
      BY <1>1, <1>2, ConcatProperties
    <2>3. u[1] = h
      BY <2>2
    <2>4. ASSUME NEW i \in 1..m
          PROVE  u[i + 1] = v[i]
      <3>1. PICK j \in 1..(1 + m) : j = i + 1 /\ ~ (j <= 1) /\ j - 1 = i
        OBVIOUS
      <3> QED
        BY <2>2, <3>1
    <2> QED
      BY <2>1, <2>3, <2>4
  <1>4. PICK n \in Nat : n = m + 1 /\ n = Len(u)
    BY <1>3
  <1>5. w = u \o << d, z >> /\ Len(<< d, z >>) = 2
    BY <1>1
  <1>6. w \in Seq(S) /\ Len(w) = n + 2
    BY <1>2, <1>3, <1>4, <1>5, ConcatProperties
  <1>7. \A i \in 1..(n + 2) : w[i] = IF i <= n THEN u[i] ELSE << d, z >>[i - n]
    BY <1>2, <1>3, <1>4, <1>5, ConcatProperties
  <1>8. \A i \in 1..n : w[i] = u[i]
    <2>1. \A i \in 1..n : i \in 1..(n + 2) /\ i <= n
      OBVIOUS
    <2> QED
      BY <1>7, <2>1
  <1>9. w[n + 1] = d /\ w[n + 2] = z
    <2>1. PICK a \in 1..(n + 2), b \in 1..(n + 2) :
            a = n + 1 /\ b = n + 2 /\ ~ (a <= n) /\ ~ (b <= n) /\ a - n = 1 /\ b - n = 2
      OBVIOUS
    <2>2. << d, z >>[1] = d /\ << d, z >>[2] = z
      OBVIOUS
    <2> QED
      BY <1>7, <2>1, <2>2
  <1>10. DOMAIN w = 1..(m + 3)
    BY <1>4, <1>6
  <1>11. n + 1 = m + 2 /\ n + 2 = m + 3 /\ 1 \in 1..n /\ \A i \in 1..m : i + 1 \in 1..n
    BY <1>4
  <1>12. \A i \in 1..m : w[i + 1] = v[i]
    BY <1>3, <1>8, <1>11
  <1> QED
    BY <1>3, <1>6, <1>8, <1>9, <1>10, <1>11, <1>12

\* What synthesize_sse_response() makes of any pieces
LEMMA WhatPresents ==
    ASSUME NEW s \in Seq(Piece)
    PROVE  Presents(s, Events(s))
  <1>1. PICK v : v = EventsOf(s)
    OBVIOUS
  <1>2. Streams(s, v) /\ v \in Seq(BlockEvent)
    <2>1. Streams(s, EventsOf(s))
      BY WhatStreams
    <2>2. Streams(s, v)
      BY <1>1, <2>1
    <2> QED
      BY <2>2 DEF Streams
  <1>3. PICK h, d, z : /\ h = [kind |-> "message_start"]
                       /\ d = [kind |-> "message_delta", stop |-> talk.stop]
                       /\ z = [kind |-> "message_stop"]
    OBVIOUS
  <1>4. PICK S : S = BlockEvent \cup {h, d, z}
    OBVIOUS
  <1>5. h \in S /\ d \in S /\ z \in S /\ v \in Seq(S)
    <2>1. BlockEvent \subseteq S
      BY <1>4
    <2>2. v \in Seq(S)
      BY <1>2, <2>1, SeqMonotonic
    <2> QED
      BY <1>4, <2>2
  <1>6. PICK w : w = << h >> \o v \o << d, z >>
    OBVIOUS
  <1>7. Events(s) = w
    BY <1>1, <1>3, <1>6 DEF Events, EventsOf
  <1>8. PICK m \in Nat, n \in Nat : m = Len(v) /\ n = Len(s)
    BY <1>2, Appended, <1>5
  <1>9. /\ w \in Seq(S) /\ Len(w) = m + 3 /\ DOMAIN w = 1..(m + 3)
        /\ w[1] = h /\ w[m + 2] = d /\ w[m + 3] = z
        /\ \A i \in 1..m : w[i + 1] = v[i]
    BY <1>5, <1>6, <1>8, Framed
  <1>10. OfKinds(w, StartKinds) = OfKinds(v, StartKinds)
    <2>0. h.kind \notin StartKinds /\ d.kind \notin StartKinds /\ z.kind \notin StartKinds
      BY <1>3 DEF StartKinds
    <2>1. PICK u \in Seq(S) : u = << h >> \o v
      <3>1. << h >> \in Seq(S)
        BY <1>5
      <3> QED
        BY <1>5, <3>1, ConcatProperties
    <2>2. w = Append(Append(u, d), z) /\ Append(u, d) \in Seq(S)
      BY <1>5, <1>6, <2>1, Two, Appended
    <2>3. OfKinds(u, StartKinds) = OfKinds(v, StartKinds)
      BY <1>5, <2>0, <2>1, OfKindsBehind
    <2>4. OfKinds(Append(u, d), StartKinds) = OfKinds(u, StartKinds)
      BY <1>5, <2>0, <2>1, OfKindsSkip, Zenon
    <2>5. OfKinds(Append(Append(u, d), z), StartKinds) = OfKinds(Append(u, d), StartKinds)
      BY <1>5, <2>0, <2>2, OfKindsSkip, Zenon
    <2> QED
      BY <2>2, <2>3, <2>4, <2>5
  <1>11. /\ DOMAIN s = 1..n /\ DOMAIN OfKinds(v, StartKinds) = 1..n
         /\ \A i \in 1..n : OfKinds(v, StartKinds)[i].block = s[i]
    <2>1. OfKinds(v, StartKinds) \in Seq(BlockEvent)
      BY <1>2, OfKindsType
    <2>2. /\ Len(OfKinds(v, StartKinds)) = n
          /\ \A i \in 1..n : OfKinds(v, StartKinds)[i].block = s[i]
      BY <1>2, <1>8 DEF Streams
    <2>3. DOMAIN OfKinds(v, StartKinds) = 1..n
      BY <2>1, <2>2
    <2>4. DOMAIN s = 1..n
      BY <1>8
    <2> QED
      BY <2>2, <2>3, <2>4
  <1>12. \A i \in 1..m :
          v[i].kind = "content_block_start" =>
             \E j \in 1..m :
                /\ i < j /\ v[j].kind = "content_block_stop" /\ v[j].index = v[i].index
                /\ \A l \in 1..j : i < l => v[l].kind # "content_block_start"
    BY <1>2, <1>8 DEF Streams
  <1>13. \A i \in 1..m : v[i].kind # "message_delta"
    <2>1. \A i \in 1..m : v[i] \in BlockEvent
      BY <1>2, <1>8, ElementOfSeq
    <2> QED
      BY <2>1 DEF BlockEvent
  <1>14. ASSUME NEW i \in 1..(m + 3), NEW j \in 1..(m + 3),
                w[i].kind = "content_block_start", i < j,
                w[j].kind \in {"content_block_start", "message_delta"}
         PROVE  \E k \in i..j : w[k].kind = "content_block_stop" /\ w[k].index = w[i].index
    <2>1. i # 1 /\ i # m + 2 /\ i # m + 3
      <3>1. /\ h.kind # "content_block_start" /\ d.kind # "content_block_start"
            /\ z.kind # "content_block_start"
        BY <1>3
      <3>2. w[i] # h /\ w[i] # d /\ w[i] # z
        BY <1>14, <3>1
      <3> QED
        BY <1>9, <3>2
    <2>2. PICK a \in 1..m : i = a + 1
      <3>1. i - 1 \in 1..m /\ i = (i - 1) + 1
        BY <2>1
      <3> QED
        BY <3>1
    <2>3. v[a].kind = "content_block_start" /\ v[a] = w[i]
      BY <1>9, <1>14, <2>2
    <2>4. PICK b \in 1..m :
              /\ a < b /\ v[b].kind = "content_block_stop" /\ v[b].index = v[a].index
              /\ \A l \in 1..b : a < l => v[l].kind # "content_block_start"
      BY <1>12, <2>3
    <2>5. w[b + 1] = v[b]
      BY <1>9
    <2>6. b + 1 < j
      <3> SUFFICES ASSUME j <= b + 1 PROVE FALSE
        OBVIOUS
      <3>1. PICK l \in 1..b : j = l + 1 /\ a < l /\ l \in 1..m
        <4>1. j - 1 \in 1..b /\ j = (j - 1) + 1 /\ a < j - 1 /\ j - 1 \in 1..m
          BY <1>14, <2>2
        <4> QED
          BY <4>1
      <3>2. w[j] = v[l]
        BY <1>9, <3>1
      <3>3. v[l].kind # "content_block_start" /\ v[l].kind # "message_delta"
        BY <1>13, <2>4, <3>1
      <3> QED
        BY <1>14, <3>2, <3>3
    <2>7. b + 1 \in i..j
      BY <2>2, <2>4, <2>6
    <2> QED
      BY <2>3, <2>4, <2>5, <2>7
  <1>15. w # <<>> /\ w[Len(w) - 1].stop = talk.stop
    <2>1. Len(w) - 1 = m + 2
      BY <1>9
    <2>2. w # <<>>
      BY <1>9
    <2> QED
      BY <1>3, <1>9, <2>1, <2>2
  <1>16. Presents(s, w)
    <2>1. \E a \in Nat, b \in Nat :
         /\ DOMAIN s = 1..a /\ DOMAIN w = 1..b
         /\ DOMAIN OfKinds(w, StartKinds) = 1..a
         /\ \A i \in 1..a : OfKinds(w, StartKinds)[i].block = s[i]
      <3>1. m + 3 \in Nat
        OBVIOUS
      <3> QED
        BY <1>8, <1>9, <1>10, <1>11, <3>1
    <2>2. \A i, j \in DOMAIN w :
         w[i].kind = "content_block_start" /\ i < j
           /\ w[j].kind \in {"content_block_start", "message_delta"}
         => \E k \in i..j : w[k].kind = "content_block_stop" /\ w[k].index = w[i].index
      BY <1>9, <1>14
    <2> QED
      BY <1>15, <2>1, <2>2 DEF Presents
  <1> QED
    BY <1>7, <1>16

-----------------------------------------------------------------------------
(* The loop *)

ToolNames ==
    {"none"} \cup UNION {{tools[i].name : i \in DOMAIN tools} : tools \in Toolsets}

Result == [id : Id, is_error : BOOLEAN]

TalkType ==
    [phase : {"tools", "passed", "call", "search", "refused", "answer", "done"},
     tools : SUBSET ToolNames, context : [name : ToolNames, uses : Nat], round : Nat,
     messages : Seq([assistant : Seq(Block), user : Seq(Result)]),
     content : Seq(Block), reply : Seq(Block),
     stop : {"none", "tool_use", "end_turn", "max_tokens"},
     results : Seq(Result), searches : Nat, found : SUBSET Id]

SearchesOf(blocks) == {b \in Range(blocks) : IsSearch(b)}

\* Nothing is said before the first call.
Silent ==
    talk.phase \in {"tools", "passed"} =>
      /\ heard = <<>> /\ talk.content = <<>> /\ talk.messages = <<>>
      /\ talk.round = 1 /\ talk.searches = 0

\* The rounds up to the cap, each with its own blocks
InRounds ==
    /\ talk.searches <= talk.context.uses
    /\ talk.phase \in {"call", "search"} => 1 <= talk.round /\ talk.round <= MaxIterations
    /\ \A b \in Range(heard) : b.id[1] <= MaxIterations

\* What was said is in the content, or in the reply that is being answered.
AllKept ==
    /\ talk.phase \in {"call", "answer", "done"} => heard = talk.content
    /\ talk.phase = "search" => heard = talk.content \o talk.reply

\* The reply asks for searches, and only they have results.
Searching ==
    talk.phase = "search" =>
      /\ SearchesOf(talk.reply) # {}
      /\ \A b \in Range(talk.reply) : b.id[1] = talk.round
      /\ Ids(Range(talk.results)) \subseteq Ids(SearchesOf(talk.reply))

\* A message that the model sees again: its searches, and only they, have
\* results in the one that follows.
Exchanged(e) ==
    /\ Ids(Range(e.user)) = Ids(SearchesOf(e.assistant))
    /\ SearchesOf(e.assistant) # {}
    /\ Range(e.assistant) \subseteq Range(heard)
    /\ \A b, c \in Range(e.assistant) : b.id[1] = c.id[1]

\* The ways to an answer that the client is to act upon
Left ==
    talk.phase \in {"answer", "done"} /\ talk.stop = "tool_use" =>
      \/ \E b \in Range(talk.content) : UsesTool(b) /\ ~IsSearch(b)
      \/ talk.round > MaxIterations
      \/ talk.results # <<>> /\ AllRejected

Answers ==
    talk.phase = "done" =>
      \/ answer.events = Events(Rewritten)
      \/ answer.events = <<>> /\ answer.content = Rewritten /\ answer.stop = talk.stop

\* The inductive invariant
ConvInv ==
    /\ talk \in TalkType /\ heard \in Seq(Block)
    /\ Silent /\ InRounds /\ AllKept /\ Searching
    /\ \A e \in Range(talk.messages) : Exchanged(e)
    /\ talk.phase = "refused" => Mixed
    /\ Left /\ Answers

LEMMA NamesOfTools ==
    /\ NoContext \in [name : ToolNames, uses : Nat]
    /\ \A tools \in Toolsets : \A i \in DOMAIN tools : tools[i].name \in ToolNames
  <1>1. "none" \in ToolNames
    BY DEF ToolNames
  <1>2. NoContext \in [name : ToolNames, uses : Nat]
    BY <1>1 DEF NoContext
  <1>3. ASSUME NEW tools \in Toolsets, NEW i \in DOMAIN tools
        PROVE  tools[i].name \in ToolNames
    <2>1. tools[i].name \in {tools[j].name : j \in DOMAIN tools}
      OBVIOUS
    <2> QED
      BY <2>1 DEF ToolNames
  <1> QED
    BY <1>2, <1>3

LEMMA ConversationStart == ConversationInit => ConvInv
  <1> SUFFICES ASSUME ConversationInit PROVE ConvInv
    OBVIOUS
  <1>1. talk \in TalkType /\ heard \in Seq(Block)
    <2>1. \A S : <<>> \in Seq(S)
      OBVIOUS
    <2>2. {} \in SUBSET ToolNames /\ {} \in SUBSET Id
      OBVIOUS
    <2> QED
      BY <2>1, <2>2, NamesOfTools DEF ConversationInit, NewTalk, TalkType
  <1>2. /\ heard = <<>> /\ talk.phase = "tools"
        /\ talk.searches = 0 /\ talk.context.uses = 0
        /\ talk.content = <<>> /\ talk.messages = <<>> /\ talk.round = 1
    BY DEF ConversationInit, NewTalk, NoContext
  <1>3. Range(<<>>) = {}
    BY DEF Range
  <1> QED
    BY <1>1, <1>2, <1>3
    DEF ConvInv, Silent, InRounds, AllKept, Searching, Left, Answers

LEMMA ContextIs ==
    ASSUME ConversationAssumption, NEW tools \in Toolsets
    PROVE  Context(tools) \in [name : ToolNames, uses : Nat]
  <1> DEFINE web == {i \in DOMAIN tools : tools[i].web}
  <1>1. PICK names : names = {tools[i].name : i \in DOMAIN tools}
    OBVIOUS
  <1>2. tools \in Seq([web : BOOLEAN, name : names, uses : Nat])
    BY <1>1 DEF ConversationAssumption
  <1>3. PICK n \in Nat : DOMAIN tools = 1..n /\ n = Len(tools)
    BY <1>2
  <1>4. \A i \in DOMAIN tools : tools[i].name \in ToolNames /\ tools[i].uses \in Nat
    <2> TAKE i \in DOMAIN tools
    <2>1. tools[i] \in [web : BOOLEAN, name : names, uses : Nat]
      <3>1. i \in 1..Len(tools)
        BY <1>3
      <3> QED
        BY <1>2, <3>1, ElementOfSeq
    <2> QED
      BY <2>1, NamesOfTools
  <1>5. CASE web = {}
    <2>1. Context(tools) = NoContext
      BY <1>5 DEF Context
    <2> QED
      BY <2>1, NamesOfTools
  <1>6. CASE web # {}
    <2>1. IsFiniteSet(web)
      <3>1. IsFiniteSet(1..n)
        BY FS_Interval
      <3>2. web \subseteq 1..n
        BY <1>3
      <3> QED
        BY <3>1, <3>2, FS_Subset
    <2>2. web \subseteq Nat
      BY <1>3
    <2>3. Max(web) \in web
      BY <1>6, <2>1, <2>2, MaxIn
    <2>4. Context(tools) = [name |-> tools[Max(web)].name, uses |-> tools[Max(web)].uses]
      BY <1>6 DEF Context
    <2> QED
      BY <1>4, <2>3, <2>4
  <1> QED
    BY <1>5, <1>6

\* The steps of the loop, one lemma each
LEMMA ExtractStep ==
    ASSUME ConversationAssumption, ConvInv, NEW mode, ExtractTool(mode)
    PROVE  ConvInv'
  <1>1. talk \in TalkType /\ heard \in Seq(Block) /\ talk.phase = "tools"
    BY DEF ConvInv, ExtractTool
  <1>0. PICK tools \in Toolsets : \E ctx, kept :
          /\ ctx = IF mode = "disabled" THEN NoContext ELSE Context(tools)
          /\ kept = {tools[i].name :
                       i \in {j \in DOMAIN tools : mode = "disabled" => ~tools[j].web}}
          /\ talk' = [talk EXCEPT !.tools = kept, !.context = ctx,
                        !.phase = IF ctx = NoContext THEN "passed" ELSE "call"]
    BY DEF ExtractTool
  <1>2. PICK ctx, kept :
          /\ ctx = IF mode = "disabled" THEN NoContext ELSE Context(tools)
          /\ kept = {tools[i].name :
                       i \in {j \in DOMAIN tools : mode = "disabled" => ~tools[j].web}}
          /\ talk' = [talk EXCEPT !.tools = kept, !.context = ctx,
                        !.phase = IF ctx = NoContext THEN "passed" ELSE "call"]
    BY <1>0
  <1>3. ctx \in [name : ToolNames, uses : Nat]
    BY <1>2, ContextIs, NamesOfTools
  <1>4. kept \in SUBSET ToolNames
    BY <1>2, NamesOfTools
  <1>5. talk' \in TalkType
    BY <1>1, <1>2, <1>3, <1>4 DEF TalkType
  <1>6. /\ talk'.phase \in {"passed", "call"} /\ talk'.context = ctx
        /\ talk'.content = <<>> /\ talk'.messages = <<>>
        /\ talk'.round = 1 /\ talk'.searches = 0
    BY <1>1, <1>2 DEF TalkType, ConvInv, Silent
  <1>7. heard = <<>> /\ heard' = <<>>
    BY <1>1 DEF ConvInv, Silent, ExtractTool
  <1>8. Range(<<>>) = {}
    BY DEF Range
  <1>9. MaxIterations' \in Nat /\ MaxIterations' >= 1
    BY <1>3, <1>6 DEF MaxIterations, ConversationAssumption
  <1>10. Silent' /\ AllKept' /\ Searching' /\ Left' /\ Answers'
    BY <1>6, <1>7 DEF Silent, AllKept, Searching, Left, Answers
  <1>11. InRounds'
    BY <1>3, <1>6, <1>7, <1>8, <1>9 DEF InRounds
  <1> QED
    BY <1>1, <1>5, <1>6, <1>7, <1>8, <1>10, <1>11 DEF ConvInv

LEMMA SameContext ==
    ASSUME talk'.context = talk.context
    PROVE  /\ \A b : IsSearch(b)' <=> IsSearch(b)
           /\ \A blocks : SearchesOf(blocks)' = SearchesOf(blocks)
           /\ MaxIterations' = MaxIterations
  BY DEF IsSearch, SearchesOf, MaxIterations

LEMMA RefusedStep ==
    ASSUME ConvInv, RefusedTalk
    PROVE  ConvInv'
  <1>1. talk \in TalkType /\ heard \in Seq(Block) /\ talk.phase = "call"
    BY DEF ConvInv, RefusedTalk
  <1>2. talk' = [talk EXCEPT !.phase = "refused"] /\ heard' = heard
    BY DEF RefusedTalk
  <1>3. talk' \in TalkType
    BY <1>1, <1>2 DEF TalkType
  <1>4. /\ talk'.phase = "refused" /\ talk'.context = talk.context
        /\ talk'.messages = talk.messages /\ talk'.searches = talk.searches
    BY <1>1, <1>2 DEF TalkType
  <1>5. PICK e \in Range(talk.messages) :
          Ids({b \in Range(e.assistant) : UsesTool(b)}) # Ids(Range(e.user))
    BY DEF RefusedTalk, Accepted
  <1>6. Exchanged(e)
    BY DEF ConvInv
  <1>7. PICK b \in Range(e.assistant) : UsesTool(b) /\ ~IsSearch(b)
    BY <1>5, <1>6 DEF Exchanged, SearchesOf, IsSearch
  <1>8. PICK s \in Range(e.assistant) : IsSearch(s)
    BY <1>6 DEF Exchanged, SearchesOf
  <1>9. b \in Range(heard) /\ s \in Range(heard) /\ s.id[1] = b.id[1]
    BY <1>6, <1>7, <1>8 DEF Exchanged
  <1>10. Mixed'
    BY <1>2, <1>4, <1>7, <1>8, <1>9, SameContext DEF Mixed, UsesTool
  <1>11. \A x \in Range(talk'.messages) : Exchanged(x)'
    BY <1>2, <1>4, SameContext DEF ConvInv, Exchanged
  <1>12. InRounds'
    BY <1>2, <1>4, SameContext DEF ConvInv, InRounds
  <1>13. Silent' /\ AllKept' /\ Searching' /\ Left' /\ Answers'
    BY <1>4 DEF Silent, AllKept, Searching, Left, Answers
  <1> QED
    BY <1>1, <1>2, <1>3, <1>10, <1>11, <1>12, <1>13 DEF ConvInv

LEMMA RangeConcat ==
    ASSUME NEW S, NEW s \in Seq(S), NEW t \in Seq(S)
    PROVE  Range(s \o t) = Range(s) \cup Range(t)
  <1>1. PICK n \in Nat, m \in Nat : n = Len(s) /\ m = Len(t)
    BY LenProperties
  <1>2. PICK u : u = s \o t
    OBVIOUS
  <1>3. DOMAIN u = 1..(n + m) /\ DOMAIN s = 1..n /\ DOMAIN t = 1..m
    BY <1>1, <1>2, ConcatProperties
  <1>4. \A i \in 1..(n + m) : u[i] = IF i <= n THEN s[i] ELSE t[i - n]
    BY <1>1, <1>2, ConcatProperties
  <1>5. \A i \in 1..n : i \in 1..(n + m) /\ i <= n
    OBVIOUS
  <1>6. \A i \in 1..m : n + i \in 1..(n + m) /\ ~ (n + i <= n) /\ (n + i) - n = i
    OBVIOUS
  <1>7. \A i \in 1..(n + m) : i \in 1..n \/ i - n \in 1..m
    OBVIOUS
  <1>8. Range(u) \subseteq Range(s) \cup Range(t)
    <2> SUFFICES ASSUME NEW i \in 1..(n + m) PROVE u[i] \in Range(s) \cup Range(t)
      BY <1>3 DEF Range
    <2>1. CASE i <= n
      <3>1. u[i] = s[i] /\ i \in 1..n
        BY <1>4, <2>1
      <3> QED
        BY <1>3, <3>1 DEF Range
    <2>2. CASE ~ (i <= n)
      <3>0. i - n \in 1..m
        BY <2>2
      <3>1. i - n \in 1..m /\ u[i] = t[i - n]
        BY <1>4, <2>2, <3>0
      <3> QED
        BY <1>3, <3>1 DEF Range
    <2> QED
      BY <2>1, <2>2
  <1>9. Range(s) \subseteq Range(u)
    <2>1. \A i \in 1..n : u[i] = s[i]
      BY <1>4, <1>5
    <2> QED
      BY <1>3, <1>5, <2>1 DEF Range
  <1>10. Range(t) \subseteq Range(u)
    <2>1. \A i \in 1..m : u[n + i] = t[i]
      <3> TAKE i \in 1..m
      <3>1. n + i \in 1..(n + m) /\ ~ (n + i <= n) /\ (n + i) - n = i
        BY <1>6
      <3> QED
        BY <1>4, <3>1
    <2> QED
      BY <1>3, <1>6, <2>1 DEF Range
  <1> QED
    BY <1>2, <1>8, <1>9, <1>10

LEMMA RespondStep ==
    ASSUME ConversationAssumption, ConvInv, Respond
    PROVE  ConvInv'
  <1>1. talk \in TalkType /\ heard \in Seq(Block) /\ talk.phase = "call"
    BY DEF ConvInv, Respond
  <1>0. PICK kinds \in Replies, stop \in {"tool_use", "end_turn", "max_tokens"} :
          LET blocks == Said(kinds)
              tools == {b \in Range(blocks) : UsesTool(b)}
              last == (\A b \in tools : ~IsSearch(b)) \/ stop # "tool_use"
          IN  /\ (stop = "tool_use") => tools # {}
              /\ heard' = heard \o blocks
              /\ talk' = [talk EXCEPT
                   !.reply = blocks, !.stop = stop, !.results = <<>>,
                   !.content = IF last THEN @ \o blocks ELSE @,
                   !.phase = IF last THEN "answer" ELSE "search"]
    BY DEF Respond
  <1>2. PICK blocks, tools, last :
          /\ blocks = Said(kinds) /\ tools = {b \in Range(blocks) : UsesTool(b)}
          /\ last = ((\A b \in tools : ~IsSearch(b)) \/ stop # "tool_use")
          /\ (stop = "tool_use") => tools # {}
          /\ heard' = heard \o blocks
          /\ talk' = [talk EXCEPT
                  !.reply = blocks, !.stop = stop, !.results = <<>>,
                  !.content = IF last THEN @ \o blocks ELSE @,
                  !.phase = IF last THEN "answer" ELSE "search"]
    BY <1>0
  <1>3. blocks \in Seq(Block) /\ \A b \in Range(blocks) : b.id[1] = talk.round
    <2>1. kinds \in Seq(Range(kinds)) /\ Range(kinds) \subseteq Names
      BY DEF ConversationAssumption, Names
    <2>2. PICK n \in Nat : n = Len(kinds) /\ DOMAIN kinds = 1..n /\ DOMAIN blocks = 1..n
      <3>1. PICK T : T = Range(kinds)
        OBVIOUS
      <3>2. kinds \in Seq(T)
        BY <2>1, <3>1
      <3>3. Len(kinds) \in Nat /\ DOMAIN kinds = 1..Len(kinds)
        BY <3>2, LenProperties
      <3>4. DOMAIN blocks = DOMAIN kinds
        BY <1>2 DEF Said
      <3> QED
        BY <3>3, <3>4
    <2>3. ASSUME NEW i \in 1..n
          PROVE  blocks[i] \in Block /\ blocks[i].id[1] = talk.round
      <3>1. kinds[i] \in Names
        BY <2>1, <2>2 DEF Range
      <3>2. talk.round \in Nat
        BY <1>1 DEF TalkType
      <3>3. blocks[i] = [kind |-> IF kinds[i] = "text" THEN "text" ELSE "tool_use",
                         name |-> kinds[i], id |-> <<talk.round, i>>]
        BY <1>2, <2>2 DEF Said
      <3>4. <<talk.round, i>> \in Id
        BY <3>2 DEF Id
      <3> QED
        BY <3>1, <3>3, <3>4 DEF Block
    <2>4. blocks = [i \in 1..n |-> blocks[i]]
      BY <1>2, <2>2 DEF Said
    <2>5. blocks \in [1..n -> Block]
      BY <2>3, <2>4
    <2>6. blocks \in Seq(Block)
      BY <2>5
    <2>7. \A b \in Range(blocks) : b.id[1] = talk.round
      BY <2>2, <2>3 DEF Range
    <2> QED
      BY <2>6, <2>7
  <1>4. heard' \in Seq(Block) /\ Range(heard') = Range(heard) \cup Range(blocks)
    BY <1>1, <1>2, <1>3, ConcatProperties, RangeConcat
  <1>5. PICK content \in Seq(Block) :
          content = IF last THEN talk.content \o blocks ELSE talk.content
    <2>1. talk.content \in Seq(Block)
      BY <1>1 DEF TalkType
    <2>2. talk.content \o blocks \in Seq(Block)
      BY <1>3, <2>1, ConcatProperties
    <2> QED
      BY <2>1, <2>2
  <1>6. talk' = [talk EXCEPT !.reply = blocks, !.stop = stop, !.results = <<>>,
                   !.content = content, !.phase = IF last THEN "answer" ELSE "search"]
    BY <1>2, <1>5
  <1>7. talk' \in TalkType
    <2>1. <<>> \in Seq(Result)
      OBVIOUS
    <2> QED
      BY <1>1, <1>3, <1>6, <2>1 DEF TalkType
  <1>8. /\ talk'.phase = IF last THEN "answer" ELSE "search"
        /\ talk'.reply = blocks /\ talk'.stop = stop /\ talk'.results = <<>>
        /\ talk'.content = content /\ talk'.context = talk.context
        /\ talk'.messages = talk.messages /\ talk'.searches = talk.searches
        /\ talk'.round = talk.round
    BY <1>1, <1>6 DEF TalkType
  <1>9. \A x \in Range(talk'.messages) : Exchanged(x)'
    BY <1>4, <1>8, SameContext DEF ConvInv, Exchanged
  <1>10. InRounds'
    <2>1. /\ talk.searches <= talk.context.uses
          /\ 1 <= talk.round /\ talk.round <= MaxIterations
          /\ \A b \in Range(heard) : b.id[1] <= MaxIterations
      BY <1>1 DEF ConvInv, InRounds
    <2>2. \A b \in Range(heard') : b.id[1] <= MaxIterations
      BY <1>3, <1>4, <2>1
    <2> QED
      BY <1>8, <2>1, <2>2, SameContext DEF InRounds
  <1>11. AllKept'
    <2>1. heard = talk.content
      BY <1>1 DEF ConvInv, AllKept
    <2>2. last => heard' = content
      BY <1>2, <1>5, <2>1
    <2>3. ~last => heard' = content \o blocks
      BY <1>2, <1>5, <2>1
    <2> QED
      BY <1>8, <2>2, <2>3 DEF AllKept
  <1>12. Searching'
    <2>1. ASSUME ~last
          PROVE  SearchesOf(blocks) # {}
      BY <1>2, <2>1 DEF SearchesOf
    <2>2. Range(<<>>) = {} /\ Ids({}) = {}
      BY DEF Range, Ids
    <2> QED
      BY <1>3, <1>8, <2>1, <2>2, SameContext DEF Searching
  <1>13. Left'
    <2>1. ASSUME last, stop = "tool_use"
          PROVE  \E b \in Range(content) : UsesTool(b) /\ ~IsSearch(b)
      <3>1. PICK b \in Range(blocks) : UsesTool(b) /\ ~IsSearch(b)
        BY <1>2, <2>1
      <3>2. heard = talk.content
        BY <1>1 DEF ConvInv, AllKept
      <3>3. Range(blocks) \subseteq Range(content)
        BY <1>1, <1>3, <1>5, <2>1, <3>2, RangeConcat
      <3> QED
        BY <3>1, <3>3
    <2> QED
      BY <1>8, <2>1, SameContext DEF Left
  <1>14. Silent' /\ Answers' /\ talk'.phase # "refused"
    BY <1>8 DEF Silent, Answers
  <1> QED
    BY <1>4, <1>7, <1>9, <1>10, <1>11, <1>12, <1>13, <1>14 DEF ConvInv

LEMMA RangeAppend ==
    ASSUME NEW S, NEW s \in Seq(S), NEW e \in S
    PROVE  Range(Append(s, e)) = Range(s) \cup {e}
  <1>1. PICK n \in Nat : n = Len(s)
    BY LenProperties
  <1>2. \A i \in 1..(n + 1) : i \in 1..n \/ i = n + 1
    OBVIOUS
  <1>3. n + 1 \in 1..(n + 1) /\ \A i \in 1..n : i \in 1..(n + 1)
    OBVIOUS
  <1>4. /\ DOMAIN s = 1..n /\ DOMAIN Append(s, e) = 1..(n + 1)
        /\ \A i \in 1..n : Append(s, e)[i] = s[i]
        /\ Append(s, e)[n + 1] = e
    BY <1>1, Appended
  <1> QED
    BY <1>2, <1>3, <1>4 DEF Range

LEMMA ExecuteStep ==
    ASSUME ConvInv, ExecuteSearch
    PROVE  ConvInv'
  <1> DEFINE WithResult(i, error) ==
               Append(talk.results, [id |-> talk.reply[i].id, is_error |-> error])
             Fails(i) == talk' = [talk EXCEPT !.results = WithResult(i, TRUE)]
             Finds(i) == /\ talk.searches < talk.context.uses
                         /\ talk' = [talk EXCEPT !.results = WithResult(i, FALSE),
                                                 !.searches = @ + 1,
                                                 !.found = @ \cup {talk.reply[i].id}]
  <1>1. /\ talk \in TalkType /\ heard \in Seq(Block)
        /\ talk.phase = "search" /\ heard' = heard
    BY DEF ConvInv, ExecuteSearch
  <1>2. PICK i \in Pending, error \in BOOLEAN, found \in SUBSET Id, done \in Nat :
          /\ talk' = [talk EXCEPT !.results = WithResult(i, error),
                                  !.searches = done, !.found = found]
          /\ \/ done = talk.searches
             \/ talk.searches < talk.context.uses /\ done = talk.searches + 1
    <2>1. PICK i \in Pending : Fails(i) \/ Finds(i)
      BY DEF ExecuteSearch
    <2>2. talk.searches \in Nat /\ talk.found \in SUBSET Id /\ talk.reply[i].id \in Id
      <3>1. /\ talk.searches \in Nat /\ talk.found \in SUBSET Id
            /\ talk.reply \in Seq(Block)
        BY <1>1 DEF TalkType
      <3>2. i \in 1..Len(talk.reply)
        BY <2>1, <3>1 DEF Pending
      <3>3. talk.reply[i] \in Block
        BY <3>1, <3>2, ElementOfSeq
      <3> QED
        BY <3>1, <3>3 DEF Block
    <2>3. CASE Fails(i)
      <3>1. talk' = [talk EXCEPT !.results = WithResult(i, TRUE),
                                 !.searches = talk.searches, !.found = talk.found]
        BY <1>1, <2>3 DEF TalkType
      <3> QED
        BY <2>2, <3>1
    <2>4. CASE Finds(i)
      <3>1. talk' = [talk EXCEPT !.results = WithResult(i, FALSE),
                                 !.searches = talk.searches + 1,
                                 !.found = talk.found \cup {talk.reply[i].id}]
        BY <2>4
      <3>2. /\ talk.searches + 1 \in Nat
            /\ talk.found \cup {talk.reply[i].id} \in SUBSET Id
        BY <2>2
      <3> QED
        BY <2>2, <2>4, <3>1, <3>2
    <2> QED
      BY <2>1, <2>3, <2>4
  <1>3. PICK b \in Range(talk.reply) : IsSearch(b) /\ b = talk.reply[i]
    BY <1>2 DEF Pending, Range
  <1>4. PICK result \in Result : result = [id |-> b.id, is_error |-> error]
    <2>1. b \in Block
      BY <1>1, <1>3, ElementOfSeq DEF TalkType, Range
    <2> QED
      BY <2>1 DEF Block, Result
  <1>5. PICK results \in Seq(Result) :
          /\ results = Append(talk.results, result)
          /\ Range(results) = Range(talk.results) \cup {result}
    <2>1. talk.results \in Seq(Result)
      BY <1>1 DEF TalkType
    <2>2. Append(talk.results, result) \in Seq(Result)
      BY <2>1, AppendProperties
    <2>3. Range(Append(talk.results, result)) = Range(talk.results) \cup {result}
      BY <2>1, RangeAppend
    <2> QED
      BY <2>2, <2>3
  <1>6. talk' = [talk EXCEPT !.results = results, !.searches = done, !.found = found]
    BY <1>2, <1>3, <1>4, <1>5
  <1>7. talk' \in TalkType
    BY <1>1, <1>6 DEF TalkType
  <1>8. /\ talk'.phase = "search" /\ talk'.reply = talk.reply /\ talk'.results = results
        /\ talk'.content = talk.content /\ talk'.context = talk.context
        /\ talk'.messages = talk.messages /\ talk'.searches = done
        /\ talk'.round = talk.round
    BY <1>1, <1>6 DEF TalkType
  <1>9. \A x \in Range(talk'.messages) : Exchanged(x)'
    BY <1>1, <1>8, SameContext DEF ConvInv, Exchanged
  <1>10. InRounds'
    <2>1. done <= talk.context.uses
      BY <1>1, <1>2 DEF ConvInv, InRounds, TalkType
    <2> QED
      BY <1>1, <1>8, <2>1, SameContext DEF ConvInv, InRounds
  <1>11. AllKept'
    BY <1>1, <1>8 DEF ConvInv, AllKept
  <1>12. Searching'
    <2>1. /\ SearchesOf(talk.reply) # {}
          /\ \A x \in Range(talk.reply) : x.id[1] = talk.round
          /\ Ids(Range(talk.results)) \subseteq Ids(SearchesOf(talk.reply))
      BY <1>1 DEF ConvInv, Searching
    <2>2. Ids(Range(results)) = Ids(Range(talk.results)) \cup {b.id}
      BY <1>4, <1>5 DEF Ids
    <2>3. b.id \in Ids(SearchesOf(talk.reply))
      BY <1>3 DEF SearchesOf, Ids
    <2> QED
      BY <1>8, <2>1, <2>2, <2>3, SameContext DEF Searching
  <1>13. Silent' /\ Answers' /\ Left' /\ talk'.phase # "refused"
    BY <1>8 DEF Silent, Answers, Left
  <1> QED
    BY <1>1, <1>7, <1>9, <1>10, <1>11, <1>12, <1>13 DEF ConvInv

LEMMA EndRoundStep ==
    ASSUME ConversationAssumption, ConvInv, EndRound
    PROVE  ConvInv'
  <1>1. talk \in TalkType /\ heard \in Seq(Block) /\ talk.phase = "search" /\ heard' = heard
    BY DEF ConvInv, EndRound
  <1>2. /\ SearchesOf(talk.reply) # {}
        /\ \A x \in Range(talk.reply) : x.id[1] = talk.round
        /\ Ids(Range(talk.results)) \subseteq Ids(SearchesOf(talk.reply))
        /\ heard = talk.content \o talk.reply
    BY <1>1 DEF ConvInv, Searching, AllKept
  <1>3. talk.reply \in Seq(Block) /\ talk.results \in Seq(Result) /\ talk.content \in Seq(Block)
        /\ talk.round \in Nat
    BY <1>1 DEF TalkType
  <1>4. Ids(SearchesOf(talk.reply)) \subseteq Ids(Range(talk.results))
    BY DEF EndRound, Pending, Ids, SearchesOf, Range
  <1>5. talk.results # <<>>
    <2>1. Range(<<>>) = {} /\ Ids({}) = {}
      BY DEF Range, Ids
    <2>2. Ids(SearchesOf(talk.reply)) # {}
      BY <1>2 DEF Ids
    <2> QED
      BY <1>4, <2>1, <2>2
  <1>6. CASE AllRejected
    <2>1. talk' = [talk EXCEPT !.content = heard, !.phase = "answer"]
      BY <1>2, <1>6 DEF EndRound
    <2>2. talk' \in TalkType
      BY <1>1, <2>1 DEF TalkType
    <2>3. /\ talk'.phase = "answer" /\ talk'.content = heard /\ talk'.context = talk.context
          /\ talk'.messages = talk.messages /\ talk'.searches = talk.searches
          /\ talk'.results = talk.results /\ talk'.round = talk.round
      BY <1>1, <2>1 DEF TalkType
    <2>4. \A x \in Range(talk'.messages) : Exchanged(x)'
      BY <1>1, <2>3, SameContext DEF ConvInv, Exchanged
    <2>5. InRounds'
      BY <1>1, <2>3, SameContext DEF ConvInv, InRounds
    <2>6. Left'
      BY <1>5, <1>6, <2>3 DEF Left, AllRejected
    <2>7. Silent' /\ AllKept' /\ Searching' /\ Answers' /\ talk'.phase # "refused"
      BY <1>1, <2>3 DEF Silent, AllKept, Searching, Answers
    <2> QED
      BY <1>1, <2>2, <2>4, <2>5, <2>6, <2>7 DEF ConvInv
  <1>7. CASE ~AllRejected
    <2>1. PICK messages, phase :
            /\ messages = Append(talk.messages, Exchange)
            /\ phase = IF talk.round = MaxIterations THEN "answer" ELSE "call"
      OBVIOUS
    <2>0. PICK round \in Nat : round = talk.round + 1
      BY <1>3
    <2>2. talk' = [talk EXCEPT !.content = heard, !.messages = messages,
                               !.round = round, !.phase = phase]
      BY <1>2, <1>7, <2>0, <2>1 DEF EndRound
    <2>3. /\ messages \in Seq([assistant : Seq(Block), user : Seq(Result)])
          /\ Range(messages) = Range(talk.messages) \cup {Exchange}
      <3>1. Exchange \in [assistant : Seq(Block), user : Seq(Result)]
        BY <1>3 DEF Exchange
      <3>2. talk.messages \in Seq([assistant : Seq(Block), user : Seq(Result)])
        BY <1>1 DEF TalkType
      <3>3. PICK T : T = [assistant : Seq(Block), user : Seq(Result)]
        OBVIOUS
      <3>4. Exchange \in T /\ talk.messages \in Seq(T)
        BY <3>1, <3>2, <3>3
      <3>5. Append(talk.messages, Exchange) \in Seq(T)
        BY <3>4, AppendProperties
      <3>6. Range(Append(talk.messages, Exchange)) = Range(talk.messages) \cup {Exchange}
        BY <3>4, RangeAppend
      <3> QED
        BY <2>1, <3>3, <3>5, <3>6
    <2>4. talk' \in TalkType
      <3>1. phase \in {"answer", "call"}
        BY <2>1
      <3> QED
        BY <1>1, <2>0, <2>2, <2>3, <3>1 DEF TalkType
    <2>5. /\ talk'.phase = phase /\ talk'.content = heard /\ talk'.context = talk.context
          /\ talk'.messages = messages /\ talk'.searches = talk.searches
          /\ talk'.round = talk.round + 1
      BY <1>1, <2>0, <2>2 DEF TalkType
    <2>6. Range(talk.reply) \subseteq Range(heard)
      BY <1>2, <1>3, RangeConcat
    <2>7. Exchanged(Exchange)
      BY <1>2, <1>4, <2>6 DEF Exchanged, Exchange
    <2>8. \A x \in Range(talk.messages) : Exchanged(x)
      BY DEF ConvInv
    <2>9. \A x \in Range(talk'.messages) : Exchanged(x)
      BY <2>3, <2>5, <2>7, <2>8
    <2>10. \A x : Exchanged(x) => Exchanged(x)'
      BY <1>1, <2>5, SameContext DEF Exchanged
    <2>11. \A x \in Range(talk'.messages) : Exchanged(x)'
      BY <2>9, <2>10
    <2>12. 1 <= talk.round /\ talk.round <= MaxIterations /\ MaxIterations \in Int
      <3>1. talk.context.uses \in Nat
        BY <1>1 DEF TalkType
      <3>2. MaxIterations \in Int
        BY <3>1 DEF MaxIterations, ConversationAssumption
      <3> QED
        BY <1>1, <3>2 DEF ConvInv, InRounds
    <2>13. InRounds'
      BY <1>1, <1>3, <2>1, <2>5, <2>12, SameContext DEF ConvInv, InRounds
    <2>14. Left'
      BY <1>3, <2>1, <2>5, <2>12, SameContext DEF Left
    <2>15. Silent' /\ AllKept' /\ Searching' /\ Answers' /\ talk'.phase # "refused"
      BY <1>1, <2>1, <2>5 DEF Silent, AllKept, Searching, Answers
    <2> QED
      BY <1>1, <2>4, <2>11, <2>13, <2>14, <2>15 DEF ConvInv
  <1> QED
    BY <1>6, <1>7

LEMMA BuildStep ==
    ASSUME ConvInv, NEW streaming, BuildResponse(streaming)
    PROVE  ConvInv'
  <1>1. talk \in TalkType /\ heard \in Seq(Block) /\ talk.phase = "answer" /\ heard' = heard
    BY DEF ConvInv, BuildResponse
  <1>2. talk' = [talk EXCEPT !.phase = "done"]
    BY DEF BuildResponse
  <1>3. talk' \in TalkType
    BY <1>1, <1>2 DEF TalkType
  <1>4. /\ talk'.phase = "done" /\ talk'.content = talk.content /\ talk'.context = talk.context
        /\ talk'.messages = talk.messages /\ talk'.searches = talk.searches
        /\ talk'.results = talk.results /\ talk'.round = talk.round
        /\ talk'.stop = talk.stop /\ talk'.found = talk.found
    BY <1>1, <1>2 DEF TalkType
  <1>5. \A b : Rewrite(b)' = Rewrite(b)
    BY <1>4, SameContext DEF Rewrite, ResultBlock
  <1>6. Rewritten' = Rewritten
    BY <1>4, <1>5 DEF Rewritten
  <1>7. \A content : Events(content)' = Events(content)
    BY <1>4 DEF Events
  <1>8. Events(Rewritten)' = Events(Rewritten)
    BY <1>6, <1>7
  <1>9. answer' = IF streaming THEN [NoAnswer EXCEPT !.events = Events(Rewritten)]
                  ELSE [NoAnswer EXCEPT !.content = Rewritten, !.stop = talk.stop]
    BY DEF BuildResponse
  <1>10. \/ answer'.events = Events(Rewritten)
         \/ answer'.events = <<>> /\ answer'.content = Rewritten /\ answer'.stop = talk.stop
    BY <1>9 DEF NoAnswer
  <1>11. Answers'
    BY <1>4, <1>6, <1>8, <1>10 DEF Answers
  <1>12. \A x \in Range(talk'.messages) : Exchanged(x)'
    BY <1>1, <1>4, SameContext DEF ConvInv, Exchanged
  <1>13. InRounds'
    BY <1>1, <1>4, SameContext DEF ConvInv, InRounds
  <1>14. Left'
    BY <1>1, <1>4, SameContext DEF ConvInv, Left, AllRejected
  <1>15. Silent' /\ AllKept' /\ Searching' /\ talk'.phase # "refused"
    BY <1>1, <1>4 DEF ConvInv, Silent, AllKept, Searching
  <1> QED
    BY <1>1, <1>3, <1>11, <1>12, <1>13, <1>14, <1>15 DEF ConvInv

LEMMA ConversationStep ==
    ASSUME ConversationAssumption, ConvInv, [ConversationNext]_conversationVars
    PROVE  ConvInv'
  <1>1. CASE \E mode \in {"disabled", "enabled", "global"} : ExtractTool(mode)
    BY <1>1, ExtractStep
  <1>2. CASE RefusedTalk
    BY <1>2, RefusedStep
  <1>3. CASE Respond
    BY <1>3, RespondStep
  <1>4. CASE ExecuteSearch
    BY <1>4, ExecuteStep
  <1>5. CASE EndRound
    BY <1>5, EndRoundStep
  <1>6. CASE \E streaming \in BOOLEAN : BuildResponse(streaming)
    BY <1>6, BuildStep
  <1>7. CASE UNCHANGED conversationVars
    <2>1. talk' = talk /\ heard' = heard /\ answer' = answer
      BY <1>7 DEF conversationVars
    <2>2. \A b : Rewrite(b)' = Rewrite(b)
      BY <2>1, SameContext DEF Rewrite, ResultBlock
    <2>3. Rewritten' = Rewritten
      BY <2>1, <2>2 DEF Rewritten
    <2>4. \A content : Events(content)' = Events(content)
      BY <2>1 DEF Events
    <2>5. Answers'
      BY <2>1, <2>3, <2>4 DEF ConvInv, Answers
    <2>6. \A x \in Range(talk'.messages) : Exchanged(x)'
      BY <2>1, SameContext DEF ConvInv, Exchanged
    <2>7. InRounds' /\ Silent' /\ AllKept' /\ (talk.phase = "refused" => Mixed')
      BY <2>1, SameContext DEF ConvInv, InRounds, Silent, AllKept, Mixed, UsesTool
    <2>8. Searching' /\ Left'
      BY <2>1, SameContext DEF ConvInv, Searching, Left, AllRejected
    <2> QED
      BY <2>1, <2>5, <2>6, <2>7, <2>8 DEF ConvInv
  <1> QED
    BY <1>1, <1>2, <1>3, <1>4, <1>5, <1>6, <1>7 DEF ConversationNext

\* The answer is the rewritten content, streamed or not.
LEMMA Completes ==
    ASSUME ConvInv, talk.phase = "done"
    PROVE  Assembled = Rewritten /\ Closed /\ Stop = talk.stop
  <1>1. talk.content \in Seq(Block)
    BY DEF ConvInv, TalkType
  <1>2. PICK r \in Seq(Piece) : r = Rewritten
    <2>1. Becomes(talk.content, RewrittenOf(talk.content))
      BY <1>1, WhatBecomes
    <2>2. RewrittenOf(talk.content) = Rewritten
      BY DEF Rewritten, RewrittenOf
    <2> QED
      BY <2>1, <2>2 DEF Becomes
  <1>3. CASE answer.events = Events(Rewritten)
    <2>1. PICK w : w = answer.events
      OBVIOUS
    <2>2. Presents(r, w)
      BY <1>2, <1>3, <2>1, WhatPresents
    <2>3. PICK k : k = OfKinds(w, StartKinds)
      OBVIOUS
    <2>4. Starts = k
      BY <2>1, <2>3 DEF Starts, StartKinds
    <2>5. w # <<>> /\ w[Len(w) - 1].stop = talk.stop
      BY <2>2 DEF Presents
    <2>6. PICK n \in Nat : /\ DOMAIN r = 1..n /\ DOMAIN k = 1..n
                           /\ \A i \in 1..n : k[i].block = r[i]
      BY <2>2, <2>3 DEF Presents
    <2>7. Assembled = [i \in DOMAIN k |-> k[i].block]
      BY <2>1, <2>4, <2>5 DEF Assembled
    <2>8. [i \in DOMAIN k |-> k[i].block] = r
      <3>1. r = [i \in 1..n |-> r[i]]
        BY <1>2, <2>6
      <3> QED
        BY <2>6, <3>1
    <2>9. Closed
      BY <2>1, <2>2 DEF Presents, Closed
    <2>10. Stop = talk.stop
      BY <2>1, <2>5 DEF Stop
    <2> QED
      BY <1>2, <2>7, <2>8, <2>9, <2>10
  <1>4. CASE answer.events = <<>> /\ answer.content = Rewritten /\ answer.stop = talk.stop
    BY <1>4 DEF Assembled, Closed, Stop
  <1> QED
    BY <1>3, <1>4 DEF ConvInv, Answers

LEMMA ConversationHolds == ConvInv => SearchesSound
  <1> SUFFICES ASSUME ConvInv PROVE SearchesSound
    OBVIOUS
  <1>1. /\ talk.searches <= talk.context.uses
        /\ \A b \in Range(heard) : b.id[1] <= MaxIterations
        /\ talk.phase = "refused" => Mixed
    BY DEF ConvInv, InRounds
  <1>2. ASSUME talk.phase = "done", NEW said, said = OfKinds(Assembled, SaidKinds)
        PROVE  /\ [i \in DOMAIN said |-> said[i].id] = [i \in DOMAIN heard |-> heard[i].id]
               /\ Closed
               /\ \A i \in DOMAIN Assembled :
                    Assembled[i].kind = "server_tool_use" =>
                      /\ i < Len(Assembled)
                      /\ Assembled[i + 1].kind = "web_search_tool_result"
                      /\ Assembled[i + 1].id = Assembled[i].id
                      /\ Assembled[i + 1].results = (Assembled[i].id \in talk.found)
               /\ Stop = "tool_use" =>
                    \/ \E b \in Range(Assembled) : UsesTool(b)
                    \/ talk.round > MaxIterations
                    \/ talk.results # <<>> /\ AllRejected
    <2>1. PICK r : r = Rewritten
      OBVIOUS
    <2>2. heard = talk.content /\ heard \in Seq(Block)
      BY <1>2 DEF ConvInv, AllKept
    <2>3. Becomes(heard, r)
      <3>1. Becomes(heard, RewrittenOf(heard))
        BY <2>2, WhatBecomes
      <3>2. RewrittenOf(heard) = r
        BY <2>1, <2>2 DEF Rewritten, RewrittenOf
      <3> QED
        BY <3>1, <3>2
    <2>4. Assembled = r /\ Closed /\ Stop = talk.stop
      BY <1>2, <2>1, Completes
    <2>5. r \in Seq(Piece) /\ said \in Seq(Piece)
      BY <1>2, <2>3, <2>4, OfKindsType DEF Becomes
    <2>6. PICK n \in Nat, m \in Nat : n = Len(heard) /\ n = Len(said) /\ m = Len(r)
      BY <1>2, <2>2, <2>3, <2>4, <2>5, LenProperties DEF Becomes
    <2>7. DOMAIN heard = 1..n /\ DOMAIN said = 1..n /\ DOMAIN r = 1..m
      <3>1. DOMAIN heard = 1..Len(heard)
        BY <2>2, LenProperties
      <3>2. DOMAIN said = 1..Len(said) /\ DOMAIN r = 1..Len(r)
        BY <2>5, LenProperties
      <3> QED
        BY <2>6, <3>1, <3>2
    <2>8. \A i \in 1..n : said[i].id = heard[i].id
      BY <1>2, <2>3, <2>4, <2>6 DEF Becomes
    <2>9. [i \in DOMAIN said |-> said[i].id] = [i \in DOMAIN heard |-> heard[i].id]
      BY <2>7, <2>8
    <2>10. ASSUME NEW i \in 1..m, r[i].kind = "server_tool_use"
           PROVE  /\ i < Len(r)
                  /\ r[i + 1].kind = "web_search_tool_result"
                  /\ r[i + 1].id = r[i].id
                  /\ r[i + 1].results = (r[i].id \in talk.found)
      <3>1. i < Len(r) /\ r[i + 1] = ResultBlock(r[i].id)
        BY <2>3, <2>6, <2>10 DEF Becomes
      <3> QED
        BY <3>1 DEF ResultBlock
    <2>11. ASSUME NEW b \in Range(heard), UsesTool(b), ~IsSearch(b)
           PROVE  \E x \in Range(r) : UsesTool(x)
      <3>1. PICK i \in 1..n : b = heard[i]
        BY <2>7 DEF Range
      <3>2. \E j \in 1..m : r[j] = b
        BY <2>3, <2>6, <2>11, <3>1 DEF Becomes
      <3> QED
        BY <2>7, <2>11, <3>2 DEF Range
    <2>12. Stop = "tool_use" =>
             \/ \E b \in Range(Assembled) : UsesTool(b)
             \/ talk.round > MaxIterations
             \/ talk.results # <<>> /\ AllRejected
      BY <1>2, <2>2, <2>4, <2>11 DEF ConvInv, Left
    <2> QED
      BY <2>4, <2>7, <2>9, <2>10, <2>12
  <1> QED
    BY <1>1, <1>2 DEF SearchesSound, SaidKinds

\* For all tools and replies, rounds and caps, and whichever searches fail or
\* are refused: at most max_uses searches succeed, in at most one call more
\* than the cap allows, Bedrock refuses the conversation only for another tool
\* beside a search, and the client is given, streamed or not, all that the
\* model said, in its order and in closed blocks, each search with its results.
THEOREM SearchesAreSound == ConversationSpec => []SearchesSound
  <1>1. ConversationInit => ConvInv
    BY ConversationStart
  <1>2. ConvInv /\ [ConversationNext]_conversationVars => ConvInv'
    BY ConversationAssumption, ConversationStep
  <1>3. ConvInv => SearchesSound
    BY ConversationHolds
  <1> QED
    BY <1>1, <1>2, <1>3, PTL DEF ConversationSpec

=============================================================================
