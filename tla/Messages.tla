------------------------------ MODULE Messages ------------------------------
(***************************************************************************)
(* A request to POST /v1/messages from its credential to its answer, and   *)
(* what it leaves with the spend tracker: messages(), handle_streaming(),  *)
(* handle_non_streaming() and handle_with_web_search() in api/handlers.rs. *)
(*                                                                         *)
(* Which endpoint is called is Routing's subject, which betas are sent     *)
(* BetaCapabilities', what a budget decides Budget's and what a window     *)
(* lets through RateLimiter's: here each of them may go either way.  Every *)
(* call to Bedrock, to Postgres or to a search engine is a step, and the   *)
(* client may go away between any two of them: the handler is dropped.     *)
(***************************************************************************)
EXTENDS Integers

CONSTANTS
    Requests,     \* requests, independent of each other
    MaxUses,      \* what the request's web search tool allows
    HardCap,      \* 10 in the code
    MaxAsked,     \* bound of the model: searches asked for in one response
    MaxFallbacks  \* bound of the model: other endpoints of a team

ASSUME MessagesAssumption ==
    /\ MaxUses \in Nat /\ HardCap \in Nat /\ MaxAsked \in Nat
    /\ MaxFallbacks \in Nat

VARIABLES
    req,       \* the requests
    recorded,  \* what reached SpendTracker::record() for each request: how
               \* many entries, with the input and output of how many calls
    told,      \* of a stream: whether input_tokens, output_tokens have come
    used,      \* history: calls that Bedrock answered, which it charges for
    unread,    \* history: those of them whose answer was not JSON
    lost       \* history: what of a stream's usage did not come, or not as JSON

messageVars == <<req, recorded, told, used, unread, lost>>

streamVars == <<told, lost>>

\* What an answer says of its cost; a stream says the first when it begins and
\* the second when it ends (message_start, message_delta).
Usage == {"input", "output"}

\* `kind': plain, stream or search; `first': the endpoint first chosen, with
\* its betas; `tries': endpoints left; `total', `searches', `round': the
\* variables of the web search loop; `status': of the answer.
NewReq ==
    [phase |-> "auth", via |-> "none", kind |-> "plain", first |-> TRUE,
     tries |-> 0, total |-> 0, searches |-> 0, round |-> 0, asked |-> 0,
     good |-> FALSE, here |-> TRUE, status |-> 0]

MessagesInit ==
    /\ req = [q \in Requests |-> NewReq]
    /\ recorded = [q \in Requests |-> [entries |-> 0, tokens |-> [u \in Usage |-> 0]]]
    /\ told = [q \in Requests |-> {}]
    /\ used = [q \in Requests |-> 0]
    /\ unread = [q \in Requests |-> 0]
    /\ lost = [q \in Requests |-> {}]

-----------------------------------------------------------------------------
(* Before Bedrock *)

At(q, phase) == req[q].phase = phase

Move(q, r) == req' = [req EXCEPT ![q] = r]

\* Every other answer; a handler that is done.
Answer(q, status) ==
    Move(q, [req[q] EXCEPT !.phase = "done", !.status = status])

Goto(q, phase) == Move(q, [req[q] EXCEPT !.phase = phase])

\* check_auth(): virtual keys first, if they are on; a key that is cached is
\* refused if they are off; then the gateway's own session tokens, then the
\* identity providers, if there are any.
Authenticate(q) ==
    /\ At(q, "auth")
    /\ \/ \E keysOn \in BOOLEAN :  \* a virtual key
            IF keysOn
            THEN Move(q, [req[q] EXCEPT !.phase = "budget", !.via = "key"])
            ELSE Answer(q, 403)
       \/ \E anyIdp, own \in BOOLEAN :  \* a session token, or an ID token
            IF own \/ anyIdp
            THEN Move(q, [req[q] EXCEPT !.phase = "user", !.via = "oidc"])
            ELSE Answer(q, 401)
       \/ Answer(q, 401)  \* anything else, or nothing
    /\ UNCHANGED <<recorded, used, unread, streamVars>>

\* get_user_by_email() and oidc_inactive_response(): no row, or no database,
\* is no objection.
CheckUser(q) ==
    /\ At(q, "user")
    /\ \/ Goto(q, "budget")
       \/ Answer(q, 403)
    /\ UNCHANGED <<recorded, used, unread, streamVars>>

\* check_budget() or check_team_budget_only(), if there is anyone to charge.
CheckBudget(q) ==
    /\ At(q, "budget")
    /\ \/ Goto(q, "rate")
       \/ Goto(q, "shape")
       \/ Answer(q, 429)
    /\ UNCHANGED <<recorded, used, unread, streamVars>>

CheckShape(q) ==
    /\ At(q, "shape")
    /\ \/ Goto(q, "rate")
       \/ Answer(q, 429)
    /\ UNCHANGED <<recorded, used, unread, streamVars>>

\* Only keys have a limit of their own.
CheckRate(q) ==
    /\ At(q, "rate")
    /\ \/ Goto(q, "route")
       \/ req[q].via = "key" /\ Answer(q, 429)
    /\ UNCHANGED <<recorded, used, unread, streamVars>>

\* Which of the three handlers makes the calls.
Kinds == {"plain", "stream", "search"}

\* The endpoint and its fallbacks: none of the team's has the model, or one is
\* chosen, or the gateway's own client is used.  websearch_mode decides
\* whether a search tool is stripped.
Route(q) ==
    /\ At(q, "route")
    /\ \/ Answer(q, 400)
       \/ \E kind \in Kinds, chosen \in BOOLEAN,
             n \in 0..MaxFallbacks :
            Move(q, [req[q] EXCEPT !.phase = "call", !.kind = kind,
                                   !.first = chosen,
                                   !.tries = IF chosen THEN n ELSE 0,
                                   !.round = IF kind = "search" THEN 1 ELSE 0])
    /\ UNCHANGED <<recorded, used, unread, streamVars>>

-----------------------------------------------------------------------------
(* Calls to Bedrock *)

\* Another endpoint is tried after a throttle or a server error, but not for
\* a request that searches.
Eligible(status) == status = 429 \/ status >= 500

FailWith(q, r, status) ==
    IF Eligible(status) /\ r.tries > 0 /\ r.kind # "search"
    THEN Move(q, [r EXCEPT !.phase = "call", !.tries = @ - 1, !.first = FALSE])
    ELSE Move(q, [r EXCEPT !.phase = "done", !.status = status])

\* map_bedrock_error()
BedrockErrors == {429, 403, 400, 503, 502}

\* May the call be repeated without the betas that Bedrock names?  Once, at
\* the first endpoint, in the first round of a search.
MayRetry(r) == r.first /\ r.round <= 1

CallRejected(q) ==
    /\ At(q, "call")
    /\ MayRetry(req[q])
    /\ Goto(q, "retry")
    /\ UNCHANGED <<recorded, used, unread, streamVars>>

CallFails(q) ==
    /\ At(q, "call")
    /\ \E status \in BedrockErrors : FailWith(q, req[q], status)
    /\ UNCHANGED <<recorded, used, unread, streamVars>>

\* handle_non_streaming() then answers with the first error, the others with
\* the second one.
RetryFails(q) ==
    /\ At(q, "retry")
    /\ \E status \in BedrockErrors :
         FailWith(q, req[q], IF req[q].kind = "plain" THEN 400 ELSE status)
    /\ UNCHANGED <<recorded, used, unread, streamVars>>

\* Bedrock answers, with what is not JSON.  Streams skip such a chunk.
Unreadable(q) ==
    /\ req[q].phase \in {"call", "retry"}
    /\ req[q].kind # "stream"
    /\ used' = [used EXCEPT ![q] = @ + 1]
    /\ unread' = [unread EXCEPT ![q] = @ + 1]
    /\ FailWith(q, req[q], 502)
    /\ UNCHANGED <<recorded, streamVars>>

\* SpendTracker::record(), with what is known of the usage of so many calls
Recording(q, amount, known) ==
    [recorded EXCEPT ![q] =
        [entries |-> @.entries + 1,
         tokens |-> [u \in Usage |-> @.tokens[u] + IF u \in known THEN amount ELSE 0]]]

PlainAnswered(q) ==
    /\ req[q].phase \in {"call", "retry"}
    /\ req[q].kind = "plain"
    /\ used' = [used EXCEPT ![q] = @ + 1]
    /\ recorded' = Recording(q, 1, Usage)
    /\ Answer(q, 200)
    /\ UNCHANGED <<unread, streamVars>>

-----------------------------------------------------------------------------
(* A stream: the answer has begun, and a task of its own forwards events     *)

StreamBegins(q) ==
    /\ req[q].phase \in {"call", "retry"}
    /\ req[q].kind = "stream"
    /\ used' = [used EXCEPT ![q] = @ + 1]
    /\ Move(q, [req[q] EXCEPT !.phase = "stream", !.status = 200])
    /\ UNCHANGED <<recorded, unread, streamVars>>

\* What the stream has yet to say of its cost.
Ahead(q) == Usage \ (told[q] \cup lost[q])

\* The chunk with the next part of the usage: it is noted before it is sent.
StreamUsage(q) ==
    /\ At(q, "stream") /\ req[q].here
    /\ \E u \in Ahead(q) :
         /\ u = "output" => "input" \notin Ahead(q)
         /\ told' = [told EXCEPT ![q] = @ \cup {u}]
    /\ UNCHANGED <<req, recorded, used, unread, lost>>

\* That chunk is not JSON: skipped, whether or not anybody listens.
StreamSkips(q) ==
    /\ At(q, "stream")
    /\ \E u \in Ahead(q) :
         /\ u = "output" => "input" \notin Ahead(q)
         /\ lost' = [lost EXCEPT ![q] = @ \cup {u}]
    /\ UNCHANGED <<req, recorded, told, used, unread>>

\* Any event is sent to nobody: the task leaves its loop and drops the
\* generator, which has yet to record.
StreamEvent(q) ==
    /\ At(q, "stream")
    /\ ~req[q].here
    /\ Goto(q, "done")
    /\ UNCHANGED <<recorded, used, unread, streamVars>>

\* Whatever the stream had yet to say is not said.
StreamOver(q) ==
    /\ Goto(q, "done")
    /\ lost' = [lost EXCEPT ![q] = @ \cup Ahead(q)]
    /\ UNCHANGED <<told, used, unread>>

\* Faulty: a stream that breaks is not recorded.
StreamBreaksFaulty(q) ==
    /\ At(q, "stream")
    /\ StreamOver(q)
    /\ UNCHANGED recorded

\* An event stream that fails is reported, which takes someone to listen; then
\* what has been told so far is recorded.
StreamBreaks(q) ==
    /\ At(q, "stream")
    /\ StreamOver(q)
    /\ recorded' = IF req[q].here THEN Recording(q, 1, told[q]) ELSE recorded

\* Ok(None): the end is not sent, so that nobody need listen.
StreamEnds(q) ==
    /\ At(q, "stream")
    /\ StreamOver(q)
    /\ recorded' = Recording(q, 1, told[q])

-----------------------------------------------------------------------------
(* The web search loop *)

Least(a, b) == IF a < b THEN a ELSE b

MaxRounds == Least(MaxUses, HardCap) + 1

\* The end of handle_with_web_search(): one entry for all rounds.
Finish(q, r) ==
    /\ recorded' = Recording(q, r.total, Usage)
    /\ Move(q, [r EXCEPT !.phase = "done", !.status = 200])

\* The response asks for nothing more, or did not stop to use a tool.
SearchAnswered(q) ==
    /\ req[q].phase \in {"call", "retry"}
    /\ req[q].kind = "search"
    /\ used' = [used EXCEPT ![q] = @ + 1]
    /\ Finish(q, [req[q] EXCEPT !.total = @ + 1])
    /\ UNCHANGED <<unread, streamVars>>

\* It asks for searches.
SearchAsked(q) ==
    /\ req[q].phase \in {"call", "retry"}
    /\ req[q].kind = "search"
    /\ used' = [used EXCEPT ![q] = @ + 1]
    /\ \E n \in 1..MaxAsked :
         Move(q, [req[q] EXCEPT !.phase = "search", !.total = @ + 1,
                                !.asked = n, !.good = FALSE])
    /\ UNCHANGED <<recorded, unread, streamVars>>

\* One of them: refused beyond max_uses, else it succeeds and counts, or
\* fails and does not.
SearchOne(q) ==
    /\ At(q, "search")
    /\ req[q].asked > 0
    /\ \/ /\ req[q].searches < MaxUses
          /\ \/ Move(q, [req[q] EXCEPT !.asked = @ - 1, !.good = TRUE,
                                       !.searches = @ + 1])
             \/ Move(q, [req[q] EXCEPT !.asked = @ - 1])
       \/ /\ req[q].searches >= MaxUses
          /\ Move(q, [req[q] EXCEPT !.asked = @ - 1])
    /\ UNCHANGED <<recorded, used, unread, streamVars>>

\* A round without a result ends the loop, and so does the hard cap.
NextRound(q) ==
    /\ At(q, "search")
    /\ req[q].asked = 0
    /\ IF ~req[q].good \/ req[q].round = MaxRounds
       THEN Finish(q, req[q])
       ELSE /\ Move(q, [req[q] EXCEPT !.phase = "call", !.round = @ + 1])
            /\ UNCHANGED recorded
    /\ UNCHANGED <<used, unread, streamVars>>

-----------------------------------------------------------------------------
(* The client *)

\* The connection closes.  A handler is dropped where it waits, a call to
\* Bedrock that is on its way included; a stream's task goes on.
GoAway(q) ==
    /\ req[q].here
    /\ ~At(q, "done")
    /\ IF At(q, "stream")
       THEN Move(q, [req[q] EXCEPT !.here = FALSE]) /\ UNCHANGED used
       ELSE /\ Move(q, [req[q] EXCEPT !.here = FALSE, !.phase = "done"])
            /\ \/ UNCHANGED used
               \/ /\ req[q].phase \in {"call", "retry"}
                  /\ used' = [used EXCEPT ![q] = @ + 1]
    /\ UNCHANGED <<recorded, unread, streamVars>>

\* What the gateway does, as opposed to its clients.
Handle(q) ==
    \/ Authenticate(q) \/ CheckUser(q) \/ CheckBudget(q) \/ CheckShape(q)
    \/ CheckRate(q) \/ Route(q) \/ CallRejected(q) \/ CallFails(q)
    \/ RetryFails(q) \/ Unreadable(q) \/ PlainAnswered(q) \/ StreamBegins(q)
    \/ StreamUsage(q) \/ StreamSkips(q) \/ StreamEvent(q)
    \/ StreamBreaks(q) \/ StreamEnds(q)
    \/ SearchAnswered(q) \/ SearchAsked(q) \/ SearchOne(q) \/ NextRound(q)

MessagesNext == \E q \in Requests : Handle(q) \/ GoAway(q)

MessagesSpec == MessagesInit /\ [][MessagesNext]_messageVars

-----------------------------------------------------------------------------
(* Properties *)

\* What Bedrock charges for reaches the spend tracker, in one entry: but for
\* answers that were not JSON, for clients that went away before the end, and
\* for a search of several rounds that fails in a later one.  Of a stream that
\* breaks, or has a chunk that is not JSON, what the other chunks have told is
\* recorded: a break before its end leaves the output out.
Billed ==
    \A q \in Requests :
      /\ recorded[q].entries <= 1
      /\ At(q, "done") =>
           \/ \A u \in Usage :
                recorded[q].tokens[u] =
                    used[q] - unread[q] - (IF u \in lost[q] THEN 1 ELSE 0)
           \/ ~req[q].here
           \/ req[q].kind = "search" /\ req[q].status # 200
=============================================================================
