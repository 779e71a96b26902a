---------------------------- MODULE Conversation ----------------------------
(***************************************************************************)
(* What is said in the web search loop: handle_with_web_search() and       *)
(* synthesize_sse_response() in api/handlers.rs with the conversions of    *)
(* websearch/mod.rs.  A request's web_search tool becomes a plain tool,    *)
(* the model's uses of it are answered by the gateway, and what the model  *)
(* said in all rounds becomes one answer in the form a server tool has.    *)
(*                                                                         *)
(* A block is a text or the use of a tool, told apart by the round and the *)
(* place in which it was said.  Calls that fail, their retries and what is *)
(* recorded are the subject of Messages.                                   *)
(***************************************************************************)
EXTENDS Integers, Sequences, FiniteSetsExt

CONSTANTS
    Toolsets,  \* the tools of a request: sequences of [web, name, uses]
    Replies,   \* what a model says: sequences of "text" and names of tools
    LoopCap    \* 10 in the code

ASSUME ConversationAssumption ==
    /\ LoopCap \in Nat
    /\ \A tools \in Toolsets :
          tools \in Seq([web : BOOLEAN, name : {tools[i].name : i \in DOMAIN tools}, uses : Nat])
    /\ \A kinds \in Replies : kinds \in Seq(Range(kinds))

VARIABLES
    talk,   \* the request: its phase, the body's tools and messages, the
            \* variables of the loop
    heard,  \* history: every block that the model has said, in order
    answer  \* what the client is given: blocks and stop_reason, or events

conversationVars == <<talk, heard, answer>>

NoContext == [name |-> "none", uses |-> 0]

NewTalk ==
    [phase |-> "tools", tools |-> {}, context |-> NoContext, round |-> 1,
     messages |-> <<>>, content |-> <<>>, reply |-> <<>>, stop |-> "none",
     results |-> <<>>, searches |-> 0, found |-> {}]

NoAnswer == [content |-> <<>>, stop |-> "none", events |-> <<>>]

ConversationInit == talk = NewTalk /\ heard = <<>> /\ answer = NoAnswer

-----------------------------------------------------------------------------
(* Tools *)

\* extract_web_search_tool(): the last of several decides.
Context(tools) ==
    LET web == {i \in DOMAIN tools : tools[i].web}
    IN  IF web = {} THEN NoContext
        ELSE [name |-> tools[Max(web)].name, uses |-> tools[Max(web)].uses]

\* extract_web_search_tool_with_mode(): the model is given plain tools of the
\* same names, but for those that "disabled" strips, so that nothing is to be
\* searched; without a context the loop is not entered.
ExtractTool(mode) ==
    /\ talk.phase = "tools"
    /\ \E tools \in Toolsets :
         LET ctx == IF mode = "disabled" THEN NoContext ELSE Context(tools)
             kept == {i \in DOMAIN tools : mode = "disabled" => ~tools[i].web}
         IN  talk' = [talk EXCEPT !.tools = {tools[i].name : i \in kept}, !.context = ctx,
                        !.phase = IF ctx = NoContext THEN "passed" ELSE "call"]
    /\ UNCHANGED <<heard, answer>>

-----------------------------------------------------------------------------
(* Rounds *)

UsesTool(block) == block.kind = "tool_use"

\* find_web_search_tool_uses(): what it looks for.
IsSearch(block) == UsesTool(block) /\ block.name = talk.context.name

\* min(max_uses, 10) + 1
MaxIterations ==
    1 + IF talk.context.uses < LoopCap THEN talk.context.uses ELSE LoopCap

Ids(blocks) == {b.id : b \in blocks}

\* What Bedrock accepts: every use of a tool has its result in the message
\* that follows.
Accepted ==
    \A e \in Range(talk.messages) :
      Ids({b \in Range(e.assistant) : UsesTool(b)}) = Ids(Range(e.user))

\* Bedrock answers 400, and so does the gateway: what was said is lost.
RefusedTalk ==
    /\ talk.phase = "call"
    /\ ~Accepted
    /\ talk' = [talk EXCEPT !.phase = "refused"]
    /\ UNCHANGED <<heard, answer>>

\* The model's reply, as blocks; its tools are among those it was given.
Said(kinds) ==
    [i \in DOMAIN kinds |->
       [kind |-> IF kinds[i] = "text" THEN "text" ELSE "tool_use",
        name |-> kinds[i], id |-> <<talk.round, i>>]]

\* A reply stops for the tools it uses, unless it is cut off before that.
\* What asks for no search, or was cut off, is the last.
Respond ==
    /\ talk.phase = "call"
    /\ Accepted
    /\ \E kinds \in Replies, stop \in {"tool_use", "end_turn", "max_tokens"} :
         LET blocks == Said(kinds)
             tools == {b \in Range(blocks) : UsesTool(b)}
             last == (\A b \in tools : ~IsSearch(b)) \/ stop # "tool_use"
         IN  /\ \A b \in tools : b.name \in talk.tools
             /\ (stop = "tool_use") => tools # {}
             /\ (stop = "end_turn") => tools = {}
             /\ heard' = heard \o blocks
             /\ talk' = [talk EXCEPT
                  !.reply = blocks, !.stop = stop, !.results = <<>>,
                  !.content = IF last THEN @ \o blocks ELSE @,
                  !.phase = IF last THEN "answer" ELSE "search"]
    /\ UNCHANGED answer

\* The searches of the round that have no result yet.
Pending ==
    {i \in DOMAIN talk.reply :
       IsSearch(talk.reply[i]) /\ talk.reply[i].id \notin Ids(Range(talk.results))}

\* The next search: refused beyond max_uses, else it has results and counts,
\* or it fails; the model hears of either.
ExecuteSearch ==
    /\ talk.phase = "search"
    /\ \E i \in Pending :
         LET id == talk.reply[i].id
             WithResult(error) ==
               Append(talk.results, [id |-> id, is_error |-> error])
         IN  /\ \A j \in Pending : i <= j
             /\ \/ talk' = [talk EXCEPT !.results = WithResult(TRUE)]
                \/ /\ talk.searches < talk.context.uses
                   /\ talk' = [talk EXCEPT !.results = WithResult(FALSE),
                                           !.searches = @ + 1,
                                           !.found = @ \cup {id}]
    /\ UNCHANGED <<heard, answer>>

AllRejected == \A r \in Range(talk.results) : r.is_error

\* The messages that the next round begins with: what the model said, and what
\* the gateway answers as its user.
Exchange == [assistant |-> talk.reply, user |-> talk.results]

\* Faulty: what is said in the round that ends the loop is not kept.
EndRoundFaulty ==
    /\ talk.phase = "search"
    /\ Pending = {}
    /\ talk' =
         IF AllRejected
         THEN [talk EXCEPT !.phase = "answer"]
         ELSE [talk EXCEPT
                 !.content = @ \o talk.reply, !.messages = Append(@, Exchange),
                 !.round = @ + 1,
                 !.phase = IF talk.round = MaxIterations THEN "answer"
                           ELSE "call"]
    /\ UNCHANGED <<heard, answer>>

\* All searches are done.  Without any result the loop is left; else it goes
\* on, up to the cap.
EndRound ==
    /\ talk.phase = "search"
    /\ Pending = {}
    /\ talk' =
         IF AllRejected
         THEN [talk EXCEPT !.content = @ \o talk.reply, !.phase = "answer"]
         ELSE [talk EXCEPT
                 !.content = @ \o talk.reply, !.messages = Append(@, Exchange),
                 !.round = @ + 1,
                 !.phase = IF talk.round = MaxIterations THEN "answer"
                           ELSE "call"]
    /\ UNCHANGED <<heard, answer>>

-----------------------------------------------------------------------------
(* The answer *)

\* One sequence after the other
Flattened(pieces) ==
    LET upTo[n \in 0..Len(pieces)] ==
          IF n = 0 THEN <<>> ELSE upTo[n - 1] \o pieces[n]
    IN  upTo[Len(pieces)]

\* results_to_content_block(): a search without results has an empty one.
ResultBlock(id) ==
    [kind |-> "web_search_tool_result", name |-> "none", id |-> id,
     results |-> id \in talk.found]

\* rewrite_response_content(), of a block and of all
Rewrite(b) ==
    IF IsSearch(b) THEN << [b EXCEPT !.kind = "server_tool_use"], ResultBlock(b.id) >>
    ELSE << b >>

Rewritten ==
    Flattened([i \in DOMAIN talk.content |-> Rewrite(talk.content[i])])

\* synthesize_sse_response()
BlockEvents(index, b) ==
    LET Event(kind) == [kind |-> kind, index |-> index, block |-> b]
    IN  IF b.kind = "text"
        THEN << Event("content_block_start"), Event("content_block_delta"),
                Event("content_block_stop") >>
        ELSE << Event("content_block_start"), Event("content_block_stop") >>

Events(content) ==
    << [kind |-> "message_start"] >>
    \o Flattened([i \in DOMAIN content |-> BlockEvents(i - 1, content[i])])
    \o << [kind |-> "message_delta", stop |-> talk.stop],
          [kind |-> "message_stop"] >>

\* The end of handle_with_web_search()
BuildResponse(streaming) ==
    /\ talk.phase = "answer"
    /\ answer' = IF streaming
                 THEN [NoAnswer EXCEPT !.events = Events(Rewritten)]
                 ELSE [NoAnswer EXCEPT !.content = Rewritten,
                                       !.stop = talk.stop]
    /\ talk' = [talk EXCEPT !.phase = "done"]
    /\ UNCHANGED heard

ConversationNext ==
    \/ \E mode \in {"disabled", "enabled", "global"} : ExtractTool(mode)
    \/ RefusedTalk \/ Respond \/ ExecuteSearch \/ EndRound
    \/ \E streaming \in BOOLEAN : BuildResponse(streaming)

ConversationSpec == ConversationInit /\ [][ConversationNext]_conversationVars

-----------------------------------------------------------------------------
(* Properties *)

\* Those of a list that are of some kinds, in order
OfKinds(list, kinds) ==
    Flattened([i \in DOMAIN list |->
                 IF list[i].kind \in kinds THEN << list[i] >> ELSE <<>>])

\* The blocks as a client has them in the end: of a stream, from the starts
\* of blocks that are closed before the next begins.
Starts == OfKinds(answer.events, {"content_block_start"})

Assembled ==
    IF answer.events = <<>> THEN answer.content
    ELSE [i \in DOMAIN Starts |-> Starts[i].block]

Closed ==
    \A i, j \in DOMAIN answer.events :
      LET e == answer.events[i] IN
      /\ e.kind = "content_block_start"
      /\ i < j
      /\ answer.events[j].kind \in {"content_block_start", "message_delta"}
      => \E k \in i..j : /\ answer.events[k].kind = "content_block_stop"
                         /\ answer.events[k].index = e.index

Stop == IF answer.events = <<>> THEN answer.stop
        ELSE answer.events[Len(answer.events) - 1].stop

\* Did the model use another tool beside a search?
Mixed ==
    \E b, s \in Range(heard) :
      UsesTool(b) /\ ~IsSearch(b) /\ IsSearch(s) /\ s.id[1] = b.id[1]

\* However many rounds a search takes, whichever of its searches fail or are
\* refused and wherever the loop is cut short: at most max_uses searches
\* succeed, in at most one call more than the cap allows, and Bedrock refuses
\* the conversation only if the model used another tool beside a search.  The
\* client is given all that the model said, in order, in closed blocks; each
\* search is the server's and followed by its own results, which are empty if
\* it had none; and it is to act (stop_reason tool_use) only if a tool use is
\* left to it, or if the loop was cut short.
SearchesSound ==
    /\ talk.searches <= talk.context.uses
    /\ \A b \in Range(heard) : b.id[1] <= MaxIterations
    /\ talk.phase = "refused" => Mixed
    /\ talk.phase = "done" =>
         LET said == OfKinds(Assembled, {"text", "tool_use", "server_tool_use"})
         IN  /\ [i \in DOMAIN said |-> said[i].id]
                  = [i \in DOMAIN heard |-> heard[i].id]
             /\ Closed
             /\ \A i \in DOMAIN Assembled :
                  Assembled[i].kind = "server_tool_use" =>
                    /\ i < Len(Assembled)
                    /\ Assembled[i + 1].kind = "web_search_tool_result"
                    /\ Assembled[i + 1].id = Assembled[i].id
                    /\ Assembled[i + 1].results
                         = (Assembled[i].id \in talk.found)
             /\ Stop = "tool_use" =>
                  \/ \E b \in Range(Assembled) : UsesTool(b)
                  \/ talk.round > MaxIterations
                  \/ talk.results # <<>> /\ AllRejected
=============================================================================
