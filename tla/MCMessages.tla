----------------------------- MODULE MCMessages -----------------------------
(* Model values for TLC: requests, the windows of the rate limiter, the keys *)
(* of identity providers, names of models, the delivery of notifications,    *)
(* the drafts of its destination or the talk of the web search loop: one of  *)
(* them in a behaviour.                                                      *)
EXTENDS Messages, RateLimiter, Notifications, Providers, Models, Conversation,
        TLC

CONSTANTS opus, q1, k1, k2, a1, a2, l1, l2, d1, d2

VARIABLE mode

vars == <<mode, messageVars, rateVars, notifyVars, providerVars, modelVars,
          conversationVars>>

\* A key without a limit is not asked about; with a limit of 0 it may be.
MCLimit == k1 :> 2 @@ k2 :> 0

\* The drafts that a delivery begins with: none, or one that is active.
MCActive == [id |-> 1, dest |-> d1, wants |-> TRUE, tested |-> TRUE]

\* Models: one family with two minor versions, of which the text of one, as
\* that of the date, goes on where the other's ends; built in by the longer one.
MCMajors == { <<4>> }
MCMinors == { <<2>>, <<2, 0>> }
MCDate == <<2, 0, 2, 5, 0, 5, 1, 4>>
MCDates == {MCDate}
Named(minor, date) == [family |-> opus, major |-> <<4>>, minor |-> minor, date |-> date]
MCBuiltIn == Named(<<2, 0>>, Absent) :> [name |-> Named(<<2, 0>>, MCDate), tag |-> TRUE]
             @@ Named(<<2, 0>>, MCDate) :> [name |-> Named(<<2, 0>>, MCDate), tag |-> TRUE]
MCBuiltInReverse == << <<Named(<<2, 0>>, Absent), Named(<<2, 0>>, MCDate)>>,
                       <<Named(Absent, MCDate), Named(Absent, MCDate)>> >>

\* Conversations: a search tool of the gateway's beside a tool of the
\* client's, or two search tools of which the last counts.
Tool(web, name, uses) == [web |-> web, name |-> name, uses |-> uses]
MCToolsets == { <<Tool(TRUE, "search", 3), Tool(FALSE, "read", 0)>>,
                <<Tool(TRUE, "find", 3), Tool(TRUE, "search", 1)>>,
                <<Tool(FALSE, "read", 0)>> }
MCReplies == { <<"text">>, <<"search">>, <<"text", "search">>, <<"search", "search">>,
               <<"search", "read">>, <<"read">>, <<"find">> }

Init ==
    /\ MessagesInit /\ RateInit /\ ProvidersInit /\ ModelsInit
    /\ ConversationInit
    /\ \/ mode \in {"messages", "rates", "providers", "models",
                     "talk", "deliver", "drafts"} /\ NotifyInit
       \/ mode = "deliver" /\ NotifyInitWith(MCActive)
    /\ mode # "providers" =>
         rows = [i \in Issuers |-> None] /\ published = [u \in Urls |-> {}]

Next ==
    \/ /\ mode = "messages" /\ MessagesNext
       /\ UNCHANGED <<mode, conversationVars, rateVars, notifyVars,
                      providerVars, modelVars>>
    \/ /\ mode = "rates" /\ RateNext
       /\ UNCHANGED <<mode, conversationVars, messageVars, notifyVars,
                      providerVars, modelVars>>
    \/ /\ mode = "providers" /\ ProvidersNext
       /\ UNCHANGED <<mode, conversationVars, messageVars, rateVars, notifyVars,
                      modelVars>>
    \/ /\ mode = "models" /\ ModelsNext
       /\ UNCHANGED <<mode, conversationVars, messageVars, rateVars, notifyVars,
                      providerVars>>
    \/ /\ mode = "talk" /\ ConversationNext
       /\ UNCHANGED <<mode, messageVars, rateVars, notifyVars, providerVars,
                      modelVars>>
    \/ /\ mode = "deliver"
       /\ NewEvent \/ (\E l \in Loops : LoopNext(l)) \/ DeleteRow(a1)
          \/ \E wants \in BOOLEAN : Categories(a1, wants)
       /\ UNCHANGED <<mode, conversationVars, messageVars, rateVars, providerVars,
                      modelVars>>
    \/ /\ mode = "drafts" /\ \E a \in Admins : AdminStep(a)
       /\ UNCHANGED <<mode, conversationVars, messageVars, rateVars, providerVars,
                      modelVars>>

Spec == Init /\ [][Next]_vars /\ NotifyFair /\ ProvidersFair
=============================================================================
