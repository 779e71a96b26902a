----------------------------- MODULE MCCatalog -----------------------------
(* Model values for TLC: one of the components that administrators edit and  *)
(* dashboards show, in a behaviour each.                                     *)
EXTENDS Catalog, Pricing, WebSearch, Organisation, Analytics, TLC

CONSTANTS p1, p2, in, out, alice, bob, red

VARIABLE mode

vars == <<mode, catalogVars, pricingVars, searchVars, orgVars, analyticsVars>>

Symmetry == Permutations(Replicas) \cup Permutations(Editors)

\* The migration fills in a row that no list says.
MCSeededRates == p1 :> [d \in Dimensions |-> IF d = in THEN 1 ELSE 2]

\* Price lists: one that lacks a price, one with a line that cannot be read and
\* a dimension that is passed over, one that mentions a price twice.
Line(p, d, a) == [model |-> p, dimension |-> d, price |-> a]
MCPriceLists ==
    << <<Line(p1, in, 1), Line(p1, out, 1), Line(p2, in, 1)>>,
       <<Line(p1, "1h", 2), Line(p1, in, 2), Line(p1, out, Unreadable), Line(p1, out, 1),
         Line(p2, in, 2), Line(p2, out, 2)>>,
       <<Line(p1, out, 2), Line(p1, in, 1), Line(p1, in, 2)>> >>

\* Rows of the spend log, and what is asked about them.
Row(i, w, model, e, t, d, k) ==
    [id |-> i, who |-> w, model |-> model, endpoint |-> e, tools |-> t, day |-> d,
     hour |-> i % 2, tokens |-> k, cached |-> i % 2]
MCLogRows ==
    {Row(1, alice, "opus", "east", {<<"jira", "list">>, <<"jira", "open">>}, 1, 1),
     Row(2, bob, "opus", "west", {<<"", "bash">>}, 2, 2),
     Row(3, alice, "haiku", "east", {<<"jira", "open">>, <<"", "bash">>}, 2, 4)}
Everything == [days |-> 1, from |-> 0, to |-> 0, granularity |-> "auto",
               teams |-> {}, users |-> {}, models |-> {}, endpoints |-> {}]

\* One of the team has another period than it.
MCPeriodOf == alice :> 7 @@ bob :> 1 @@ red :> 7

MCQueries == {Everything,
              [Everything EXCEPT !.teams = {NoUnit}, !.days = 2],
              [Everything EXCEPT !.from = 1, !.to = 1, !.granularity = "day",
                                 !.models = {"opus"}]}

Init ==
    /\ mode \in {"starts", "edits", "prices", "search", "organisation", "default", "analytics"}
    /\ IF mode = "starts" THEN CatalogInit ELSE CatalogInitUp
    /\ PricingInit /\ WebSearchInit /\ OrganisationInit /\ AnalyticsInit
    /\ mode # "organisation" => \A t \in Teams : teams[t] = Null
    /\ unitOf[alice] = red
    /\ rates["haiku"] = Unrated
    /\ mode # "analytics" => unitOf[bob] = red /\ rates["opus"] = Unrated

Next ==
    \/ /\ mode \in {"starts", "edits"} /\ CatalogNext
       /\ IF mode = "starts" THEN editCount' + faults' <= 1 /\ stops' = 0
                              ELSE faults' + stops' <= 1
       /\ UNCHANGED <<mode, pricingVars, searchVars, orgVars, analyticsVars>>
    \/ /\ mode = "prices" /\ PricingNext
       /\ UNCHANGED <<mode, catalogVars, searchVars, orgVars, analyticsVars>>
    \/ /\ mode = "search" /\ WebSearchNext
       /\ UNCHANGED <<mode, catalogVars, pricingVars, orgVars, analyticsVars>>
    \/ /\ \/ mode = "organisation" /\ (TeamNext \/ KeyNext)
          \/ mode = "default" /\ DefaultNext
       /\ UNCHANGED <<mode, catalogVars, pricingVars, searchVars, analyticsVars>>
    \/ /\ mode = "analytics" /\ AnalyticsNext
       /\ UNCHANGED <<mode, catalogVars, pricingVars, searchVars, orgVars>>

Spec == Init /\ [][Next]_vars
=============================================================================
