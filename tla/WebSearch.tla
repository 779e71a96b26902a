----------------------------- MODULE WebSearch -----------------------------
(***************************************************************************)
(* Who gets to see what a user searches the web for: the providers each    *)
(* user has configured (user_search_providers), the administrators' mode   *)
(* and global provider (two rows of proxy_settings, written one after the  *)
(* other), and how a request finds its provider: the mode when the request *)
(* is translated, the provider when its search begins (handlers.rs:728,    *)
(* :1897).                                                                 *)
(***************************************************************************)
EXTENDS Integers, FiniteSets

CONSTANTS
    Searchers,      \* users
    Services,       \* types of providers
    DuckDuckGo,     \* the one that needs no configuration, and the default
    Checked,        \* types whose key or URL is asked for when they are saved
    NoService,
    ModeEditors,    \* requests that change the mode
    Searches,       \* requests with a search tool
    MaxSettings,    \* bound of the model: changes
    MaxMishaps      \* bound of the model: statements that fail

Config == [complete : BOOLEAN, enabled : BOOLEAN]
Provider == [type : Services, complete : BOOLEAN]

ASSUME WebSearchAssumption ==
    /\ DuckDuckGo \in Services /\ Checked \subseteq Services \ {DuckDuckGo}
    /\ NoService \notin Config \cup Provider
    /\ {MaxSettings, MaxMishaps} \subseteq Nat

VARIABLES
    configs,     \* per user and type: [complete, enabled], or NoService
    searchMode,  \* the row websearch_mode
    global,      \* the row websearch_global_provider: [type, complete], or NoService
    modeEdits,   \* per editor: [mode, provider, overlapped], or NoService
    searches,    \* per request: [phase, user, mode, to, disturbed]
    chosen,      \* history: per user the type last activated, NoService if the
                 \* user has changed something since
    intended,    \* history: the last change of the mode, [mode, provider], or
                 \* NoService if it was not completed on its own
    settingCount, mishaps

searchVars == <<configs, searchMode, global, modeEdits, searches, chosen, intended,
                settingCount, mishaps>>

Modes == {"enabled", "disabled", "global"}
NoSearch == [phase |-> "none"]

WebSearchInit ==
    /\ configs = [u \in Searchers |-> [t \in Services |-> NoService]]
    /\ searchMode = "enabled" /\ global = NoService
    /\ modeEdits = [a \in ModeEditors |-> NoService]
    /\ searches = [q \in Searches |-> NoSearch]
    /\ chosen = [u \in Searchers |-> NoService]
    /\ intended = [mode |-> "enabled", provider |-> NoService]
    /\ settingCount = 0 /\ mishaps = 0

Mishap == mishaps < MaxMishaps /\ mishaps' = mishaps + 1
Changes == settingCount < MaxSettings /\ settingCount' = settingCount + 1

\* SearchProvider::from_config(), from_global_config(): what lacks its key or
\* its URL is not used, and the search goes to the default.
Usable(t, complete) == IF t = DuckDuckGo \/ complete THEN t ELSE DuckDuckGo

\* What is under way sees something change.
Disturbed == [q \in Searches |-> IF searches[q] = NoSearch THEN NoSearch
                                 ELSE [searches[q] EXCEPT !.disturbed = TRUE]]

-----------------------------------------------------------------------------
(* The user *)

\* set_search_provider(), upsert(): others that are enabled stay so.
SaveProvider(u, t, complete, enabled) ==
    /\ Changes
    /\ complete \/ t \notin Checked
    /\ configs' = [configs EXCEPT ![u][t] = [complete |-> complete, enabled |-> enabled]]
    /\ chosen' = [chosen EXCEPT ![u] = NoService]
    /\ searches' = Disturbed
    /\ UNCHANGED <<searchMode, global, modeEdits, intended, mishaps>>

\* Faulty: the others are not disabled.
ActivatedFaulty(u, t) ==
    [s \in Services |-> IF configs[u][s] # NoService /\ s = t
                        THEN [configs[u][s] EXCEPT !.enabled = TRUE] ELSE configs[u][s]]

\* activate(), a transaction: all others are disabled, even when there is no
\* row of the type and the answer is a 404.
Activated(u, t) ==
    [s \in Services |-> IF configs[u][s] = NoService THEN NoService
                        ELSE [configs[u][s] EXCEPT !.enabled = (s = t)]]

ActivateProvider(u, t) ==
    /\ Changes
    /\ configs' = [configs EXCEPT ![u] = Activated(u, t)]
    /\ chosen' = [chosen EXCEPT ![u] = IF configs[u][t] = NoService THEN NoService ELSE t]
    /\ searches' = Disturbed
    /\ UNCHANGED <<searchMode, global, modeEdits, intended, mishaps>>

\* delete_search_provider()
DeleteProvider(u, t) ==
    /\ Changes /\ configs[u][t] # NoService
    /\ configs' = [configs EXCEPT ![u][t] = NoService]
    /\ chosen' = [chosen EXCEPT ![u] = NoService]
    /\ searches' = Disturbed
    /\ UNCHANGED <<searchMode, global, modeEdits, intended, mishaps>>

\* get_search_providers() shows them all, test_search_provider() asks one
\* without saving it.
ListedProviders(u) == {t \in Services : configs[u][t] # NoService}

-----------------------------------------------------------------------------
(* Administrators: set_websearch_mode() *)

Overlap == [a \in ModeEditors |-> IF modeEdits[a] = NoService THEN NoService
                                  ELSE [modeEdits[a] EXCEPT !.overlapped = TRUE]]

\* The mode is stored; for any but "global" that is all.
SetMode(a, mode, provider) ==
    LET alone == \A b \in ModeEditors : modeEdits[b] = NoService
    IN  /\ Changes /\ modeEdits[a] = NoService
        /\ (mode = "global") <=> (provider # NoService)
        /\ searchMode' = mode
        /\ modeEdits' = IF mode = "global"
                        THEN [Overlap EXCEPT ![a] =
                                [mode |-> mode, provider |-> provider,
                                 overlapped |-> ~alone]]
                        ELSE Overlap
        /\ intended' = IF mode = "global" \/ ~alone THEN NoService
                       ELSE [mode |-> mode, provider |-> NoService]
        /\ searches' = Disturbed
        /\ UNCHANGED <<configs, global, chosen, mishaps>>

\* The provider is stored after it, or a statement fails.
SetGlobal(a) ==
    LET edit == modeEdits[a]
    IN  /\ edit # NoService
        /\ modeEdits' = [modeEdits EXCEPT ![a] = NoService]
        /\ \/ /\ global' = edit.provider
              /\ intended' = IF edit.overlapped THEN NoService
                             ELSE [mode |-> edit.mode, provider |-> edit.provider]
              /\ UNCHANGED mishaps
           \/ Mishap /\ UNCHANGED <<global, intended>>
        /\ searches' = Disturbed
        /\ UNCHANGED <<configs, searchMode, chosen, settingCount>>

-----------------------------------------------------------------------------
(* A request with a search tool *)

\* translate() with the mode: extract_web_search_tool_with_mode() takes the
\* tool away, or makes one of it that Bedrock knows.  A failed query is taken
\* for "enabled".
BeginSearch(q, u) ==
    LET Begun(mode, disturbed) ==
            [phase |-> IF mode = "disabled" THEN "done" ELSE "asked", user |-> u,
             mode |-> mode, to |-> NoService, disturbed |-> disturbed]
    IN  /\ searches[q] = NoSearch
        /\ \/ /\ searches' = [searches EXCEPT ![q] = Begun(searchMode, FALSE)]
              /\ UNCHANGED mishaps
           \/ Mishap /\ searches' = [searches EXCEPT ![q] = Begun("enabled", TRUE)]
        /\ UNCHANGED <<configs, searchMode, global, modeEdits, chosen, intended,
                       settingCount>>

\* resolve_global_search_provider(); resolve_search_provider(), any of those
\* that are enabled; a failed query is taken for none.
Resolved(q) ==
    LET u == searches[q].user
        enabled == {t \in ListedProviders(u) : configs[u][t].enabled}
    IN  IF searches[q].mode = "global"
        THEN {IF global = NoService THEN DuckDuckGo ELSE Usable(global.type, global.complete)}
        ELSE IF enabled = {} THEN {DuckDuckGo}
        ELSE {Usable(t, configs[u][t].complete) : t \in enabled}

SendSearch(q) ==
    /\ searches[q].phase = "asked"
    /\ \E to \in Resolved(q) \cup {DuckDuckGo} :
          /\ to \notin Resolved(q) => Mishap
          /\ to \in Resolved(q) => UNCHANGED mishaps
          /\ searches' = [searches EXCEPT
               ![q].phase = "done", ![q].to = to,
               ![q].disturbed = @ \/ to \notin Resolved(q)]
    /\ UNCHANGED <<configs, searchMode, global, modeEdits, chosen, intended,
                   settingCount>>

EndSearch(q) ==
    /\ searches[q].phase = "done"
    /\ searches' = [searches EXCEPT ![q] = NoSearch]
    /\ UNCHANGED <<configs, searchMode, global, modeEdits, chosen, intended,
                   settingCount, mishaps>>

-----------------------------------------------------------------------------

WebSearchNext ==
    \/ \E u \in Searchers, t \in Services :
          \/ \E complete, enabled \in BOOLEAN : SaveProvider(u, t, complete, enabled)
          \/ ActivateProvider(u, t)
          \/ DeleteProvider(u, t)
    \/ \E a \in ModeEditors :
          \/ \E mode \in Modes, p \in Provider \cup {NoService} : SetMode(a, mode, p)
          \/ SetGlobal(a)
    \/ \E q \in Searches :
          \/ \E u \in Searchers : BeginSearch(q, u)
          \/ SendSearch(q)
          \/ EndSearch(q)

WebSearchSpec == WebSearchInit /\ [][WebSearchNext]_searchVars

-----------------------------------------------------------------------------

\* A request during which nothing changed and no query failed sends its search
\* to nobody when an administrator has disabled searching, to the global
\* provider when the last change of the mode said so, and otherwise to the
\* provider its user has activated, if the user has touched none since; each as
\* far as it is usable.
SearchGoesWhereChosen ==
    \A q \in Searches :
        searches[q].phase = "done" /\ ~searches[q].disturbed /\ intended # NoService =>
            /\ intended.mode = "disabled" => searches[q].to = NoService
            /\ intended.mode = "global" =>
                  searches[q].to = Usable(intended.provider.type,
                                          intended.provider.complete)
            /\ intended.mode = "enabled" /\ chosen[searches[q].user] # NoService =>
                  LET u == searches[q].user
                  IN  searches[q].to = Usable(chosen[u], configs[u][chosen[u]].complete)
=============================================================================
