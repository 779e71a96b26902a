----------------------------- MODULE Providers -----------------------------
(***************************************************************************)
(* The identity providers as a replica knows them: MultiIdpValidator in    *)
(* auth/oidc.rs, which keeps the configuration of each issuer with the     *)
(* signing keys (JWKS) last fetched for it, the poll loop that reloads the *)
(* configurations (main.rs), and the hourly refresh that forgets the keys. *)
(*                                                                         *)
(* validate_token() copies the configuration and the cached keys, fetches  *)
(* what it lacks without holding the lock, and stores it in the entry that *)
(* is there by then.                                                       *)
(***************************************************************************)
EXTENDS Integers, FiniteSets

CONSTANTS
    Issuers,
    Urls,          \* where keys are published (jwks_url, or discovery)
    Kids,          \* key ids
    Validations,   \* requests that validate a token
    None,
    MaxRotations,  \* bound of the model: changes of what is published
    MaxEdits,      \* bound of the model: changes of the rows
    MaxLosses      \* bound of the model: queries and fetches that fail

ASSUME ProvidersAssumption == {MaxRotations, MaxEdits, MaxLosses} \subseteq Nat

VARIABLES
    published,    \* per URL: the kids the provider publishes
    rows,         \* per issuer: the URL in its enabled row, or None
    entry,        \* per issuer: [url, jwks], of the validator, or None; jwks
                  \* is None when nothing is cached
    refreshing,   \* the refresh loop runs: there were providers at start-up
    running,      \* the replica has started
    stale,        \* the rows have changed since the last reload
    validations,  \* [phase, issuer, kid, url, jwks]
    rotations, edits, losses

providerVars == <<published, rows, entry, refreshing, running, stale, validations,
                  rotations, edits, losses>>

Idle == [phase |-> "idle"]

ProvidersInit ==
    /\ published \in [Urls -> SUBSET Kids]
    /\ rows \in [Issuers -> Urls \cup {None}]
    /\ entry = [i \in Issuers |-> None]
    /\ refreshing = FALSE /\ running = FALSE /\ stale = FALSE
    /\ validations = [v \in Validations |-> Idle]
    /\ rotations = 0 /\ edits = 0 /\ losses = 0

Lost == losses < MaxLosses /\ losses' = losses + 1

\* load_idps(): the cached keys of an issuer that stays are kept, whatever else
\* of its configuration has changed.
Loaded(configs) ==
    [i \in Issuers |->
       IF configs[i] = None THEN None
       ELSE [url |-> configs[i], jwks |-> IF entry[i] = None THEN None ELSE entry[i].jwks]]

NoConfigs == [i \in Issuers |-> None]

\* main(): the configurations are loaded; the refresh loop is only started when
\* there are any.
StartUp ==
    /\ ~running
    /\ running' = TRUE
    /\ \E configs \in {rows, NoConfigs} :
         /\ configs # rows => Lost
         /\ configs = rows => UNCHANGED losses
         /\ entry' = Loaded(configs)
         /\ refreshing' = (configs # NoConfigs)
    /\ UNCHANGED <<published, rows, stale, validations, rotations, edits>>

\* The poll loop reloads; if the query fails, there are no providers until the
\* next change.
Reload ==
    /\ running /\ stale
    /\ stale' = FALSE
    /\ \/ entry' = Loaded(rows) /\ UNCHANGED losses
       \/ Lost /\ entry' = Loaded(NoConfigs)
    /\ UNCHANGED <<published, rows, refreshing, running, validations, rotations,
                   edits>>

\* create_idp(), update_idp(), delete_idp() and their bump of the version
EditRow(i, url) ==
    /\ running /\ edits < MaxEdits /\ rows[i] # url
    /\ edits' = edits + 1
    /\ rows' = [rows EXCEPT ![i] = url]
    /\ stale' = TRUE
    /\ UNCHANGED <<published, entry, refreshing, running, validations, rotations,
                   losses>>

\* The provider publishes another set of keys.
Rotate(url, kids) ==
    /\ rotations < MaxRotations /\ published[url] # kids
    /\ rotations' = rotations + 1
    /\ published' = [published EXCEPT ![url] = kids]
    /\ UNCHANGED <<rows, entry, refreshing, running, stale, validations, edits, losses>>

WithKeys(i, jwks) == [entry EXCEPT ![i] = IF @ = None THEN None ELSE [@ EXCEPT !.jwks = jwks]]

InPhase(v, phase) == validations[v].phase = phase

\* validate_token() of a token of the issuer, signed with kid
Validate(v, i, kid) ==
    /\ running /\ InPhase(v, "idle") /\ entry[i] # None
    /\ LET jwks == entry[i].jwks
       IN  validations' = [validations EXCEPT ![v] =
             [phase |-> IF jwks = None THEN "fetch"
                        ELSE IF kid \in jwks THEN "verify" ELSE "refetch",
              issuer |-> i, kid |-> kid, url |-> entry[i].url, jwks |-> jwks]]
    /\ UNCHANGED <<published, rows, entry, refreshing, running, stale, rotations,
                   edits, losses>>

\* fetch_jwks(): what is published is read ...
FetchKeys(v) ==
    /\ InPhase(v, "fetch") \/ InPhase(v, "refetch")
    /\ \/ /\ validations' = [validations EXCEPT
               ![v].jwks = published[validations[v].url],
               ![v].phase = IF @ = "fetch" THEN "store" ELSE "restore"]
          /\ UNCHANGED losses
       \/ /\ Lost
          /\ validations' = [validations EXCEPT ![v] = Idle]
    /\ UNCHANGED <<published, rows, entry, refreshing, running, stale, rotations, edits>>

\* ... and stored; a key not found at the first fetch is looked for by another.
Store(v) ==
    /\ InPhase(v, "store") \/ InPhase(v, "restore")
    /\ entry' = WithKeys(validations[v].issuer, validations[v].jwks)
    /\ IF validations[v].kid \in validations[v].jwks
       THEN validations' = [validations EXCEPT ![v].phase = "verify"]
       ELSE IF InPhase(v, "store")
       THEN validations' = [validations EXCEPT ![v].phase = "refetch"]
       ELSE validations' = [validations EXCEPT ![v] = Idle]
    /\ UNCHANGED <<published, rows, refreshing, running, stale, rotations, edits, losses>>

\* The signature, the audience and the allowed domains decide, without state.
Verify(v) ==
    /\ InPhase(v, "verify")
    /\ validations' = [validations EXCEPT ![v] = Idle]
    /\ UNCHANGED <<published, rows, entry, refreshing, running, stale, rotations,
                   edits, losses>>

\* Faulty: the refresh leaves the keys.
RefreshFaulty ==
    /\ refreshing
    /\ entry' = entry
    /\ UNCHANGED <<published, rows, refreshing, running, stale, validations, rotations,
                   edits, losses>>

\* invalidate_all_caches(), every hour
Refresh ==
    /\ refreshing
    /\ entry' = [i \in Issuers |-> IF entry[i] = None THEN None
                                   ELSE [entry[i] EXCEPT !.jwks = None]]
    /\ UNCHANGED <<published, rows, refreshing, running, stale, validations, rotations,
                   edits, losses>>

ProvidersNext ==
    \/ StartUp \/ Reload \/ Refresh
    \/ \E i \in Issuers, url \in Urls \cup {None} : EditRow(i, url)
    \/ \E url \in Urls, kids \in SUBSET Kids : Rotate(url, kids)
    \/ \E v \in Validations :
          \/ \E i \in Issuers, kid \in Kids : Validate(v, i, kid)
          \/ FetchKeys(v) \/ Store(v) \/ Verify(v)

\* The loops of a replica that runs go on, and requests end.
ProvidersFair ==
    /\ WF_providerVars(Reload) /\ WF_providerVars(Refresh)
    /\ \A v \in Validations : WF_providerVars(FetchKeys(v) \/ Store(v) \/ Verify(v))

-----------------------------------------------------------------------------

Withdrawn(i, kid) == rows[i] # None /\ kid \notin published[rows[i]]

Trusted(i, kid) ==
    entry[i] # None /\ entry[i].jwks # None /\ kid \in entry[i].jwks

\* A key that its provider has withdrawn for good, or that is only published
\* where the provider's row no longer points, is in the end no longer accepted
\* from memory: whatever fetches were under way, the hourly refresh gets rid of
\* it.  This needs that the replica found a provider when it started; otherwise
\* start_refresh_loop() is never called.
WithdrawnIsForgotten ==
    \A i \in Issuers, kid \in Kids :
        <>[](refreshing /\ Withdrawn(i, kid)) => <>[]~Trusted(i, kid)
=============================================================================
