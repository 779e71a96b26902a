# Verification of the Claude Code AWS Gateway

TLA+ specifications of the gateway in `src/src`, configurations that check them
with TLC on small instances, and proofs that TLAPS checks for every instance.
Paths below are relative to `src/src` unless they begin with `src/`.

- [The system](#the-system)
- [Modules and how they correspond to the code](#modules)
- [Runs](#runs): what is asked, with which bounds and which fairness
- [Theorems](#theorems)
- [Disagreements](#disagreements) between code and documentation
- [What is not modelled](#not-modelled), and the [plan](#plan)

## The system

The gateway accepts Anthropic Messages API requests and forwards them to
Bedrock. Several replicas run side by side. They share one Postgres database and
nothing else: every replica keeps caches, buffers and routing state in memory.

What binds the replicas together is one counter, `cache_version.version`. A
handler that changes a shared row bumps it (`db/settings.rs`). Every five
seconds each replica's poll loop (`main.rs`, `start_cache_poll_loop`) compares
it with the value it saw last and, if it is larger, reloads virtual keys,
identity providers, model mappings, endpoints, beta overrides and settings.
Within one replica the tasks are tokio tasks: they interleave at every await and
share state behind locks that are held for single steps.

| component | state | operations | talks to |
|---|---|---|---|
| spend tracker (`spend/`, `db/spend.rs`) | bounded buffer of log entries; `spend_log` | record, flush, per-record fallback, re-buffer | request handlers record, one task flushes |
| virtual keys (`auth/mod.rs`, `db/keys.rs`) | `virtual_keys`; a map in every replica | create, revoke, update, delete, load, insert | admin handlers, poll loop, start-up, every request |
| endpoint pool (`endpoint/mod.rs`, `db/endpoints.rs`) | rows, assignments, default; clients with health and models | row handlers, load, health check | admin handlers, poll loop, health loop |
| routing (`endpoint/mod.rs`, `api/handlers.rs`) | affinities, round robin counter, the request's own variables | filter, select, fail over, refresh affinity | the pool, Bedrock |
| beta capabilities (`endpoint/mod.rs`, `translate/betas.rs`, `lib.rs`) | `beta_overrides`; a cache per endpoint client | learn, override, forget, probe, expire, replay | requests, health loop, admin handlers, poll loop |
| message requests (`api/handlers.rs`) | the variables of a request | authenticate, check, route, call, retry, fail over, stream, search, record | all of the others |
| budgets (`budget/mod.rs`, `db/budget.rs`) | limits, spend cache (30 s), `budget_events` | evaluate, check, insert event | every request reads, `spend_log` feeds |
| notifications (`budget/notifications.rs`) | `delivered_at` of events, a draft and an active destination | delivery loop (30 s), save, test, activate | `budget_events`, webhook, SNS, EventBridge |
| rate limiter (`ratelimit/mod.rs`) | request times of each key | check, clean up | every request, poll loop |
| sessions (`auth/session.rs`, `api/cli_auth.rs`, `proxy/mod.rs`) | signing key, login sessions, setup tokens | issue, validate, create, complete, poll | CLI, OIDC, start-up |
| identity providers (`auth/oidc.rs`, `db/idp.rs`) | providers, key sets | load, validate, resolve team | poll loop, every OIDC request |
| users, groups and roles (`scim/`, `db/scim_groups.rs`, `db/users.rs`) | users, groups, members, SCIM tokens | create, replace, patch, delete, evaluate role | identity provider, administrators, logins; keys depend on `active` |
| model mappings (`translate/models.rs`) | mapping cache, `model_mappings` | look up both ways, discover, list | requests, poll loop, health loop |
| settings and AIP overrides (`db/settings.rs`, `db/endpoint_aip_overrides.rs`) | rows; a copy in every replica | update, load, migrate | admin handlers, start-up, poll loop |
| prices (`pricing/`) | `model_pricing` | refresh from AWS, overrule | start-up, timer, administrators |
| web search (`websearch/`, `db/search_providers.rs`) | providers of users, mode, global provider | save, activate, delete, search | requests, search engines |
| organisation (`db/teams.rs`, `api/admin.rs`) | teams, owners of keys, default budget | create, update, delete | administrators, budgets |
| analytics (`db/org_analytics.rs`, `db/budget.rs`) | none of its own | the pages of the dashboards | `spend_log`, `users`, `teams` |

Behaviours that are hard, and where they are:

- **Interleaving in a replica.** A load reads rows, awaits, and writes the cache
  (`auth/mod.rs:43`, `endpoint/mod.rs:383`); the poll loop's load and a
  handler's load run at once. Signing keys of a provider are fetched without the
  lock and stored into whatever entry is there (`auth/oidc.rs`). The flush task
  gives the buffer's lock back while it talks to Postgres. A request reads
  assignment, models, health and fallbacks at four moments.
- **Interleaving of replicas.** Rows and version change in separate statements.
  Two replicas deliver the same events, start on an empty database together, and
  refresh the same prices.
- **Read, then write.** Handlers read a row, fill in what the request leaves out
  and write all of it (`api/admin.rs`, `update_key`; `scim/users.rs`,
  `patch_user`); a role is evaluated in one statement and written in another;
  a page of a dashboard is several statements.
- **Failure.** A query may fail between two statements of a handler, a reply may
  be lost after the statement took effect, a process may be killed at any point
  (there is no graceful shutdown, `main.rs:802`), Bedrock may come and go.
- **Time.** TTLs (30 minutes of affinity, 24 hours of learned capabilities),
  intervals (5, 30 and 60 seconds), retries without end (the flush loop).

What makes each component correct:

- *spend tracker*: memory stays bounded, every entry is accounted for, order
  survives re-buffering, duplicates only where a reply was lost, the buffer
  empties when Postgres is back;
- *keys*: a replica that has seen the newest version answers from the newest
  rows, in the end all replicas agree, ended keys do not outlive a restart;
- *pool*: it equals the table at rest, endpoints regain health, and requests
  never see a state that loads and health checks should not produce;
- *routing*: no request fails while a healthy endpoint of its team is untried,
  sticky users stay, the affinity map stays bounded;
- *betas*: an override is in force everywhere and learning never removes it,
  nothing false is learned, what has become false is forgotten;
- *message requests*: what Bedrock charges for is recorded once, whatever
  retries, fallbacks, rounds of searches and vanishing clients come between;
- *budgets*: a limit holds in the end, an event does not fire with every
  request, nobody is refused without a trace;
- *notifications*: an event is not lost, and no event blocks the others;
- *rate limiter*: no minute sees more than the limit, nobody is refused below it;
- *sessions*: a token issued by one replica is valid at all;
- *identity providers*: a withdrawn key is forgotten;
- *users and roles*: a role is what the groups make it, and who has been
  deactivated stays out;
- *model mappings*: a request is answered by the version it names;
- *settings, AIP overrides*: replicas agree once they have seen the version;
- *prices*: an administrator's price stays, others come whole from one list;
- *web search*: a query goes where user and administrator wanted it;
- *organisation*: overlapping edits do not mix;
- *analytics*: the figures of a page add up, and match what budgets go by.

<a name="modules"></a>
## Modules and how they correspond to the code

Each component module has its state as variables, one action per operation or
per stretch of an operation between two awaits, and its properties at the end.
Operators named `...Faulty` stand before the definition that they are a mistaken
variant of; no specification uses them. They record which mistake each property
would reveal. Variables marked *history* in a module only remember what happened
for a property to speak of; no guard reads them.

| module | models | state in the code |
|---|---|---|
| `SpendTracker` | `spend/mod.rs`, `db/spend.rs` | `buffer` is the mutex-guarded deque, `batch` and `phase` the flush task's locals, `keys` and `spendLog` the two tables |
| `SpendLedger` | what the tracker promises of an entry | abstract; implemented by `SpendTracker` |
| `KeyCache` | `auth/mod.rs`, `db/keys.rs`, the key part of poll loop and start-up | `cache` is `KeyCache.inner`, `seen` is `GatewayState.cache_version`, `poll` and `task` the locals of pollers and admin handlers, the tasks that load |
| `EndpointPool` | `endpoint/mod.rs` (pool), `db/endpoints.rs`, endpoint handlers, health loop | `clients`, `dflt`, `listed` are the pool; `load[w]` the locals of the poll loop's and the handler's load; `check` what the health loop has yet to do in a tick |
| `PoolView` | what a request can see of the pool | abstract; implemented by `EndpointPool`, extended by `Routing` |
| `Routing` | `select_endpoint`, `filter_by_model`, `get_fallback_endpoints`, affinity, the failover loop of `messages` | `req` holds the locals of each request, by the await it is at |
| `BetaCapabilities` | capability cache, probes, rejections and retries, overrides, replay | `cache` is `EndpointClient.beta_capabilities`, `row` the table of overrides |
| `Messages` | `messages`, `handle_streaming`, `handle_non_streaming`, `handle_with_web_search` | `req` the handler's locals, `recorded` what reached the spend tracker; what Bedrock charged for is history |
| `Conversation` | the blocks and messages of `handle_with_web_search`, `synthesize_sse_response`, the conversions of `websearch/mod.rs` | `talk` is the body and the loop's locals, `answer` what the client gets; what the model said is history |
| `BudgetPolicy` | policies, periods and their evaluation in `budget/mod.rs`; which budget applies | none: constant operators |
| `Budget` | `check_budget`, `check_team_budget_only`, the spend cache, `db/budget.rs` | `cached` is `BudgetSpendCache`, `events` the table by thresholds, `logged` the sums that queries return |
| `RateLimiter` | `ratelimit/mod.rs` | `windows` says which of the requests let through are still in the list of timestamps behind the lock |
| `Notifications` | `delivery_loop`, the `/admin/notifications` handlers, `db/notification_config.rs` | `marked` is `delivered_at`, `active` and `draft` the two slots, `loops` the loops' locals |
| `Providers` | `MultiIdpValidator` in `auth/oidc.rs` | `entry` its map of configurations and fetched keys, `validations` the calls of `validate_token` |
| `Models` | `translate/models.rs`, what the health check and `GET /v1/models` make of profiles | `mappings` the cache, `profiles` the answer of AWS |
| `Directory` | `scim/`, `db/scim_groups.rs`, `db/scim_tokens.rs`, `db/users.rs`, `db/idp.rs`, `resolve_oidc_role` | the five tables; `clients` and `logins` requests under way |
| `Login` | `auth/session.rs`, `api/cli_auth.rs`, `auth_login`, setup tokens, the signing key in `main.rs` | `stored` the row of the key, `key` each replica's copy, `rows` the CLI sessions |
| `Catalog` | `proxy_settings`, `model_mappings`, `endpoint_aip_overrides` and their copies | `db`, `mem`, `seen`; `life` the step of start-up or reload a replica is at |
| `Pricing` | `pricing/mod.rs`, `db/model_pricing.rs`, its handlers | `prices` the table, `refreshes` what each refresh has yet to write |
| `WebSearch` | `db/search_providers.rs`, `websearch/`, mode and global provider | `configs`, `searchMode`, `global`; `searches` the requests |
| `Organisation` | teams, owners of keys, default budget | the tables; `managers` and `readers` requests under way |
| `Analytics` | `db/org_analytics.rs`, the dashboards of `api/admin.rs` | `log`, `unitOf`, `rates` the tables; `board` the page being put together |
| `...Proofs` | theorems about the module of that name; `SpendTrackerProofs` also about `Budget`, `MessagesProofs` about `Notifications`, `RateLimiter`, `Models` and `Conversation`, `AccountsProofs` about `Directory` and `Login`, `CatalogProofs` about `Organisation`, `WebSearch`, `Pricing` and `Analytics` | |
| `MC...` | constants for TLC, and which component moves in a behaviour | |

**SpendTracker.** `Record` is `record()` with its eviction. `FlushTake` takes
the buffer; `BatchOk`, `BatchTransient`, `BatchRejected` and `BatchReplyLost` are
the outcomes of the multi-row INSERT; `OneOk`, `OneRejected`, `OneTransient` and
`OneReplyLost` those of one INSERT of the per-record fallback; `Rebuffer` is
`rebuffer_capacity_respecting()`. Which outcome is possible follows from the
rows as Postgres and `is_transient_db_error()` see them: class 22 is a data
rejection, everything else (foreign keys, too many parameters, I/O) transient.

**KeyCache.** An admin handler is `CreateKey`/`RevokeKey`/`UpdateKey`/
`DeleteKey` (the row), `Bump`, and `Insert` or `TaskRead` and `TaskWrite` (its
own replica). Any number of handlers may be under way, in one replica or in
several. The poller is `PollVersion` (which stores the version *before* the
reload, as the code does), `PollRead`, `PollWrite`. A start-up is `BootRead`,
`BootWrite`, `BootVersion`. Calls may fail (`...Fault`) and replicas crash.
`behind` is a history variable: the replicas that nothing will bring up to date
before the next change, for one of the five reasons that `SyncedWhenSeen` names.

**EndpointPool.** Handlers write rows (`set_team_endpoints` row by row, outside a
transaction, as the code does), bump, and load with all rows or with the enabled
ones. A load is `LoadList`, `LoadKeep` (snapshot of the caches to preserve),
`LoadSwap` (all clients, all unhealthy), `LoadDefault` (under its own lock). The
health loop is `HealthTick` (the list of clients is taken once), `HealthCall`
(models are listed, unless the check fails or finds none), `HealthMark` (the
verdict is entered in the client it was made with, in the pool or not).
`AdminCheck` and `AdminMark` are `get_endpoint_models()`, any number of them at
once, each with a verdict of its own. One handler that changes endpoints works at
a time. The outcome of `compute_health_state()` is an input here (`bedrock`); the
operator itself is in `Models`.

**Routing.** The pool changes between any two steps of a request, in every way
that `PoolView` allows. A request goes through `Arrive` (the assignment is read),
`Filter`, `Select`, `Send`, `Fallback` and `NextEndpoint`. An assignment is a
sequence, by priority; what a request chooses from is a set. `steady` is a
history variable: the endpoints of the request's team that have been healthy,
with their models listed, ever since it arrived.

**BetaCapabilities.** One endpoint that stays in the pool; a pair is a profile
and a beta. Seed probes and a request run beside the override handlers, of which
`Handlers` may be under way at once, in one replica or in several. `behind` is a
history variable: the replicas that a lost bump or a failed replay may have left
out of date, the exceptions that `InForce` names. The
request's `unknown` is what was unknown when it was filtered, which the code
marks as supported when the answer comes.

**Messages.** Each call to Postgres, Bedrock or a search engine is a step, and
`GoAway` (the client hangs up, the handler's future is dropped) may come between
any two. `CallRejected` and the steps from `"retry"` are the one repetition with
fewer betas; `FailWith` decides between another endpoint and an answer;
`StreamBegins`, `StreamEvent`, `StreamBreaks`, `StreamEnds` follow the task that
forwards events and notes the parts of a call's usage as they come
(`StreamUsage`: the input with `message_start`, the output with `message_delta`;
`StreamSkips` is a chunk that is not JSON); `told` is what it has noted, and what
is recorded at the end. `SearchAsked`, `SearchOne` and `NextRound` the loop of web
searches. What other components decide (budget, rate, endpoint, betas) is a free
choice here, since their own modules show what they decide.

**Conversation.** The same loop with what is said in it: `ExtractTool` turns the
request's search tool into a plain one or strips it; `Respond` is a reply of the
model, blocks that are texts or uses of the tools it was given; `ExecuteSearch`
answers the next use, `EndRound` appends both to the messages or leaves the loop;
`BuildResponse` rewrites all blocks into one answer, as JSON or as events. That
Bedrock refuses a conversation in which a use of a tool has no result
(`RefusedTalk`) is assumed of Bedrock. Calls that fail otherwise are in
`Messages`, where the loop counts tokens and not blocks.

**Budget.** `Arrive` reads user and team; `Hit` or `Query` and `Store` give the
amount; `Judged` evaluates the policy and keeps the more severe decision;
`Count` and `Insert` are the two statements of an event; then `Refuse` or
`Admit`. `Charge` lets spend appear in `spend_log` at any time, `Expire` ends an
entry of the cache, `NextDay` the day. Amounts are integers, percentages are
compared after multiplying out. `BudgetPolicy` has the presets, what an
administrator may save (`Admissible`), the rule that counts (`Evaluate`: the
last one triggered, as in the code) and the precedence of user, team and default.

**RateLimiter.** `Ask` reads the clock before the lock is taken; `Admit` and
`Refuse` prune the window, count, and push; `Cleanup` is the poll loop's.
`MaxWait` bounds how long a request waits for the lock.

**Notifications.** A loop of each replica: `Fetch` (the oldest undelivered
events), `Resolve` (the destination: row, else environment), then for each event
`Send`, `SendFails` or `SendPanics`, and `Mark`. Administrators save drafts, test
them in two steps (the delivery, then the record of its result), activate in two
steps and delete.

**Providers.** `Validate` copies configuration and cached keys, `FetchKeys` and
`Store` are `fetch_jwks` without the lock, once or twice as in the code; `Reload`
is the poll loop's, which keeps cached keys; `Refresh` the hourly task.

**Models.** A name is a record of family, major, minor and date, of which the
numbers are sequences of digits. The text comparisons of the code (`find`,
`contains`, `starts_with`) become comparisons of these parts, in which the last
one may go on: `Begins`, `Occurs` (4-1 occurs in 4-10, and 4-2 in 4-20250514),
`StemMatches` with what follows the stem (`Following`), `Covers`. `EndsWithin`
says of a known stem that it ends within a number of a name, `Unmistaken` of a
name that nothing of the kind happens to it. `Forward` and `Answered` are the two
translations with cache and built-in names, `Discover` the three passes of
`select_profile_id` with the row they leave, `ComputeHealthState` and
`ListedModels` what an endpoint has and what `GET /v1/models` lists.

**Directory.** A SCIM request on a group is `BeginPost`/`BeginPut`/`BeginPatch`/
`BeginDelete` (it reads the group), `SetMembers`, `AddMember`, `RemoveMember`,
`Rename` (a PATCH is any sequence of them), `WriteGroup` or `DeleteGroup`, and
for each user concerned `EvaluateRole` and `WriteRole`, which are two statements.
`Abandon` is a failed statement. Requests on users are one statement that
matters (a creation reads the provider's default role a statement earlier, here in
the same step), except a PATCH: `BeginPatchUser` reads the row and `WritePatchUser`
writes every attribute. A login is `LookUp`, `CheckScim`, `Provision`.
`shaken` collects the users whose role no code evaluates again.

**Login.** A start is `Boot`, `ReadKey`, `PersistKey` (an INSERT ... ON CONFLICT
DO UPDATE); tokens come from `CliLogin`/`CliComplete`/`CliPoll`,
`PasswordLogin` and setup tokens; `Identified` is `check_auth_identity`.

**Catalog.** A start reads settings, then the version, then mappings (seeding an
empty table, with a bump) and AIP overrides (migrating the legacy profile,
without one); a reload reads the version first. `WriteSetting`, `Bump`,
`StoreSetting` are `update_setting`; `LearnMapping` and `UpsertMapping` what a
discovery leaves; `CreateAip` and `DeleteAip` the override handlers. Profiles are
kept in the clients of endpoints, which the handlers of endpoints replace too:
`ChangeEndpoint`, `ReadClients` and `PutClients` are such a handler's load, as far
as it concerns the copies. A query that fails in it leaves the profiles empty, or
the clients as they were (`Load` for start and reload).

**Pricing.** The table begins with the rows that migration 010 inserts
(`SeededRates`, `AsSeeded`). `KnownAfter` reads a list line by line, `Parsed`
takes the models of which all prices are known; `Download`, `WriteRow` (one
upsert, which leaves rows of administrators alone) and `Report` are a refresh;
`SetPrice` and `DeletePrice` the administrators.

**WebSearch.** `SaveProvider`, `ActivateProvider` (disable all, enable one),
`DeleteProvider`, `SetMode` and `SetGlobal` (two statements). `BeginSearch` reads
the mode when the request is translated, `SendSearch` resolves the provider when
the search begins.

**Organisation.** `ReadKeyRow` and `WriteKeyRow` are `update_key`; `BeginCreate`
and `InsertKey` the creation of a key with its owner's team; `BeginDefault` and
`WriteField` the default budget, field by field, and `ReadAmount`, `ReadPolicy`
how requests read it, with queries whose failure is taken for no row.

**Analytics.** Every statement is an operator on the rows (`Selected`, a grouping,
sums that leave NULL out); a page is a sequence of statements (`Ask`,
`RunStatement`, `CloseBoard`) between which rows arrive, people move and prices
change. `TopLists` are the lists of tools that the LIMIT leaves (`ToolLimit`, 30 in
the code), `PeriodOf` each budget's own period. A user's own page goes by the
days asked for whatever the range (`Granularity`), and where a statement fails
shows zeros (`FailStatement`).

How they compose: `Routing` stands on `PoolView`, and `EndpointPool` is proved to
implement it, so what holds of `Routing` holds of requests on the real pool.
`SpendTracker` implements `SpendLedger`. `Budget` evaluates with `BudgetPolicy`.
The parts of the one poll loop in `KeyCache`, `EndpointPool`, `BetaCapabilities`,
`Catalog` and `Providers` are checked apart: each keeps state of its own, except
that the profiles of `Catalog` and the capabilities of `BetaCapabilities` are in
the clients of `EndpointPool`. `Catalog` therefore has the loads of endpoint
handlers beside its own; capabilities are carried from the old client to the new.
The same holds of the components that share a run: a behaviour of
an `MC` module moves one of them, which is why their instances add up and do not
multiply.

<a name="runs"></a>
## Runs

Runs marked (x) end in a counterexample on purpose: they state what the
documentation says, and the code does otherwise.

| run | instance | asks |
|---|---|---|
| `spend` | capacity 3 with 2 rows to a statement, 4 entries with or without a key, or all without, at most 2 rows of an entry | is every entry accounted for, in order, and is `SpendLedger` implemented; does the buffer empty, unless a batch is too long for a statement (`DrainsWithoutKeys`) |
| `spend_foreign_key` (x) | capacity 2, 3 entries, a key that may be deleted | `Drains` fails: one entry of a deleted key blocks all later ones |
| `keys` | 2 replicas, 2 overlapping admin handlers in either of them, 1 key, 2 bumps, and one mishap: a failing call, a crash, a SCIM change | does the version keep replicas in step, but for the five named reasons (`SyncedWhenSeen`, `Converges`); does a restart forget (`RestartForgets`) |
| `beta` | *learning*: 1 replica, 2 pairs, an override of one; *sharing*: 2 replicas, 1 pair, 2 handlers, a crash or a failing call; *healing*: Bedrock changes twice, a crash | is only the truth learned, do overrides stand, reach every replica and survive unless a bump or a replay is lost, does what is false disappear |
| `beta_evict` (x) | 2 replicas, 1 pair | `Evicted` fails: a deleted override stays in force elsewhere |
| `pool` | 1 endpoint, 2 changes or checks asked for by administrators, 1 change of what Bedrock answers, a fault | `PoolCurrent`, `Recovers`, `ImplementsView` |
| `routing` | 2 endpoints, 1 request at a time, 2 users, affinity map of 1 | `TriesAll` |
| `routing_sticky` (x) | 2 endpoints that always pass their health checks | `Sticky` fails: a load makes them unhealthy |
| `budget` | 2 requests in one replica, 1 user with or without a team, Sunday and Monday, a fault | how often an event fires, whether refusals leave a trace, whether a limit holds in the end |
| `messages` | *messages*: 1 request, 2 fallbacks, 3 searches; *talk*: 3 rounds, replies of 1 or 2 blocks; *rates*: 2 requests, a limit of 2 and one of 0, 4 ticks; *deliver*, *drafts*: 2 loops or 2 administrators, 3 events, 2 drafts, a failure; *models*: the 6 names of one major version, two minors (2 and 20) and a date in 2025, 2 profiles; *providers*: 1 issuer, 2 URLs, 1 key id, 2 validations | billing, searches, windows, deliveries, drafts, versions, withdrawn keys |
| `accounts` | *people*, *roles*: 2 users, 2 names, 1 provider, 1 group, 2 SCIM requests, 1 login, 3 changes, a failure; *keys*, *tokens*: 2 replicas, 3 starts, 1 CLI session | do roles agree with groups, do leavers stay out, do tokens hold |
| `catalog` | *starts*, *edits*: 2 replicas, 2 editors, 2 names, 2 edits, a fault or a stop (*starts*: an edit or a fault); *prices*: 2 models, 1 of them seeded, 3 lists, 2 refreshes; *search*: 1 user, 3 services, 3 changes; *organisation*, *default*: 1 key, 2 teams, 2 requests, 3 changes, a failing statement; *analytics*: 3 rows, 2 people, 3 queries, 2 days, lists of 2 tools, periods of 7 days and of 1, a failing statement | do copies agree, are prices sound, where does a search go, are edits kept, do figures add up |

### What the properties say

The comment above each property in its module states it in full, with the
exceptions that the code makes necessary. In short:

- *`Bounded`, `Accounted`, `InOrder`, `ServedInOrder`, `DuplicatesExplained`,
  `DropsOnlyUnderLoad`*: an entry is in the buffer, in the batch, in the table or
  dropped for a reason; entries are dealt with in the order of recording; two rows
  of an entry need a lost reply. `ImplementsLedger` says of each entry what it may
  go through, as a refinement.
- *`SyncedWhenSeen`, `PoolCurrent`, `OverrideInForceEverywhere`,
  `ReplicasAgree`*: whoever has seen the newest version, and is not in the middle
  of something, answers from the newest rows. `Converges`, `Recovers`,
  `EnforcedEverywhere`: everybody gets there.
- *`LearnsTruth`, `OverrideStands`, `HealsItself`*: learning and probes neither
  conclude what Bedrock did not say, nor overwrite an administrator, nor last
  beyond the TTL.
- *`TriesAll`*: no request fails while an endpoint of its team, healthy all the
  time, is untried. *`ImplementsView`* carries this to the real pool.
- *`FiresOncePerRequest`*: the race of count and insert doubles an event at most
  once per request in progress. *`NoSilentBlock`*: a blocked request has left or
  found the event of the threshold that blocks it. *`SpendStops`*: who stays over
  the limit is, in the end, not admitted.
- *`Billed`*: one entry with the tokens of all answered calls, of a stream with what
  its chunks have told.
- *`SearchesSound`*: whatever a model searches for and whatever fails, rounds and
  successful searches are limited, Bedrock accepts every round unless the model
  used a tool of the client's beside a search, and the client is given all that
  was said, each search followed by its own results.
- *`RateHeld`*, *`RefusedWhenFull`*: both sides of the window.
- *`MarkedMeansSent`*, *`ActiveWasTested`*, *`EventuallyDelivered`*: an event is
  marked for a reason, an active destination was tested, and events that fail for
  ever do not block the others while they are fewer than a batch.
- *`SameModel`*: translations keep the version, but where the text of one is a part
  of another's, and what is listed is there.
- *`WithdrawnIsForgotten`*: a key that is no longer published is in the end not
  accepted from memory.
- *`RoleAgrees`*, *`LeaversStayOut`*, *`TokensHold`*; *`PricesSound`*,
  *`SearchGoesWhereChosen`*, *`EditsAreKept`*, *`FiguresAgree`*: as in the list
  above under what makes each component correct.

### Why the bounds are enough to be of interest

- *Capacity 3, 2 rows to a statement and 4 entries* give batches that fit and
  one that does not, a full buffer, a re-buffer with room for all of its entries
  or not, and evictions before and after it. `MaxCopies` 2 lets one reply be
  lost and the retry succeed.
- *Two replicas* suffice for every exchange through the version: the replicas
  other than the one that made a change do not talk to each other. They also
  suffice for the race of the signing key, and two loops for that of deliveries.
- *Three changes* give a change during a load, and one more after it that makes
  the poller load again.
- *One endpoint in* `pool` already has both loads, the health loop, its own row
  and the default in conflict; loads treat endpoints independently of each other
  except for the default. `MaxChanges` 2 gives a load of old rows that is
  overtaken by a load of new ones, or a change and an administrator's check;
  `MaxFlips` 1, from each of the three answers of Bedrock, an outage, a recovery,
  or models that come or go.
- *Two endpoints and one request in* `routing`: requests affect each other
  through the affinity map and the round robin counter only. `AffinityOf` is
  used together with `Healthy`, so that a stale entry of any other user is as
  good as one of this user's own earlier requests, which come in between
  (`MaxAffinity` 1 makes two users push each other out).
- *Two requests in* `budget` race for the cache and for an event; a Sunday and a
  Monday let a day and a week end, so that a cached amount of one period meets
  the next.
- *`HardCap` 2 below `MaxUses` 3* makes the cap on rounds and the cap on searches
  differ; *`MaxFallbacks` 2* lets a fallback fail over again.
- *`LoopCap` 2 and tools with 3 uses and with 1*: the loop ends by the cap, by
  refused searches, by failed ones and by an answer; two search tools in one
  request, of which the last counts, and a tool of the client's.
- *`Minute` 2 and 4 ticks* let a window slide past its first requests twice;
  `MaxWait` 1 lets one request overtake another at the lock.
- *Batch 2, three events* of which one is always refused and one kills a loop:
  the batch is shared by an event that fails and one that does not.
- *One family, one major, two minors, one date*: all pairs of names of which one
  is a part of the other, also within a number: 2 begins both 20 and 2025. *Two
  profiles* are a right and a wrong candidate.
- *Two users, two addresses, two names*: a group that makes an administrator and
  one that does not, a change of name between them, two users who swap members.
  Deeper interleavings of groups start from provisioned users (mode *roles*).
- *Three price lists* of which one lacks a price, one has an unreadable line, one
  repeats a price.

Bounds in guards (`MaxRecords`, `MaxCopies`, `MaxVersion`, ...) are named in the
module that has them, with the comment "bound of the model". At a bound the
system may come to rest, so deadlock is not checked in the runs that say
`CHECK_DEADLOCK FALSE`. `Routing` has no such bounds, and its runs also show that
some step can always be taken.

### Fairness

- `SpendTracker`: weak fairness of the flush task as a whole. It is a tokio
  interval (`spend/mod.rs`, `start_flush_loop`) and every outcome of its
  database calls is one of its actions. Nothing is assumed of requests, and
  Postgres need not come back: `Drains` has that as its premise.
- `KeyCache`, `BetaCapabilities`: weak fairness of handlers that have begun,
  of each replica's poller (a tokio interval) and of start-up (the service
  scheduler restarts a stopped task).
- *healing* behaviours in addition: the TTL runs out, the health loop
  goes round, and strong fairness of conclusive probes. The last is an
  assumption about Bedrock, needed because an inconclusive probe leaves the pair
  as it was.
- `EndpointPool`: weak fairness of handlers that have begun, of the poller, of
  each load, of the health loop and of administrators' checks. That their calls
  return is an assumption. `Recovers` speaks of what is reached once changes and
  such checks end, which the bounds make them do.
- `Budget`: weak fairness of requests that have begun, and 30 seconds pass
  (`Expire`). Nothing is assumed of new requests or of spend: `SpendStops` speaks
  of users who stay over their limit, and of requests that are admitted.
- `Notifications`: weak fairness of each delivery loop, a tokio interval, without
  the outcomes that are failures.
- `Providers`: weak fairness of the poller's reload, of the hourly refresh once it
  was started, and of validations under way.
- The other modules have none: their properties are safety properties.

<a name="theorems"></a>
## Theorems

Every proof is complete. What is assumed is only what the modules' named
`ASSUME`s say of their constants; TLC evaluates them in the runs. Besides the
bounds they say that a marker is none of the values it is told apart from
(`Nothing \notin Nat`, `"default" \notin VirtualKeys`, `NoService`, `None` and
`Unpriced` are no rows), that there are finitely many requests at a time
(`Budget`), that the wait for a lock is shorter than a minute (`MaxWait` in
`RateLimiter`), that rows of the spend log and queries have the types that the
database gives them, users are finitely many and each has a period
(`Analytics`), that prices the migration fills in are of models (`Pricing`),
that the legacy profile is for one of the names or there is none (`Catalog`),
that tools and replies are sequences and `max_uses` is a number
(`Conversation`), and that the tables of `hardcoded_anthropic_to_bedrock()` and
its inverse keep the version, which all their arms do, while a date has eight
digits and a minor version at most three, and `strip_date_suffix()` tells them
apart by that (`Models`). `TypeCorrect` is proved for tracker, keys, betas and
pool; the types of the other components are a part of their invariants
(`BudgetInv`, `BillInv`, `RateType`, `TalkType`, `StartOK`, `DirectoryOK`,
`CatalogOK`, ...).

Spend and budgets (`SpendTrackerProofs`):

| theorem | says | argument |
|---|---|---|
| `TypeCorrect`, `MemoryBounded` | types, and `Bounded` for every capacity | `IInv` is `TypeOK` with `Bounded`: a re-buffer fits because `Available` is computed from the buffer as it is then, and the types need the bound to know that no length is negative |
| `EntriesInOrder` | `InOrder` | `QueueInv`: batch and buffer ascend, the batch is before the buffer, and behind each entry there is room, between it and the newest, for those that follow it |
| `DropsNeedLoad` | `DropsOnlyUnderLoad` | the room of `QueueInv` is what an eviction needs: a full buffer behind the oldest entry means that so many were recorded after it |
| `EntriesAccounted`, `OnceUnlessUnsure`, `NoneOvertakes` | `Accounted`, `DuplicatesExplained`, `ServedInOrder` | `FateInv`, on top of `QueueInv`: as entries in memory are distinct, each step moves an entry from one place to one other; and as the flush task's are the oldest, its head the oldest of all, what is written or given up leaves no older entry behind (`OldestFirst`) |
| `TrackerImplementsLedger` | `Spec => ImplementsLedger` | step simulation (`LedgerStep`): every outcome of an INSERT is a step of `SpendLedger` for each entry it decides about, the rest stutters |
| `FiresAreBounded` | `FiresOncePerRequest` for any finite number of requests | `FireInv`: what is in the table of an event, and the requests about to insert it, are together no more than there are requests. A request inserts only if it has counted none, so the first insertion uses up those that have counted |
| `BlocksAreTraced` | `NoSilentBlock` | `TraceInv`: a block that becomes the verdict leaves its trace before the next budget is looked at, or is at its `count` or `insert` now |

Keys, betas, pool, routing:

| theorem | says | argument |
|---|---|---|
| `KeyCacheProofs!TypeCorrect` | types; no replica has seen a version that does not exist | inductive as it stands |
| `KeyCacheProofs!SyncedBySeeing` | `SyncedWhenSeen` for any number of replicas, handlers, keys and changes, with failing calls, crashes and SCIM | `SyncInv`: what a poller holds or has written is what the table holds, as long as the version it saw is the newest, no bump is outstanding and its replica is not `behind` (`PollFresh`); likewise of a start (`BootFresh`). Without the second condition it is not inductive: a row changes before its bump |
| `KeyCacheProofs!RestartsForget` | `RestartForgets`, whatever fails | `DeadInv`: a key that had ended at the last start is in no cache, in no load that is under way and in no handler of that replica |
| `BetaCapabilitiesProofs!TypeCorrect` | types | inductive as it stands |
| `BetaCapabilitiesProofs!OverridesStand` | the action property `OverrideStands` | one case per action; only `Mark` with a delete and `Crash` end an override |
| `BetaCapabilitiesProofs!OnlyTruthIsLearned` | `LearnsTruth`, while Bedrock's answers stay the same | `TruthInv`: every conclusion that is under way is already true of Bedrock, in probes, in the pairs a rejection names, and in what a request will mark when it returns |
| `BetaCapabilitiesProofs!OverridesInForce` | `OverrideInForce` for any number of replicas, handlers and pairs, with failing calls and crashes; the conjuncts of `OverrideInForceEverywhere` are instances | `ForceInv`: a replica that has seen the newest version, with no bump outstanding, and is not `behind`, is idle with all overrides in force or holds the newest rows to apply |
| `EndpointPoolProofs!TypeCorrect` | types | inductive as it stands |
| `EndpointPoolProofs!PoolImplementsView` | `Spec => ImplementsView` | step simulation: `LoadSwap` is `Swap`, `LoadDefault` is `SetDefault`, `HealthCall` is `List`, marks are `Mark` or stutter. `LiveInv` is needed for it: a check that the swap has not cut off finds its client in the pool |
| `EndpointPoolProofs!PoolStaysCurrent` | `PoolCurrent` | `CurrentInv`: rows do not change under a handler's load, and one of the poller's that they did change under is followed by another; until a load has swapped, the clients need not be current, and until it has set the default, the default need not be |
| `RoutingProofs!TriesAllHealthy` | `TriesAll` for all endpoints, teams, users and numbers of requests | `RouteInv` follows the steady endpoints from the assignment to `cand`, to `tried` and `rest`; they cannot leave `rest` untried, since the pool only removes endpoints from `steady` |

Requests, notifications, rates, names (`MessagesProofs`):

| theorem | says | argument |
|---|---|---|
| `AllBilled` | `Billed` | `BillInv`: as long as nothing is recorded, the number of answered calls is the total of the search loop, or that of the unreadable answers with the one stream under way; which of them follows from phase and kind (`Sound`). Nothing of a usage is lost but while a stream is read, and what was told is not what was lost |
| `MarkedForAReason` | `MarkedMeansSent` for any number of loops | `MarkInv`: a loop at `mark` has sent the first event of its batch, one at `drop` has found no destination because its query failed (`Honest`) |
| `ActiveIsTested` | `ActiveWasTested` | `TestInv`: the draft is still the one that a test or an activation under way has read, or it was saved meanwhile and counts as `overtaken` |
| `LimitHolds`, `NoRoomWasted` | `RateHeld`, `RefusedWhenFull` for every limit and every wait below a minute | `RateInv`: whoever waits at the lock has read the clock a short while ago (`AskInv`), pushes are in the order of their turns (`OrderInv`), and one that did not wait stays in its window for its minute (`StayInv`), so that a window with room is a minute with room. Both properties are part of the invariant |
| `SearchesAreSound` | `SearchesSound` for all tools, replies, caps and outcomes of searches, streamed or not | `ConvInv`: what was heard is the content, or the content and the reply that is being answered (`AllKept`), a reply's searches and only they get results (`Searching`), and so do those of each message that the model sees again (`Exchanged`), so that only another use of a tool is without a result. What the answer is made of is data of any length: that rewriting keeps the blocks in order with each result behind its search (`WhatBecomes`), and that a stream starts and stops each of them before the next (`WhatPresents`), is proved by induction over sequences (`SequencesFromTheEnd`) from what `Flattened` does to one more piece (`FlattenedAppend`) |
| `VersionKept` | `SameModel` for all names, profiles and orders of discovery | `ModelsInv`: a name is mapped to a model in whose text its own occurs, without the date, and is in `guessed` if that is of another version; which is why a name with a date may fall back to the row of the one without. `StemsMatch`: a stem that `bedrock_stem_matches()` accepts is of the same version, unless it ends within a number of the name |

People (`AccountsProofs`):

| theorem | says | argument |
|---|---|---|
| `TokensKeep` | `TokensHold` | `KeyInv`: no start is about to store over a key with which a token was signed that still has to hold, because one that found no row is alone (`Shares`), or is `apart` |
| `LeaversAreOut` | `LeaversStayOut` | `LeaverInv`: a PATCH that nobody has overtaken has read the present `active`, so that writing all attributes back leaves a leaver out |
| `RolesAgree` | `RoleAgrees` | `RoleInv`: a user's role is what the groups make it, or a request owes the user an evaluation (`Owes`), or no code will evaluate (`shaken`). It needs that a request on a group knows whom it touched (`Orderly`), that members it does not know of are owed by another one (`Noticed`), and that what has been evaluated is right until the request is overtaken (`Fresh`) |

What administrators edit (`CatalogProofs`):

| theorem | says | argument |
|---|---|---|
| `CopiesAgree` | `ReplicasAgree` from both initial states, for any number of replicas and editors | `CatalogInv`: at each step of a start or reload the copies read since the version equal the tables, if that version is still the newest and no row waits for its bump (`Agrees`); an update that was not overtaken holds what the table holds (`Current`). An endpoint handler's load either puts in place what the table holds or leaves the copy `astray` |
| `PricesAreSound` | `PricesSound` for lists of any length and whatever rows the migration fills in | `PriceInv`: a row of no administrator's is the migration's or what a published list says, and what a refresh has yet to write is what such a list says. That `KnownAfter`, the parser's accumulator, agrees with a reading of the whole list (`Says`) is proved by induction over its lines, with the lemma `Induction` over sets of numbers |
| `SearchesStay` | `SearchGoesWhereChosen` | `WebSearchInv`: the stored mode and provider are those intended unless changes overlapped, an activated provider is the only one enabled, and a request that no change disturbed has resolved to them |
| `EditsStay` | `EditsAreKept` | `OrganisationInv`: the row that an update will write is the present one with the request's fields, if no other request is at that key; the default budget likewise field by field; a reader has read each field as it was asked for, or not at all if its query failed |
| `FiguresAddUp` | `FiguresAgree` for any log, staff, prices and queries | `AnalyticsInv`: what is on the page was said about the rows and prices as they are, unless something changed between its statements. A list that is cut has the uses of a part of the tools, which are no more. That a sum over groups is the sum over rows (`SumOfParts`), whatever the groups, is proved by induction over the subsets of a finite set, with the lemma `SubsetInduction` |

Only model-checked:

- liveness (`DrainsWithoutKeys`, `Converges`, `HealsItself`,
  `EnforcedEverywhere`, `Recovers`, `SpendStops`, `EventuallyDelivered`,
  `WithdrawnIsForgotten`), which the prover cannot treat under fairness;
- that the actions of a specification are enabled when they should be, which the
  runs see in their coverage and in the absence of deadlock.

`OverrideInForceEverywhere` is not listed with a theorem because it is defined in
an MC module, for two instances of the specification; `OverridesInForce` proves it
for all instances.

<a name="disagreements"></a>
## Disagreements

Between what the code does and what its comments, tests or documentation say, or
what a reader would expect of it. The first three are runs; the others were met
in the same models with other constants or with a property stated for the
purpose, or are the exceptions that a property had to make.

1. **`spend_foreign_key`** (`db/spend.rs:84`). A foreign key violation counts as
   transient. An entry whose key is deleted before its first flush takes the
   whole batch back into the buffer on every tick, for ever.
   `src/tests/integration/spend_tests.rs:270` expects new records to be flushed
   after a poisoned entry.
2. **`beta_evict`** (`lib.rs:37`). The replay only writes the rows it finds, and
   reloads keep the cache. `api/admin.rs:4413` says other replicas evict a
   deleted override within five seconds; they keep it until they restart.
3. **`routing_sticky`** (`endpoint/mod.rs:501`). Every load creates its clients
   unhealthy, and every bump of the version, a new virtual key for example,
   causes a load in all replicas. Until the next health tick no request finds a
   healthy endpoint and all go to the gateway's own client.
   `src/docs/endpoints.md:275` promises a user the same endpoint for up to 30
   minutes of inactivity.

Spend, keys, endpoints and betas:

4. Batch limit (`db/spend.rs:102`). 24 parameters a row and 65535 a statement
   allow 2730 rows, while `MAX_BUFFER_SIZE` is 10_000. A longer batch is never
   sent, the refusal is classified as transient, and the batch is put back, for
   ever: the exception in `DrainsWithoutKeys`.
5. Shed order (`spend/mod.rs:226`). The comment says that a re-buffer drops the
   oldest entries; `take(available)` keeps them and drops the batch's newest.
6. Failed reload (`main.rs:1068`, `1070`, `1101`). The version is stored as seen
   before the reload. If the reload's query fails, the replica keeps the old
   state until another change (the third reason in `SyncedWhenSeen`; for
   endpoints `PoolCurrent` would fail without its premise).
7. Order at start-up (`main.rs:133`, `179`). Keys are loaded before the version
   is read: a change between the two counts as seen and is not loaded (the fourth
   reason in `SyncedWhenSeen`).
   `BetaCapabilities` is not exposed to this, because overrides are replayed
   after the version was read.
8. Two loads (`auth/mod.rs:48`). A handler's load that read the rows before
   another handler's change, at its own or another replica, may be written after
   the load that this change causes, and the version tells nobody (the first
   reason in `SyncedWhenSeen`). The same holds of endpoints with two
   administrators at once (`api/admin.rs:2639`), and of AIP profiles, which an
   endpoint handler's load brings back as they were when it read them (an
   exception of `ReplicasAgree`).
9. A revoked key comes back (`auth/mod.rs:48`). A poller that read the rows
   before a revocation writes them after the handler answered: the key is
   accepted again until the next poll, although
   `src/docs/authentication.md:77` speaks of immediate effect in the replica
   that handled the request.
10. SCIM (`scim/users.rs:375`). Deactivating a user bumps no version, so the
    user's keys stay accepted. `src/docs/scim-spec.md:440` says that they are
    filtered out within a poll cycle (the fifth reason in `SyncedWhenSeen`).
11. Deleted override (`lib.rs:35`). Rows are listed before they are applied: an
    override that a handler deletes in between is put back, in its own replica,
   and stays like those of run `beta_evict`.
12. Overrides that do not arrive. A bump that fails is ignored
    (`api/admin.rs:4372`), so that other replicas are told by the next change
    only; if the query of a replay fails (`main.rs:334`, `1104`), the replica
    goes on without it although it has taken the version as seen. These are the
    reasons in `InForce`.
13. Default endpoint (`db/endpoints.rs:151`). Setting the default to an id that
    does not exist answers "not found", and commits the removal of the old
    default without a bump. `src/docs/endpoints.md` speaks of exactly one
    default. In `EndpointPool` this is `SetDefaultMissing`.
14. Assignment (`db/endpoints.rs:119`). `set_team_endpoints` deletes and inserts
    without a transaction, and a request meanwhile finds a team without
    endpoints, which is routed to the default. A failed read of the assignment
    has the same effect (`api/handlers.rs:661`, `unwrap_or_default`).
15. Schema (`db/schema.rs`). `virtual_keys.user_id`, `virtual_keys.team_id` and
    `users.team_id` have no ON DELETE, so that deleting a user or a team that is
    referred to fails; tokens and groups of a provider go with it, its users stay.

Requests and budgets:

16. A client that goes away before the end of a stream, an answer that is not
    JSON, and a search that fails in its second round or later leave tokens that
    Bedrock charges for unrecorded (the exceptions of `Billed`). Of a stream that
    breaks only what its events had carried is recorded, which leaves out the
    output: it comes with `message_delta`, near the end. A chunk that is not JSON
    is skipped, and the usage it carried with it (`api/handlers.rs:1712`).
17. `src/docs/web-search.md:143` speaks of a hard cap of 10 searches; the cap is
    one of rounds, and failed searches do not count against `max_uses`. A request
    that searches never fails over.
18. `handle_non_streaming` answers a failed retry with the first error. A
    fallback gets the primary endpoint's profile and filtered betas.
19. `evaluate` (`budget/mod.rs:214`): the comment says "most restrictive", the
    code takes the last rule that is triggered. What an administrator may save is
    ordered by percentage with a block last, but a rule that only notifies may
    follow one that shapes, and then ends the shaping.
20. Events are counted and inserted in two statements without a unique index
    (`db/budget.rs:69`): `FiresOncePerRequest` states what is left of "once".
21. A query that fails counts as no spend and is cached for 30 seconds; the
    amount of one period may be used in the next; `budget_cache.cleanup` is never
    called. `SpendStops` shows that a limit holds in the end nevertheless.
22. `x-ccag-budget-resets` is documented as the start of the current period; the
    code sends that of the next. `src/docs/budgets.md` and `api/handlers.rs:2404`
    name different hierarchies of user, team and default.
23. Rate limit (`ratelimit/mod.rs:52`): a limit of 0 takes the time to wait from an
    empty window, which panics. Limits hold per replica; a negative limit
    becomes a very large one. The comment's minute holds except for requests
    that were overtaken at the lock (`Late` in `RateHeld`).
24. Notifications (`budget/notifications.rs:243`): if the query of the
    configuration fails and the environment names no destination, all undelivered
    events are marked. A subject that is cut within a character ends the loop,
    which nobody restarts (line 117). Two replicas send the same event twice. The
    result of a test is recorded for whatever is in the slot by then, and an
    activation promotes it (`overtaken` in `ActiveWasTested`).

People:

25. Roles are evaluated in one statement and written in another
    (`db/scim_groups.rs:254`). A PATCH that fails midway has changed members
    without evaluating anybody. Renaming a group to or from a name that makes
    administrators, changing those names, and changing a default role evaluate
    nobody. A group of another provider decides over a user's role as well.
26. A PUT without `active` makes a user active; a PATCH writes every attribute
    as it read the row (`scim/users.rs:339`), so that it undoes a deactivation in
    between. `ScimAuth` looks at neither `scim_enabled` nor `enabled`.
27. `users.external_id` is unique over all providers, but looked for per
    provider.
28. The signing key is stored with ON CONFLICT DO UPDATE: of two replicas that
    start on an empty database at once, one keeps a key that is not stored
    (`main.rs:167`: "so all instances share it"). A failed read has the same
    effect.
29. A CLI session is read and deleted in two statements, and two polls may both
    get the token; if the validation fails, the raw token is stored. Setup tokens
    live in one replica's memory.
30. Keys of a provider are kept when its URL changes, until the hourly refresh,
    which only runs if a provider was there at start-up. A failed query of the
    providers leaves none.

What administrators edit and see:

31. `update_setting` changes the row, the version and its own flag one after the
    other; two that overlap leave the replica's flag at the older value.
32. A migration of the legacy profile inserts a row without a bump; when that row
    is deleted, the legacy profile is used for every model and the next start
    inserts it again. A failed read of the overrides counts as none; a failed bump
    after a change of them is ignored.
33. `select_profile_id`, third pass: a name may be given to any profile in whose
    text it occurs, one without a minor version to any minor version, 4-1 to
    4-10, and the row stays (`guessed` in `SameModel`). `bedrock_stem_matches`
    rules out that a hyphen and one to three digits follow the stem, so that a
    stem that ends within a number matches: 4-2 in 4-20, or in 4-20250514
    (`EndsWithin`). When the cache is locked for writing, only the built-in
    names are known. `is_covered` compares by prefix: a short name covers every
    profile that begins like it.
34. Prices: rows that migration 010 fills in are from no price list and stay until
    a list names the model; a row an administrator has deleted comes back with the
    next refresh;
    of two refreshes that overlap, the older list may be written last.
    `estimate_cost_usd` knows the prefixes au, us and eu only.
35. Web search: activating a provider that is not configured disables all others,
    commits, and answers 404. SearXNG without a URL is saved and then not used.
    Saving a provider as enabled leaves others enabled. Mode and global provider
    are two writes.
36. `update_key` reads, fills in and writes: of two that overlap, one is lost in
    part. The default budget is written field by field, concurrently, and read
    field by field. A failed query in `load_default_budget`
    (`api/handlers.rs:2355`) counts as no default budget, or as no policy beside
    its amount. A failed query of the owner gives a key without a team.
37. Analytics: `src/docs/configuration.md:282` says `from` and `to` override
    `days`; organisation-wide pages ignore `to`. The prior period has no filters.
    The alert about rows without a price looks at seven days and everybody,
    whatever was asked for. A page is not one snapshot. Lists of tools end after 30
    (`db/org_analytics.rs:1163`), so that they add up to less than the totals
    beside them. A member's spend is that of the member's own budget period
    (`db/budget.rs:230`), so that a team's members need not add up to the team.
    On a user's own page a failed statement shows zeros beside good figures, and
    the granularity follows `days` when `from` and `to` are given.
38. The web search loop answers the searches of a reply and no other tool use in
    it, so that the next round is refused if a tool of the client's was used
    beside a search (`Mixed` in `SearchesSound`); the client gets the 400, and
    what earlier rounds cost is not recorded (`Billed`). Of two search tools in a
    request, uses of the first are given to the client. A loop that is cut short
    answers `stop_reason` `tool_use` with nothing for the client to do. The
    synthesized events give a text in the start of its block and again in a
    delta: a client that adds deltas to what a block starts with has it twice.

<a name="not-modelled"></a>
## What is not modelled

- Left out of the modelled components: text (sanitizing, hashing, names of
  people, redirect URLs, filters of SCIM beyond what they select, payloads of
  notifications), look-ups that only decorate an entry, credentials and regions
  of endpoints, the legacy profile that the creation of an endpoint may bring
  along, two administrators at once on endpoints, more than one health loop per
  replica, latencies, lists of recent rows, projects and sessions and the tools of
  a user's own page in analytics.
- A bucket's limit stays what it is in `RateLimiter`; a change of a key's limit is
  not modelled. A budget's period in `Analytics` is a number of days, which stands
  for the months too.
- Creating a user through SCIM reads the default role in one statement and inserts
  in the next; they are one step in `Directory`, so that a change of the provider
  between them is left out.
- The choice which profiles the health loop probes is free in `BetaCapabilities`.
- Of start-up: reading the configuration, binding the socket, seeding from the
  environment. There is no orderly shutdown to model (`main.rs`, `axum::serve`).
- Translation of requests and of stream events between the formats
  (`translate/request.rs`, `translate/response.rs`, `translate/streaming.rs`): a
  mapping without state that outlives a request; that a stream ends, breaks or is
  left is in `Messages`.
- `detection/`: pattern matching on texts, without state. Statistics, the quota
  cache and telemetry: counters and a cache that only the portal reads. The
  portal, the CLI and the infrastructure: clients of the gateway.

<a name="plan"></a>
## Plan

Done: the write-behind log, the caches that the version counter serves, the path
of a request from its credential to its record, budgets and their notifications,
people and their tokens, and what administrators edit and see.

Next, in this order:

1. `Messages` on top of the abstract views of pool, budget and rate limiter at
   once, with entries that go to `SpendLedger`.
2. Two administrators at once in `EndpointPool`, with the AIP rows in its own loads
   in place of those that `Catalog` has for endpoint handlers.
