-------------------------- MODULE BetaCapabilities --------------------------
(***************************************************************************)
(* What a replica believes about the betas that a Bedrock endpoint         *)
(* supports (src/src/endpoint/mod.rs, translate/betas.rs), for one         *)
(* endpoint that stays in the pool.  A pair is a profile and a beta name.  *)
(*                                                                         *)
(* The cache of a replica is written by the health loop's seed probes, by  *)
(* requests that Bedrock accepts or rejects, and by administrators, whose  *)
(* overrides are rows in Postgres: a handler writes the row, then the      *)
(* cache of its own replica, then bumps cache_version; the pollers of the  *)
(* replicas and every start-up replay the rows (lib.rs, main.rs).          *)
(***************************************************************************)
EXTENDS Naturals, FiniteSets

CONSTANTS
    Replicas,
    Handlers,     \* override requests that may be under way at once
    Pairs,
    Learners,     \* bound of the model: replicas with probes and requests
    MaxVersion,   \* bound of the model: version bumps
    MaxShifts,    \* bound of the model: changes of Bedrock's answer
    MaxMishaps    \* bound of the model: failing database calls, crashes

ASSUME BetaAssumption ==
    /\ Learners \subseteq Replicas
    /\ {MaxVersion, MaxShifts, MaxMishaps} \subseteq Nat

VARIABLES
    row,      \* beta_overrides: "yes", "no", or "none" where there is no row
    version,  \* cache_version.version
    bedrock,  \* whether Bedrock accepts the pair at present
    up,       \* replicas that serve requests
    cache,    \* EndpointClient.beta_capabilities
    seen,     \* GatewayState.cache_version
    poll,     \* the poller, or the start-up
    task,     \* the override handlers, in whatever replica
    probe,    \* the seed probes of the health loop
    req,      \* a request
    shifts, mishaps,  \* what the bounds count
    behind    \* history: replicas that may be out of date, see InForce

vars == <<row, version, bedrock, up, cache, seen, poll, task, probe, req,
          shifts, mishaps, behind>>

rest == <<shifts, mishaps, behind>>

Word(b) == IF b THEN "yes" ELSE "no"

\* An entry: who wrote it, what it says, and whether its TTL still runs.
Entry == [by : {"nobody", "learning", "admin"}, says : {"none", "yes", "no"},
          fresh : BOOLEAN]
Nothing == [by |-> "nobody", says |-> "none", fresh |-> FALSE]
Learned(w) == [by |-> "learning", says |-> w, fresh |-> TRUE]
Override(w) == [by |-> "admin", says |-> w, fresh |-> TRUE]

Rows == [Pairs -> {"none", "yes", "no"}]
NoRows == [p \in Pairs |-> "none"]

Poll == [pc : {"idle", "list", "apply"}, snap : Rows]
Probe == [todo : SUBSET Pairs, yes : SUBSET Pairs, no : SUBSET Pairs]
Req == [pc : {"idle", "send", "reject", "resend", "learn"},
        kept : SUBSET Pairs, unknown : SUBSET Pairs, named : SUBSET Pairs]

Quiet == [pc |-> "idle", snap |-> NoRows]
NoTask == [pc |-> "idle"]
Task == {NoTask} \cup
        [pc : {"mark", "bump"}, at : Replicas, pair : Pairs, says : {"none", "yes", "no"}]
NoProbe == [todo |-> {}, yes |-> {}, no |-> {}]
NoReq == [pc |-> "idle", kept |-> {}, unknown |-> {}, named |-> {}]

Init ==
    /\ row = NoRows
    /\ version = 0
    /\ bedrock \in [Pairs -> BOOLEAN]
    /\ up = Replicas
    /\ cache = [r \in Replicas |-> [p \in Pairs |-> Nothing]]
    /\ seen = [r \in Replicas |-> 0]
    /\ poll = [r \in Replicas |-> Quiet]
    /\ task = [h \in Handlers |-> NoTask]
    /\ probe = [r \in Replicas |-> NoProbe]
    /\ req = [r \in Replicas |-> NoReq]
    /\ shifts = 0 /\ mishaps = 0
    /\ behind = {}

-----------------------------------------------------------------------------
(* EndpointClient: queries and writes of one replica's cache *)

\* Operators named ...Faulty are variants of the definition that follows, with
\* a mistake that code could well contain; no specification uses them.

\* Faulty: the TTL is not looked at.
SupportedFaulty(r, p) == cache[r][p].says

\* is_beta_supported(): "none" when nothing is known or the TTL has run out.
\* Overrides do not expire.
Supported(r, p) == IF cache[r][p].fresh THEN cache[r][p].says ELSE "none"

\* Faulty: the check for an existing override is missing.
LearnFaulty(r, S, w) ==
    cache' = [cache EXCEPT ![r] =
                 [p \in Pairs |-> IF p \in S THEN Learned(w) ELSE @[p]]]

\* mark_supported(), mark_unsupported() by a probe or a request: never over an
\* override.  Marks of different pairs commute, so a loop over pairs is a step.
Learn(r, S, w) ==
    cache' = [cache EXCEPT ![r] =
                 [p \in Pairs |-> IF p \in S /\ @[p].by # "admin"
                                  THEN Learned(w) ELSE @[p]]]

\* The TTL of 24 hours runs out.
Expire(r, p) ==
    /\ cache[r][p].by = "learning"
    /\ cache[r][p].fresh
    /\ cache' = [cache EXCEPT ![r][p] = [@ EXCEPT !.fresh = FALSE]]
    /\ UNCHANGED <<row, version, bedrock, up, seen, poll, task, probe, req, rest>>

-----------------------------------------------------------------------------
(* upsert_beta_override and delete_beta_override: any number at once *)

\* Handlers that have changed a row and have yet to bump the version.
Unbumped == {h \in Handlers : task[h].pc # "idle"}
MayChange == version + Cardinality(Unbumped) < MaxVersion

\* The row is written; deleting needs a row to delete.
Write(h, r, p, w) ==
    /\ r \in up
    /\ task[h] = NoTask
    /\ MayChange
    /\ w = "none" => row[p] # "none"
    /\ row' = [row EXCEPT ![p] = w]
    /\ task' = [task EXCEPT ![h] = [pc |-> "mark", at |-> r, pair |-> p, says |-> w]]
    /\ UNCHANGED <<version, bedrock, up, cache, seen, poll, probe, req, rest>>

\* mark_..(AdminOverride), or forget_capability(), in the handler's replica.
Mark(h) ==
    /\ task[h].pc = "mark"
    /\ cache' = [cache EXCEPT ![task[h].at][task[h].pair] =
                    IF task[h].says = "none" THEN Nothing ELSE Override(task[h].says)]
    /\ task' = [task EXCEPT ![h].pc = "bump"]
    /\ UNCHANGED <<row, version, bedrock, up, seen, poll, probe, req, rest>>

\* Faulty: the other replicas are not told.
BumpFaulty(h) ==
    /\ task[h].pc = "bump"
    /\ task' = [task EXCEPT ![h] = NoTask]
    /\ UNCHANGED <<row, version, bedrock, up, cache, seen, poll, probe, req, rest>>

Bump(h) ==
    /\ task[h].pc = "bump"
    /\ version' = version + 1
    /\ task' = [task EXCEPT ![h] = NoTask]
    /\ UNCHANGED <<row, bedrock, up, cache, seen, poll, probe, req, rest>>

\* "let _ = bump_cache_version(..)": the answer is a success all the same, and
\* no replica is told.
BumpFault(h) ==
    /\ task[h].pc = "bump"
    /\ mishaps < MaxMishaps
    /\ mishaps' = mishaps + 1
    /\ task' = [task EXCEPT ![h] = NoTask]
    /\ behind' = Replicas
    /\ UNCHANGED <<row, version, bedrock, up, cache, seen, poll, probe, req, shifts>>

-----------------------------------------------------------------------------
(* Poller and start-up: apply_overrides_to_pool *)

PollVersion(r) ==
    /\ r \in up
    /\ poll[r].pc = "idle"
    /\ version > seen[r]
    /\ seen' = [seen EXCEPT ![r] = version]
    /\ poll' = [poll EXCEPT ![r] = [@ EXCEPT !.pc = "list"]]
    /\ UNCHANGED <<row, version, bedrock, up, cache, task, probe, req, rest>>

ListRows(r) ==
    /\ poll[r].pc = "list"
    /\ poll' = [poll EXCEPT ![r] = [pc |-> "apply", snap |-> row]]
    /\ UNCHANGED <<row, version, bedrock, up, cache, seen, task, probe, req, rest>>

\* Faulty: what is known already is kept.
ReplayedFaulty(r) ==
    [p \in Pairs |-> IF poll[r].snap[p] = "none" \/ cache[r][p].by # "nobody"
                     THEN cache[r][p] ELSE Override(poll[r].snap[p])]

\* Every row becomes an override; an entry without a row stays as it is.
Replayed(r) ==
    [p \in Pairs |-> IF poll[r].snap[p] = "none"
                     THEN cache[r][p] ELSE Override(poll[r].snap[p])]

\* After a start-up's replay the replica serves requests.  One that has
\* replayed the newest rows has caught up.
Apply(r) ==
    /\ poll[r].pc = "apply"
    /\ behind' = IF poll[r].snap = row THEN behind \ {r} ELSE behind
    /\ cache' = [cache EXCEPT ![r] = Replayed(r)]
    /\ poll' = [poll EXCEPT ![r] = Quiet]
    /\ up' = up \cup {r}
    /\ UNCHANGED <<row, version, bedrock, seen, task, probe, req, shifts, mishaps>>

\* The rows cannot be read: logged, by the poller and by a start-up alike.
ListFault(r) ==
    /\ poll[r].pc = "list"
    /\ mishaps < MaxMishaps
    /\ mishaps' = mishaps + 1
    /\ poll' = [poll EXCEPT ![r] = Quiet]
    /\ up' = up \cup {r}
    /\ behind' = behind \cup {r}
    /\ UNCHANGED <<row, version, bedrock, cache, seen, task, probe, req, shifts>>

\* The handlers that die with replica r after they have changed a row.
Dying(r) == {h \in Unbumped : task[h].at = r}

\* The process ends, and with it what its handlers had still to do.
Crash(r) ==
    /\ r \in up
    /\ mishaps < MaxMishaps
    /\ mishaps' = mishaps + 1
    /\ up' = up \ {r}
    /\ cache' = [cache EXCEPT ![r] = [p \in Pairs |-> Nothing]]
    /\ seen' = [seen EXCEPT ![r] = 0]
    /\ poll' = [poll EXCEPT ![r] = Quiet]
    /\ task' = [h \in Handlers |-> IF h \in Dying(r) THEN NoTask ELSE task[h]]
    /\ behind' = IF Dying(r) = {} THEN behind ELSE Replicas
    /\ probe' = [probe EXCEPT ![r] = NoProbe]
    /\ req' = [req EXCEPT ![r] = NoReq]
    /\ UNCHANGED <<row, version, bedrock, shifts>>

\* Start-up reads the version before the rows.
Boot(r) ==
    /\ r \notin up
    /\ poll[r].pc = "idle"
    /\ seen' = [seen EXCEPT ![r] = version]
    /\ poll' = [poll EXCEPT ![r] = [@ EXCEPT !.pc = "list"]]
    /\ UNCHANGED <<row, version, bedrock, up, cache, task, probe, req, rest>>

-----------------------------------------------------------------------------
(* Health loop: seed probes, one after the other *)

\* expired_seed_pairs()
ProbeStart(r) ==
    /\ r \in up \cap Learners
    /\ probe[r] = NoProbe
    /\ \E p \in Pairs : Supported(r, p) = "none"
    /\ probe' = [probe EXCEPT ![r] =
                    [NoProbe EXCEPT !.todo = {p \in Pairs : Supported(r, p) = "none"}]]
    /\ UNCHANGED <<row, version, bedrock, up, cache, seen, poll, task, req, rest>>

Answered(r) == probe[r].yes \cup probe[r].no

\* Bedrock accepts the pair, or rejects it by name; or the probe is
\* inconclusive, or is left out (should_probe_profile()).
ProbeCall(r, p) ==
    /\ p \in probe[r].todo
    /\ Answered(r) = {}
    /\ \E conclusive \in BOOLEAN :
          probe' = [probe EXCEPT ![r] =
                       [todo |-> @.todo \ {p},
                        yes |-> IF conclusive /\ bedrock[p] THEN {p} ELSE {},
                        no |-> IF conclusive /\ ~bedrock[p] THEN {p} ELSE {}]]
    /\ UNCHANGED <<row, version, bedrock, up, cache, seen, poll, task, req, rest>>

\* apply_probe_outcome()
ProbeApply(r) ==
    /\ Answered(r) # {}
    /\ Learn(r, Answered(r), Word(probe[r].yes # {}))
    /\ probe' = [probe EXCEPT ![r] = [NoProbe EXCEPT !.todo = probe[r].todo]]
    /\ UNCHANGED <<row, version, bedrock, up, seen, poll, task, req, rest>>

-----------------------------------------------------------------------------
(* A request with betas; its retry *)

\* filter_betas_by_cache()
Filter(r, betas) ==
    /\ r \in up \cap Learners
    /\ req[r].pc = "idle"
    /\ req' = [req EXCEPT ![r] =
                  [pc |-> "send",
                   kept |-> {p \in betas : Supported(r, p) # "no"},
                   unknown |-> {p \in betas : Supported(r, p) = "none"},
                   named |-> {}]]
    /\ UNCHANGED <<row, version, bedrock, up, cache, seen, poll, task, probe, rest>>

Accepted(S) == \A p \in S : bedrock[p]

\* Bedrock accepts the betas, or its error names some that it rejects, or the
\* request fails for another reason; without betas nothing is left to learn.
Send(r) ==
    /\ req[r].pc = "send"
    /\ \/ /\ Accepted(req[r].kept)
          /\ req' = [req EXCEPT ![r] = [@ EXCEPT !.pc = "learn"]]
       \/ \E named \in (SUBSET {p \in req[r].kept : ~bedrock[p]}) \ {{}} :
             req' = [req EXCEPT ![r] = [@ EXCEPT !.pc = "reject", !.named = named]]
       \/ req' = [req EXCEPT ![r] = NoReq]
    /\ UNCHANGED <<row, version, bedrock, up, cache, seen, poll, task, probe, rest>>

Reject(r) ==
    /\ req[r].pc = "reject"
    /\ Learn(r, req[r].named, "no")
    /\ req' = [req EXCEPT ![r] = [@ EXCEPT !.pc = "resend"]]
    /\ UNCHANGED <<row, version, bedrock, up, seen, poll, task, probe, rest>>

\* The retry leaves the named betas out; there is no second retry.
Resend(r) ==
    /\ req[r].pc = "resend"
    /\ \/ /\ Accepted(req[r].kept \ req[r].named)
          /\ req' = [req EXCEPT ![r] = [@ EXCEPT !.pc = "learn"]]
       \/ req' = [req EXCEPT ![r] = NoReq]
    /\ UNCHANGED <<row, version, bedrock, up, cache, seen, poll, task, probe, rest>>

\* Faulty: the betas that the first answer named count as accepted too.
LessonFaulty(r) == req[r].unknown

\* What a success teaches.
Lesson(r) == req[r].unknown \ req[r].named

LearnSuccess(r) ==
    /\ req[r].pc = "learn"
    /\ Learn(r, Lesson(r), "yes")
    /\ req' = [req EXCEPT ![r] = NoReq]
    /\ UNCHANGED <<row, version, bedrock, up, seen, poll, task, probe, rest>>

\* Bedrock changes what it accepts.
Shift(p) ==
    /\ shifts < MaxShifts
    /\ shifts' = shifts + 1
    /\ bedrock' = [bedrock EXCEPT ![p] = ~@]
    /\ UNCHANGED <<row, version, up, cache, seen, poll, task, probe, req, mishaps,
                   behind>>

-----------------------------------------------------------------------------

TaskStep(h) == Mark(h) \/ Bump(h)
PollStep(r) == PollVersion(r) \/ ListRows(r) \/ Apply(r)
ProbeStep(r) == ProbeStart(r) \/ (\E p \in Pairs : ProbeCall(r, p)) \/ ProbeApply(r)
ReqStep(r) == Send(r) \/ Reject(r) \/ Resend(r) \/ LearnSuccess(r)

Next ==
    \/ \E r \in Replicas :
          \/ PollStep(r)
          \/ ListFault(r)
          \/ Crash(r)
          \/ Boot(r)
          \/ ProbeStep(r)
          \/ \E betas \in (SUBSET Pairs) \ {{}} : Filter(r, betas)
          \/ ReqStep(r)
          \/ \E p \in Pairs : Expire(r, p)
    \/ \E h \in Handlers :
          \/ \E r \in Replicas, p \in Pairs, w \in {"none", "yes", "no"} :
                Write(h, r, p, w)
          \/ TaskStep(h)
          \/ BumpFault(h)
    \/ \E p \in Pairs : Shift(p)

Spec == Init /\ [][Next]_vars

\* Handlers run on, the poll loop is a tokio interval, a stopped replica is
\* started again.  Nothing is assumed of requests and probes.
Fairness ==
    /\ \A h \in Handlers : WF_vars(TaskStep(h))
    /\ \A r \in Replicas : WF_vars(PollStep(r)) /\ WF_vars(Boot(r))

FairSpec == Spec /\ Fairness

\* The health loop asks again and again, and now and then gets an answer.
Conclusive(r, p) == ProbeCall(r, p) /\ Answered(r)' # {}

-----------------------------------------------------------------------------
(* Properties *)

TypeOK ==
    /\ row \in Rows
    /\ version \in Nat
    /\ bedrock \in [Pairs -> BOOLEAN]
    /\ up \subseteq Replicas
    /\ cache \in [Replicas -> [Pairs -> Entry]]
    /\ seen \in [Replicas -> 0..version]
    /\ poll \in [Replicas -> Poll]
    /\ task \in [Handlers -> Task]
    /\ probe \in [Replicas -> Probe]
    /\ req \in [Replicas -> Req]
    /\ {shifts, mishaps} \subseteq Nat
    /\ behind \subseteq Replicas

\* endpoint/mod.rs:121: "Admin overrides stay until explicitly cleared via
\* forget_capability": whatever probes and requests had in flight, an override
\* ends only by a delete of that pair in that replica, or with the process.
Cleared(r, p) ==
    \E h \in Handlers :
        /\ task[h] = [pc |-> "mark", at |-> r, pair |-> p, says |-> "none"]
        /\ task'[h].pc = "bump"

OverrideStands ==
    [][\A r \in Replicas, p \in Pairs :
          cache[r][p].by = "admin" =>
              \/ cache'[r][p].by = "admin"
              \/ Cleared(r, p)
              \/ r \notin up']_vars

\* Replica r answers with the administrator's word for every pair that has a
\* row; or it is behind, until it next replays the newest rows, because
\*   - a bump failed (api/admin.rs:4372 ignores that) or was lost with its
\*     replica, and nothing tells any replica of the change, or
\*   - the rows could not be read by its poller (main.rs:1104) or at its start
\*     (main.rs:333), and neither tries again.
InForce(r) ==
    r \in behind \/ \A p \in Pairs : row[p] # "none" => Supported(r, p) = row[p]

\* The administrator's word is in force in every replica at rest that has seen
\* the newest version, whatever learners, replays and other handlers do.
AtRest(r) == r \in up /\ poll[r].pc = "idle"

OverrideInForce ==
    \A r \in Replicas :
        AtRest(r) /\ Unbumped = {} /\ seen[r] = version => InForce(r)

\* As long as Bedrock does not change its mind, nothing false is ever learned
\* from probes, rejections, successes and successful retries.
LearnsTruth ==
    \A r \in Replicas, p \in Pairs :
        cache[r][p].by = "learning" => cache[r][p].says = Word(bedrock[p])

\* docs/configuration.md, "Self-healing": when Bedrock changes its mind, what
\* was learned before, or from answers still under way, does not stay.
SelfHealing ==
    <>[](\A r \in Replicas, p \in Pairs :
            cache[r][p].by = "learning" => Supported(r, p) \in {"none", Word(bedrock[p])})

\* docs/configuration.md:128: "sets a permanent capability override that
\* ignores TTL and survives restarts".  Where nothing is lost on the way it
\* comes into force in every replica and stays.
Enforced == <>[](\A r \in Replicas : r \in up /\ InForce(r))

\* api/admin.rs:4413: "so other gateway replicas evict the override within 5s".
Evicted ==
    <>[](\A r \in Replicas, p \in Pairs :
            row[p] = "none" => cache[r][p].by # "admin")
=============================================================================
