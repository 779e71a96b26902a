---------------------------- MODULE BudgetPolicy ----------------------------
(***************************************************************************)
(* Budget policies and how they are evaluated (src/src/budget/mod.rs), and *)
(* which limit, period and policy apply to a user (api/handlers.rs,        *)
(* api/admin.rs).  Constant operators only; Budget uses them in its steps. *)
(*                                                                         *)
(* Amounts are integers: the code's comparison of percentages              *)
(* spend / limit * 100 >= at is spend * 100 >= at * limit.                 *)
(***************************************************************************)
EXTENDS Integers, Sequences

CONSTANTS
    None,        \* an absent value (SQL NULL, Rust None)
    MonthFirst   \* the days, counted from a Monday 0, that begin a month

ASSUME PolicyAssumption == MonthFirst \subseteq Nat /\ 0 \in MonthFirst

-----------------------------------------------------------------------------
(* Policies *)

PolicyAction == {"notify", "shape", "block"}

PolicyRule == [at : Nat, action : PolicyAction, rpm : Nat \cup {None}]

Rule(at, action, rpm) == [at |-> at, action |-> action, rpm |-> rpm]

PresetStandard == <<Rule(80, "notify", None), Rule(100, "block", None)>>

PresetSoft == <<Rule(80, "notify", None), Rule(100, "notify", None),
                Rule(150, "block", None)>>

PresetShaped == <<Rule(80, "notify", None), Rule(100, "shape", 5),
                  Rule(150, "block", None)>>

\* validate_policy()
ValidPolicy(rules) ==
    /\ Len(rules) \in 1..5
    /\ \A i \in DOMAIN rules :
         /\ rules[i].at > 0
         /\ rules[i].action = "shape" => rules[i].rpm # None
         /\ \A j \in 1..(i - 1) :
              rules[j].at <= rules[i].at /\ rules[j].action # "block"

Presets == [standard |-> PresetStandard, soft |-> PresetSoft,
            shaped |-> PresetShaped]

\* resolve_policy_json(): what an administrator may send is the name of a
\* preset, an array of rules, or anything else, which counts as absent.
\* The answer to a bad one is 400.
Admissible(given) ==
    CASE given.form = "name"  -> given.name \in DOMAIN Presets
      [] given.form = "array" -> ValidPolicy(given.rules)
      [] OTHER                -> TRUE

Resolved(given) ==
    CASE given.form = "name"  -> Presets[given.name]
      [] given.form = "array" -> given.rules
      [] OTHER                -> None

-----------------------------------------------------------------------------
(* Decisions *)

Allow == [kind |-> "allow", at |-> 0, rpm |-> None]

\* shaped_rpm.unwrap_or(5)
Decided(rule) ==
    [kind |-> rule.action,
     at   |-> rule.at,
     rpm  |-> IF rule.action # "shape" THEN None
              ELSE IF rule.rpm = None THEN 5 ELSE rule.rpm]

Triggered(rules, spend, limit) ==
    {i \in DOMAIN rules : spend * 100 >= rules[i].at * limit}

Latest(S) == CHOOSE i \in S : \A j \in S : j <= i

\* evaluate(): every rule that is reached overwrites the decision.
Evaluate(rules, spend, limit) ==
    IF limit <= 0 \/ Triggered(rules, spend, limit) = {}
    THEN Allow
    ELSE Decided(rules[Latest(Triggered(rules, spend, limit))])

Severity(d) == CASE d.kind = "allow"  -> 0 [] d.kind = "notify" -> 1
                 [] d.kind = "shape"  -> 2 [] d.kind = "block"  -> 3

\* Faulty: what is decided last stands.
MostRestrictiveFaulty(a, b) == b

MostRestrictive(a, b) == IF Severity(b) > Severity(a) THEN b ELSE a

-----------------------------------------------------------------------------
(* Periods *)

BudgetPeriod == {"daily", "weekly", "monthly"}

\* BudgetPeriod::period_start() on a day
PeriodStart(period, day) ==
    CASE period = "daily"   -> day
      [] period = "weekly"  -> day - (day % 7)
      [] period = "monthly" -> Latest({d \in MonthFirst : d <= day})

\* BudgetPeriod::period_next_start()
PeriodNextStart(period, day) ==
    CASE period = "daily"   -> day + 1
      [] period = "weekly"  -> day + (7 - (day % 7))
      [] period = "monthly" -> CHOOSE d \in MonthFirst :
                                 d > day /\ \A e \in MonthFirst :
                                              e > day => d <= e

-----------------------------------------------------------------------------
(* Which budget applies.  A user row is [limit, period], a team row        *)
(* [limit, period, policy, perUser], the gateway's default                 *)
(* [limit, period, policy]; team and default may be None.                  *)

Budget(limit, period, policy) ==
    [limit |-> limit, period |-> period, policy |-> policy]

PolicyOr(policy, otherwise) == IF policy = None THEN otherwise ELSE policy

\* load_default_budget() is asked only if the user has neither a limit of
\* his own nor a team.
DefaultFor(user, team, default) ==
    IF user.limit = None /\ team = None THEN default ELSE None

\* check_budget(): the user's own limit, else what his team grants each
\* member, else, without a team, the gateway's default.
UserBudget(user, team, default) ==
    LET d == DefaultFor(user, team, default)
        policy == PolicyOr(IF team # None /\ team.policy # None THEN team.policy
                           ELSE IF d # None THEN d.policy ELSE None,
                           PresetStandard)
    IN  CASE user.limit # None -> Budget(user.limit, user.period, policy)
          [] user.limit = None /\ team # None ->
                 Budget(team.perUser, team.period, policy)
          [] user.limit = None /\ team = None /\ d # None ->
                 Budget(d.limit, d.period, policy)
          [] OTHER -> Budget(None, user.period, policy)

\* the second half of check_budget(), and check_team_budget_only()
TeamBudget(team) ==
    IF team = None \/ team.limit = None THEN None
    ELSE Budget(team.limit, team.period, PolicyOr(team.policy, PresetStandard))

\* get_budget_status(): what a user is told to be his limit.
DisplayedBudget(user, team, default) ==
    LET perUser == IF team = None THEN None ELSE team.perUser
        d == IF user.limit = None /\ perUser = None THEN default ELSE None
        policy == PolicyOr(IF team # None /\ team.policy # None THEN team.policy
                           ELSE IF d # None THEN d.policy ELSE None,
                           PresetStandard)
    IN  CASE user.limit # None -> Budget(user.limit, user.period, policy)
          [] user.limit = None /\ perUser # None ->
                 Budget(perUser, team.period, policy)
          [] user.limit = None /\ perUser = None /\ d # None ->
                 Budget(d.limit, d.period, policy)
          [] OTHER -> Budget(None, user.period, policy)

\* The budget that the answer and its headers speak of: the team's if it
\* blocks and the user's does not, else the user's, else the team's.
\* check_budget() from team_binding on; None: no headers.
Named(userBudget, teamBudget, userDecision, teamDecision) ==
    IF teamDecision.kind = "block" /\ userDecision.kind # "block" THEN teamBudget
    ELSE IF userBudget.limit # None THEN userBudget
    ELSE teamBudget

=============================================================================
