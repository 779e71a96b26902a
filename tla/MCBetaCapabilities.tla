------------------------- MODULE MCBetaCapabilities -------------------------
(* Three kinds of behaviours for TLC, each with state of its own that the    *)
(* others leave alone.  "learning": two pairs in one replica, with overrides *)
(* of the first one, while Bedrock does not change its mind.  "sharing": two *)
(* replicas, one of which learns, two handlers in any of them at once, and a *)
(* crash or a call that fails.  "healing": one replica that crashes once,    *)
(* while Bedrock changes its mind twice.                                     *)
EXTENDS BetaCapabilities, TLC

CONSTANTS a, b, p, h1, h2

VARIABLES mode,
    sRow, sVersion, sBedrock, sUp, sCache, sSeen, sPoll, sTask, sProbe, sReq,
    sShifts, sMishaps, sBehind,
    hRow, hVersion, hBedrock, hUp, hCache, hSeen, hPoll, hTask, hProbe, hReq,
    hShifts, hMishaps, hBehind

Sharing == INSTANCE BetaCapabilities WITH
    Replicas <- {a, b}, Handlers <- {h1, h2}, Pairs <- {p}, Learners <- {b},
    MaxVersion <- 2, MaxShifts <- 0, MaxMishaps <- 1,
    row <- sRow, version <- sVersion, bedrock <- sBedrock, up <- sUp,
    cache <- sCache, seen <- sSeen, poll <- sPoll, task <- sTask,
    probe <- sProbe, req <- sReq, shifts <- sShifts, mishaps <- sMishaps,
    behind <- sBehind

Healing == INSTANCE BetaCapabilities WITH
    Replicas <- {a}, Handlers <- {h1}, Pairs <- {p}, Learners <- {a},
    MaxVersion <- 2, MaxShifts <- 2, MaxMishaps <- 1,
    row <- hRow, version <- hVersion, bedrock <- hBedrock, up <- hUp,
    cache <- hCache, seen <- hSeen, poll <- hPoll, task <- hTask,
    probe <- hProbe, req <- hReq, shifts <- hShifts, mishaps <- hMishaps,
    behind <- hBehind

sharingVars == <<sRow, sVersion, sBedrock, sUp, sCache, sSeen, sPoll, sTask,
                 sProbe, sReq, sShifts, sMishaps, sBehind>>
healingVars == <<hRow, hVersion, hBedrock, hUp, hCache, hSeen, hPoll, hTask,
                 hProbe, hReq, hShifts, hMishaps, hBehind>>

MCVars == <<mode, vars, sharingVars, healingVars>>

Undecided(answers, kind) == mode # kind => \A x \in DOMAIN answers : answers[x]

MCInit ==
    /\ mode \in {"learning", "sharing", "healing"}
    /\ Init /\ Sharing!Init /\ Healing!Init
    /\ Undecided(bedrock, "learning")
    /\ Undecided(sBedrock, "sharing")
    /\ Undecided(hBedrock, "healing")

MCNext ==
    /\ UNCHANGED mode
    /\ \/ /\ mode = "learning" /\ Next
          /\ version' <= 1 /\ \A x \in Pairs \ {p} : row'[x] = "none"
          /\ UNCHANGED <<sharingVars, healingVars>>
       \/ /\ mode = "sharing" /\ Sharing!Next
          /\ UNCHANGED sProbe
          /\ sVersion' + Cardinality(Sharing!Unbumped') + sMishaps' <= 2
          /\ UNCHANGED <<vars, healingVars>>
       \/ /\ mode = "healing" /\ Healing!Next
          /\ UNCHANGED <<vars, sharingVars>>

\* In healing behaviours, in addition, time passes, the health loop goes round
\* (main.rs:450), and Bedrock answers a pair's probe conclusively now and then.
Healed(A) == mode = "healing" /\ A

MCSpec ==
    /\ MCInit /\ [][MCNext]_MCVars
    /\ Sharing!Fairness
    /\ Healing!Fairness
    /\ WF_healingVars(Healed(Healing!ProbeStart(a)))
    /\ WF_healingVars(Healed(Healing!ProbeApply(a)))
    /\ SF_healingVars(Healed(Healing!Conclusive(a, p)))
    /\ WF_healingVars(Healed(Healing!Expire(a, p)))

\* A replica at rest that has seen the newest version answers with the
\* administrator's word for every pair that has a row (lib.rs:22, main.rs:1104),
\* but for replicas behind through a lost bump or a replay that failed.
OverrideInForceEverywhere == Sharing!OverrideInForce /\ Healing!OverrideInForce

\* docs/configuration.md:128: "sets a permanent capability override that
\* ignores TTL and survives restarts", in every replica, where no bump and no
\* replay is lost on the way.
EnforcedEverywhere == Sharing!Enforced /\ Healing!Enforced

\* docs/configuration.md, "Self-healing": when Bedrock changes its mind, what
\* was learned before, or from answers still under way, does not stay.
HealsItself == Healing!SelfHealing
=============================================================================
