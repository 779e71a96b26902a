----------------------- MODULE BetaCapabilitiesProofs -----------------------
(***************************************************************************)
(* Proofs about BetaCapabilities, for every set of replicas and pairs.     *)
(***************************************************************************)
EXTENDS BetaCapabilities, TLAPS

LEMMA InitType == ASSUME BetaAssumption PROVE Init => TypeOK
  BY DEF Init, TypeOK, Rows, NoRows, Entry, Nothing, Poll, Task, Probe, Req,
     Quiet, NoTask, NoProbe, NoReq

\* Entries written by a probe or a request, or by an administrator.
LEMMA EntryFact ==
    /\ Nothing \in Entry
    /\ \A w \in {"yes", "no"} : Learned(w) \in Entry /\ Override(w) \in Entry
  BY DEF Entry, Nothing, Learned, Override

LEMMA LearnType ==
    ASSUME TypeOK, NEW r \in Replicas, NEW S, NEW w \in {"yes", "no"}, Learn(r, S, w)
    PROVE  cache' \in [Replicas -> [Pairs -> Entry]]
  BY EntryFact DEF Learn, TypeOK

LEMMA TaskType ==
    ASSUME TypeOK, NEW h \in Handlers,
           \/ \E r \in Replicas, p \in Pairs, w \in {"none", "yes", "no"} :
                 Write(h, r, p, w)
           \/ TaskStep(h)
           \/ BumpFault(h)
    PROVE  TypeOK'
  <1>0. task[h] \in Task /\ NoTask \in Task
    BY DEF TypeOK, Task
  <1>1. ASSUME NEW r \in Replicas, NEW p \in Pairs, NEW w \in {"none", "yes", "no"},
               Write(h, r, p, w)
        PROVE  TypeOK'
    BY <1>1 DEF Write, TypeOK, Rows, Task, rest
  <1>2. CASE Mark(h)
    <2>1. /\ task[h].at \in Replicas /\ task[h].pair \in Pairs
          /\ task[h].says \in {"none", "yes", "no"}
          /\ [task[h] EXCEPT !.pc = "bump"] \in Task
      BY <1>0, <1>2 DEF Mark, Task, NoTask
    <2>2. task' \in [Handlers -> Task]
      BY <1>2, <2>1 DEF Mark, TypeOK
    <2>3. cache' \in [Replicas -> [Pairs -> Entry]]
      BY <1>2, <2>1, EntryFact DEF Mark, TypeOK
    <2> QED BY <1>2, <2>2, <2>3 DEF Mark, TypeOK, rest
  <1>3. CASE Bump(h)
    BY <1>0, <1>3 DEF Bump, TypeOK, rest
  <1>4. CASE BumpFault(h)
    BY <1>0, <1>4 DEF BumpFault, TypeOK
  <1> QED BY <1>1, <1>2, <1>3, <1>4 DEF TaskStep

LEMMA PollType ==
    ASSUME TypeOK, NEW r \in Replicas,
           PollStep(r) \/ ListFault(r) \/ Crash(r) \/ Boot(r)
    PROVE  TypeOK'
  <1>0. Quiet \in Poll /\ \A s \in Poll : [s EXCEPT !.pc = "list"] \in Poll
    BY DEF Quiet, Poll, NoRows, Rows
  <1>1. CASE PollVersion(r)
    BY <1>0, <1>1 DEF PollVersion, TypeOK, rest
  <1>2. CASE ListRows(r)
    BY <1>2 DEF ListRows, TypeOK, Poll, rest
  <1>3. CASE Apply(r)
    <2>1. \A p \in Pairs : poll[r].snap[p] \in {"none", "yes", "no"}
      BY DEF TypeOK, Poll, Rows
    <2>2. Replayed(r) \in [Pairs -> Entry]
      BY <2>1, EntryFact DEF TypeOK, Replayed
    <2> QED BY <1>0, <1>3, <2>2 DEF Apply, TypeOK, rest
  <1>4. CASE ListFault(r)
    BY <1>0, <1>4 DEF ListFault, TypeOK
  <1>5. CASE Crash(r)
    BY <1>0, <1>5, EntryFact DEF Crash, TypeOK, Task, Probe, Req, NoProbe, NoReq
  <1>6. CASE Boot(r)
    BY <1>0, <1>6 DEF Boot, TypeOK, rest
  <1> QED BY <1>1, <1>2, <1>3, <1>4, <1>5, <1>6 DEF PollStep

LEMMA ProbeType ==
    ASSUME TypeOK, NEW r \in Replicas, ProbeStep(r)
    PROVE  TypeOK'
  <1>0. probe[r] \in Probe
    BY DEF TypeOK
  <1>1. CASE ProbeStart(r)
    BY <1>1 DEF ProbeStart, TypeOK, Probe, NoProbe, rest
  <1>2. ASSUME NEW p \in Pairs, ProbeCall(r, p) PROVE TypeOK'
    <2>1. probe' \in [Replicas -> Probe]
      BY <1>0, <1>2 DEF ProbeCall, TypeOK, Probe
    <2> QED BY <1>2, <2>1 DEF ProbeCall, TypeOK, rest
  <1>3. CASE ProbeApply(r)
    <2>1. cache' \in [Replicas -> [Pairs -> Entry]]
      BY <1>3, LearnType DEF ProbeApply, Word
    <2>2. probe' \in [Replicas -> Probe]
      BY <1>0, <1>3 DEF ProbeApply, TypeOK, Probe, NoProbe
    <2> QED BY <1>3, <2>1, <2>2 DEF ProbeApply, TypeOK, rest
  <1> QED BY <1>1, <1>2, <1>3 DEF ProbeStep

LEMMA ReqType ==
    ASSUME TypeOK, NEW r \in Replicas,
           (\E betas \in (SUBSET Pairs) \ {{}} : Filter(r, betas)) \/ ReqStep(r)
    PROVE  TypeOK'
  <1>0. req[r] \in Req /\ NoReq \in Req
    BY DEF TypeOK, Req, NoReq
  <1>1. ASSUME NEW betas \in SUBSET Pairs, Filter(r, betas) PROVE TypeOK'
    BY <1>1 DEF Filter, TypeOK, Req, rest
  <1>2. CASE Send(r)
    <2>1. \A named \in SUBSET req[r].kept :
             [req[r] EXCEPT !.pc = "reject", !.named = named] \in Req
      BY <1>0 DEF Req
    <2>2. [req[r] EXCEPT !.pc = "learn"] \in Req
      BY <1>0 DEF Req
    <2>3. \E q \in Req : req' = [req EXCEPT ![r] = q]
      BY <1>0, <1>2, <2>1, <2>2 DEF Send
    <2> QED BY <1>2, <2>3 DEF Send, TypeOK, rest
  <1>3. CASE Reject(r)
    <2>1. cache' \in [Replicas -> [Pairs -> Entry]]
      BY <1>3, LearnType DEF Reject
    <2>2. [req[r] EXCEPT !.pc = "resend"] \in Req
      BY <1>0 DEF Req
    <2> QED BY <1>3, <2>1, <2>2 DEF Reject, TypeOK, rest
  <1>4. CASE Resend(r)
    <2>1. [req[r] EXCEPT !.pc = "learn"] \in Req
      BY <1>0 DEF Req
    <2> QED BY <1>0, <1>4, <2>1 DEF Resend, TypeOK, rest
  <1>5. CASE LearnSuccess(r)
    <2>1. cache' \in [Replicas -> [Pairs -> Entry]]
      BY <1>5, LearnType DEF LearnSuccess
    <2> QED BY <1>0, <1>5, <2>1 DEF LearnSuccess, TypeOK, rest
  <1> QED BY <1>1, <1>2, <1>3, <1>4, <1>5 DEF ReqStep

LEMMA StepType == ASSUME BetaAssumption PROVE TypeOK /\ [Next]_vars => TypeOK'
  <1> SUFFICES ASSUME TypeOK, [Next]_vars PROVE TypeOK'
    OBVIOUS
  <1>1. ASSUME NEW r \in Replicas, NEW p \in Pairs, Expire(r, p) PROVE TypeOK'
    <2>1. [cache[r][p] EXCEPT !.fresh = FALSE] \in Entry
      <3>1. cache[r][p] \in Entry
        BY DEF TypeOK
      <3> QED BY <3>1 DEF Entry
    <2> QED BY <1>1, <2>1 DEF Expire, TypeOK, rest
  <1>2. ASSUME NEW p \in Pairs, Shift(p) PROVE TypeOK'
    BY <1>2 DEF Shift, TypeOK
  <1>3. CASE UNCHANGED vars
    BY <1>3 DEF vars, rest, TypeOK
  <1> QED BY <1>1, <1>2, <1>3, TaskType, PollType, ProbeType, ReqType DEF Next

\* Every variable of the model keeps its type, for all replicas and pairs.
THEOREM TypeCorrect == Spec => []TypeOK
  <1>1. Init => TypeOK
    BY InitType, BetaAssumption
  <1>2. TypeOK /\ [Next]_vars => TypeOK'
    BY StepType, BetaAssumption
  <1> QED BY <1>1, <1>2, PTL DEF Spec

-----------------------------------------------------------------------------
(* Overrides stand *)

\* What OverrideStands says of one replica and one pair.
Stands(r, p) ==
    cache[r][p].by = "admin" =>
        \/ cache'[r][p].by = "admin"
        \/ Cleared(r, p)
        \/ r \notin up'

LEMMA LearnStands ==
    ASSUME TypeOK, NEW s \in Replicas, NEW S, NEW w, Learn(s, S, w),
           NEW r \in Replicas, NEW p \in Pairs
    PROVE  Stands(r, p)
  BY DEF Learn, Stands, TypeOK

LEMMA StepStands ==
    ASSUME TypeOK, [Next]_vars, NEW r \in Replicas, NEW p \in Pairs
    PROVE  Stands(r, p)
  <1>1. CASE UNCHANGED cache
    BY <1>1 DEF Stands
  <1>2. ASSUME NEW h \in Handlers, Mark(h) PROVE Stands(r, p)
    <2>0. task[h] \in Task /\ task[h].pc = "mark"
      BY <1>2 DEF Mark, TypeOK
    <2>1. CASE task[h] = [pc |-> "mark", at |-> r, pair |-> p, says |-> "none"]
      <3>1. task'[h].pc = "bump"
        BY <1>2, <2>0, <2>1 DEF Mark, TypeOK
      <3> QED BY <2>1, <3>1 DEF Stands, Cleared
    <2>2. CASE ~(task[h].at = r /\ task[h].pair = p)
      <3>1. cache'[r][p] = cache[r][p]
        BY <1>2, <2>2 DEF Mark, TypeOK
      <3> QED BY <3>1 DEF Stands
    <2>3. CASE task[h].at = r /\ task[h].pair = p /\ task[h].says # "none"
      <3>1. cache'[r][p] = Override(task[h].says)
        BY <1>2, <2>3 DEF Mark, TypeOK
      <3> QED BY <3>1 DEF Stands, Override
    <2> QED BY <2>0, <2>1, <2>2, <2>3 DEF Task, NoTask
  <1>3. ASSUME NEW s \in Replicas, Apply(s) PROVE Stands(r, p)
    BY <1>3 DEF Apply, Replayed, Override, Stands, TypeOK
  <1>4. ASSUME NEW s \in Replicas, Crash(s) PROVE Stands(r, p)
    BY <1>4 DEF Crash, Stands, TypeOK
  <1>5. ASSUME NEW s \in Replicas, ProbeApply(s) \/ Reject(s) \/ LearnSuccess(s)
        PROVE  Stands(r, p)
    BY <1>5, LearnStands DEF ProbeApply, Reject, LearnSuccess
  <1>6. ASSUME NEW s \in Replicas, NEW q \in Pairs, Expire(s, q) PROVE Stands(r, p)
    BY <1>6 DEF Expire, Stands, TypeOK, Entry
  <1>7. \/ UNCHANGED cache
        \/ \E h \in Handlers : Mark(h)
        \/ \E s \in Replicas : \/ Apply(s) \/ Crash(s)
                               \/ ProbeApply(s) \/ Reject(s) \/ LearnSuccess(s)
                               \/ \E q \in Pairs : Expire(s, q)
    BY DEF Next, vars, Write, TaskStep, Bump, BumpFault, PollStep, PollVersion,
       ListRows, ListFault, Boot, ProbeStep, ProbeStart, ProbeCall, Filter,
       ReqStep, Send, Resend, Shift
  <1> QED BY <1>1, <1>2, <1>3, <1>4, <1>5, <1>6, <1>7

\* No probe, rejection, success or replay ever takes an override away: only
\* the delete of that pair in that replica does, or the end of the process.
THEOREM OverridesStand == Spec => OverrideStands
  <1>1. TypeOK /\ [Next]_vars =>
           [\A r \in Replicas, p \in Pairs :
               cache[r][p].by = "admin" =>
                   \/ cache'[r][p].by = "admin"
                   \/ Cleared(r, p)
                   \/ r \notin up']_vars
    BY StepStands DEF Stands
  <1> QED BY <1>1, TypeCorrect, PTL DEF Spec, OverrideStands

-----------------------------------------------------------------------------
(* Nothing false is learned while Bedrock's answers stay the same *)

\* Every conclusion under way is true of Bedrock.
Pending(r) ==
    /\ probe[r].yes = {} \/ probe[r].no = {}
    /\ \A p \in probe[r].yes : bedrock[p]
    /\ \A p \in probe[r].no : ~bedrock[p]
    /\ req[r].unknown \subseteq req[r].kept
    /\ req[r].pc \in {"reject", "resend"} => \A p \in req[r].named : ~bedrock[p]
    /\ req[r].pc = "learn" => \A p \in Lesson(r) : bedrock[p]

TruthInv ==
    /\ shifts = 0
    /\ LearnsTruth
    /\ \A r \in Replicas : Pending(r)

LEMMA TruthInit == Init => TruthInv
  BY DEF Init, TruthInv, LearnsTruth, Nothing, Pending, NoProbe, NoReq

LEMMA LearnTrue ==
    ASSUME TypeOK, LearnsTruth, UNCHANGED bedrock, NEW r \in Replicas, NEW S,
           NEW w, Learn(r, S, w), \A p \in S \cap Pairs : w = Word(bedrock[p])
    PROVE  LearnsTruth'
  <1> SUFFICES ASSUME NEW s \in Replicas, NEW p \in Pairs, cache'[s][p].by = "learning"
               PROVE  cache'[s][p].says = Word(bedrock'[p])
    BY DEF LearnsTruth
  <1>1. cache'[s][p] = cache[s][p] \/ (p \in S /\ cache'[s][p] = Learned(w))
    BY DEF Learn, TypeOK
  <1> QED BY <1>1 DEF LearnsTruth, Learned, Word

\* A step that leaves caches, probes and requests alone, or clears them.
LEMMA TruthOther ==
    ASSUME TypeOK, TruthInv, UNCHANGED <<bedrock, shifts>>,
           NEW r \in Replicas,
           \A s \in Replicas \ {r} : UNCHANGED <<cache[s], probe[s], req[s]>>,
           \A p \in Pairs : \/ cache'[r][p] = cache[r][p]
                            \/ cache'[r][p].by # "learning",
           probe'[r] = probe[r] \/ probe'[r] = NoProbe,
           req'[r] = req[r] \/ req'[r] = NoReq
    PROVE  TruthInv'
  <1>1. LearnsTruth'
    BY DEF TruthInv, LearnsTruth
  <1>2. ASSUME NEW s \in Replicas PROVE Pending(s)'
    BY DEF TruthInv, Pending, Lesson, NoProbe, NoReq
  <1> QED BY <1>1, <1>2 DEF TruthInv

LEMMA TruthProbe ==
    ASSUME TypeOK, TruthInv, NEW r \in Replicas, ProbeStep(r)
    PROVE  TruthInv'
  <1>0. UNCHANGED <<bedrock, shifts, req>>
    BY DEF ProbeStep, ProbeStart, ProbeCall, ProbeApply, rest
  <1>1. \A s \in Replicas \ {r} : probe'[s] = probe[s]
    BY DEF ProbeStep, ProbeStart, ProbeCall, ProbeApply, TypeOK
  <1>2. /\ \A p \in probe'[r].yes : bedrock[p]
        /\ \A p \in probe'[r].no : ~bedrock[p]
        /\ probe'[r].yes = {} \/ probe'[r].no = {}
    <2>1. CASE ProbeStart(r)
      BY <2>1 DEF ProbeStart, NoProbe, TypeOK
    <2>2. ASSUME NEW p \in Pairs, ProbeCall(r, p)
          PROVE  /\ \A q \in probe'[r].yes : bedrock[q]
                 /\ \A q \in probe'[r].no : ~bedrock[q]
                 /\ probe'[r].yes = {} \/ probe'[r].no = {}
      BY <2>2 DEF ProbeCall, TypeOK
    <2>3. CASE ProbeApply(r)
      BY <2>3 DEF ProbeApply, NoProbe, TypeOK
    <2> QED BY <2>1, <2>2, <2>3 DEF ProbeStep
  <1>3. \A s \in Replicas : Pending(s)'
    BY <1>0, <1>1, <1>2 DEF TruthInv, Pending, Lesson
  <1>4. LearnsTruth'
    <2>1. CASE ~ProbeApply(r)
      BY <1>0, <2>1 DEF ProbeStep, ProbeStart, ProbeCall, TruthInv, LearnsTruth
    <2>2. CASE ProbeApply(r)
      <3>1. Pending(r)
        BY DEF TruthInv
      <3>2. \A p \in Answered(r) : Word(probe[r].yes # {}) = Word(bedrock[p])
        BY <3>1 DEF Pending, Answered, Word
      <3>3. Learn(r, Answered(r), Word(probe[r].yes # {}))
        BY <2>2 DEF ProbeApply
      <3> QED BY <1>0, <3>2, <3>3, LearnTrue DEF TruthInv
    <2> QED BY <2>1, <2>2
  <1> QED BY <1>0, <1>3, <1>4 DEF TruthInv, rest

LEMMA TruthReq ==
    ASSUME TypeOK, TruthInv, NEW r \in Replicas,
           (\E betas \in (SUBSET Pairs) \ {{}} : Filter(r, betas)) \/ ReqStep(r)
    PROVE  TruthInv'
  <1>0. UNCHANGED <<bedrock, shifts, probe>>
    BY DEF ReqStep, Filter, Send, Reject, Resend, LearnSuccess, rest
  <1>1. \A s \in Replicas \ {r} : req'[s] = req[s]
    BY DEF ReqStep, Filter, Send, Reject, Resend, LearnSuccess, TypeOK
  <1>2. Pending(r) /\ req[r] \in Req
    BY DEF TruthInv, TypeOK
  <1>3. CASE \E betas \in (SUBSET Pairs) \ {{}} : Filter(r, betas)
    <2>1. UNCHANGED cache /\ req'[r].pc = "send" /\ req'[r].unknown \subseteq req'[r].kept
      BY <1>3 DEF Filter, TypeOK
    <2>2. Pending(r)'
      BY <1>0, <1>2, <2>1 DEF Pending
    <2> QED BY <1>0, <1>1, <2>1, <2>2 DEF TruthInv, LearnsTruth, Pending, Lesson
  <1>4. CASE Send(r)
    <2>1. UNCHANGED cache
      BY <1>4 DEF Send
    <2>2. Pending(r)'
      <3>1. CASE req' = [req EXCEPT ![r] = [@ EXCEPT !.pc = "learn"]] /\ Accepted(req[r].kept)
        <4>1. req'[r] = [req[r] EXCEPT !.pc = "learn"]
          BY <3>1 DEF TypeOK
        <4>2. /\ req'[r].pc = "learn" /\ req'[r].unknown = req[r].unknown
              /\ req'[r].kept = req[r].kept
          BY <1>2, <4>1 DEF Req
        <4> QED BY <1>0, <1>2, <3>1, <4>2 DEF Pending, Lesson, Accepted
      <3>2. ASSUME NEW named \in (SUBSET {p \in req[r].kept : ~bedrock[p]}) \ {{}},
                   req' = [req EXCEPT ![r] = [@ EXCEPT !.pc = "reject", !.named = named]]
            PROVE  Pending(r)'
        <4>1. req'[r] = [req[r] EXCEPT !.pc = "reject", !.named = named]
          BY <3>2 DEF TypeOK
        <4>2. /\ req'[r].pc = "reject" /\ req'[r].unknown = req[r].unknown
              /\ req'[r].kept = req[r].kept /\ req'[r].named = named
          BY <1>2, <4>1 DEF Req
        <4> QED BY <1>0, <1>2, <3>2, <4>2 DEF Pending
      <3>3. CASE req' = [req EXCEPT ![r] = NoReq]
        BY <1>0, <1>2, <3>3 DEF Pending, NoReq, TypeOK
      <3> QED BY <1>4, <3>1, <3>2, <3>3 DEF Send
    <2> QED BY <1>0, <1>1, <2>1, <2>2 DEF TruthInv, LearnsTruth, Pending, Lesson
  <1>5. CASE Reject(r)
    <2>1. LearnsTruth'
      <3>1. \A p \in req[r].named : "no" = Word(bedrock[p])
        BY <1>2, <1>5 DEF Reject, Pending, Word
      <3> QED BY <1>0, <1>5, <3>1, LearnTrue DEF Reject, TruthInv
    <2>2. req'[r] = [req[r] EXCEPT !.pc = "resend"]
      BY <1>5 DEF Reject, TypeOK
    <2>3. /\ req'[r].pc = "resend" /\ req'[r].unknown = req[r].unknown
          /\ req'[r].kept = req[r].kept /\ req'[r].named = req[r].named
      BY <1>2, <2>2 DEF Req
    <2>4. Pending(r)'
      BY <1>0, <1>2, <1>5, <2>3 DEF Pending, Reject
    <2> QED BY <1>0, <1>1, <2>1, <2>4 DEF TruthInv, Pending, Lesson
  <1>6. CASE Resend(r)
    <2>1. UNCHANGED cache
      BY <1>6 DEF Resend
    <2>2. Pending(r)'
      <3>1. CASE /\ req' = [req EXCEPT ![r] = [@ EXCEPT !.pc = "learn"]]
                 /\ Accepted(req[r].kept \ req[r].named)
        <4>1. req'[r] = [req[r] EXCEPT !.pc = "learn"]
          BY <3>1 DEF TypeOK
        <4>2. /\ req'[r].pc = "learn" /\ req'[r].unknown = req[r].unknown
              /\ req'[r].kept = req[r].kept /\ req'[r].named = req[r].named
          BY <1>2, <4>1 DEF Req
        <4> QED BY <1>0, <1>2, <3>1, <4>2 DEF Pending, Lesson, Accepted
      <3>2. CASE req' = [req EXCEPT ![r] = NoReq]
        BY <1>0, <1>2, <3>2 DEF Pending, NoReq, TypeOK
      <3> QED BY <1>6, <3>1, <3>2 DEF Resend
    <2> QED BY <1>0, <1>1, <2>1, <2>2 DEF TruthInv, LearnsTruth, Pending, Lesson
  <1>7. CASE LearnSuccess(r)
    <2>1. LearnsTruth'
      <3>1. \A p \in Lesson(r) : "yes" = Word(bedrock[p])
        BY <1>2, <1>7 DEF LearnSuccess, Pending, Word
      <3> QED BY <1>0, <1>7, <3>1, LearnTrue DEF LearnSuccess, TruthInv
    <2>2. Pending(r)'
      BY <1>0, <1>2, <1>7 DEF LearnSuccess, Pending, NoReq, TypeOK
    <2> QED BY <1>0, <1>1, <2>1, <2>2 DEF TruthInv, Pending, Lesson
  <1> QED BY <1>3, <1>4, <1>5, <1>6, <1>7 DEF ReqStep

LEMMA TruthStep ==
    ASSUME MaxShifts = 0 PROVE TypeOK /\ TruthInv /\ [Next]_vars => TruthInv'
  <1> SUFFICES ASSUME TypeOK, TruthInv, [Next]_vars PROVE TruthInv'
    OBVIOUS
  <1>1. CASE UNCHANGED vars
    BY <1>1 DEF vars, TruthInv, LearnsTruth, Pending, Lesson
  <1>2. ASSUME NEW p \in Pairs, Shift(p) PROVE TruthInv'
    BY <1>2 DEF Shift, TruthInv
  <1>3. ASSUME \/ \E h \in Handlers :
                     \/ \E r \in Replicas, p \in Pairs, w \in {"none", "yes", "no"} :
                           Write(h, r, p, w)
                     \/ Bump(h) \/ BumpFault(h)
               \/ \E r \in Replicas :
                     PollVersion(r) \/ ListRows(r) \/ ListFault(r) \/ Boot(r)
        PROVE  TruthInv'
    <2>1. UNCHANGED <<bedrock, shifts, cache, probe, req>>
      BY <1>3 DEF Write, Bump, BumpFault, PollVersion, ListRows, ListFault, Boot, rest
    <2> QED BY <2>1 DEF TruthInv, LearnsTruth, Pending, Lesson
  <1>4. ASSUME NEW h \in Handlers, Mark(h) PROVE TruthInv'
    <2>0. task[h].at \in Replicas
      BY <1>4 DEF Mark, TypeOK, Task, NoTask
    <2>1. UNCHANGED <<bedrock, shifts, probe, req>>
      BY <1>4 DEF Mark, rest
    <2>2. \A s \in Replicas \ {task[h].at} : cache'[s] = cache[s]
      BY <1>4 DEF Mark, TypeOK
    <2>3. \A p \in Pairs : \/ cache'[task[h].at][p] = cache[task[h].at][p]
                            \/ cache'[task[h].at][p].by # "learning"
      BY <1>4, <2>0 DEF Mark, TypeOK, Nothing, Override
    <2> QED BY <2>0, <2>1, <2>2, <2>3, TruthOther
  <1>5. ASSUME NEW r \in Replicas, Apply(r) PROVE TruthInv'
    <2>1. UNCHANGED <<bedrock, shifts, probe, req>>
      BY <1>5 DEF Apply, rest
    <2>2. \A s \in Replicas \ {r} : cache'[s] = cache[s]
      BY <1>5 DEF Apply, TypeOK
    <2>3. \A p \in Pairs : cache'[r][p] = cache[r][p] \/ cache'[r][p].by # "learning"
      BY <1>5 DEF Apply, Replayed, TypeOK, Override
    <2> QED BY <2>1, <2>2, <2>3, TruthOther
  <1>6. ASSUME NEW r \in Replicas, Crash(r) PROVE TruthInv'
    <2>1. UNCHANGED <<bedrock, shifts>>
      BY <1>6 DEF Crash
    <2>2. \A s \in Replicas \ {r} : UNCHANGED <<cache[s], probe[s], req[s]>>
      BY <1>6 DEF Crash, TypeOK
    <2>3. \A p \in Pairs : cache'[r][p].by # "learning"
      BY <1>6 DEF Crash, TypeOK, Nothing
    <2>4. probe'[r] = NoProbe /\ req'[r] = NoReq
      BY <1>6 DEF Crash, TypeOK
    <2> QED BY <2>1, <2>2, <2>3, <2>4, TruthOther
  <1>7. ASSUME NEW r \in Replicas, NEW p \in Pairs, Expire(r, p) PROVE TruthInv'
    <2>1. UNCHANGED <<bedrock, shifts, probe, req>>
      BY <1>7 DEF Expire, rest
    <2>2. \A s \in Replicas, q \in Pairs : /\ cache'[s][q].says = cache[s][q].says
                                           /\ cache'[s][q].by = cache[s][q].by
      <3>1. cache[r][p] \in Entry
        BY DEF TypeOK
      <3>2. /\ [cache[r][p] EXCEPT !.fresh = FALSE].says = cache[r][p].says
            /\ [cache[r][p] EXCEPT !.fresh = FALSE].by = cache[r][p].by
        BY <3>1 DEF Entry
      <3> QED BY <1>7, <3>2 DEF Expire, TypeOK
    <2> QED BY <2>1, <2>2 DEF TruthInv, LearnsTruth, Pending, Lesson
  <1> QED BY <1>1, <1>2, <1>3, <1>4, <1>5, <1>6, <1>7, TruthProbe, TruthReq
          DEF Next, TaskStep, PollStep

\* While Bedrock's answers do not change, no interleaving of probes, requests,
\* retries, overrides and restarts makes a replica learn anything false.
THEOREM OnlyTruthIsLearned == MaxShifts = 0 => (Spec => []LearnsTruth)
  <1> SUFFICES ASSUME MaxShifts = 0 PROVE Spec => []LearnsTruth
    OBVIOUS
  <1>1. TypeOK /\ TruthInv /\ [Next]_vars => TruthInv'
    BY TruthStep
  <1>2. TruthInv => LearnsTruth
    BY DEF TruthInv
  <1> QED BY <1>1, <1>2, TruthInit, TypeCorrect, PTL DEF Spec

-----------------------------------------------------------------------------
(* The administrator's word is in force where its version has been seen *)

UpToDate(r) == Unbumped = {} /\ seen[r] = version

Obeys(r) == \A p \in Pairs : row[p] # "none" => cache[r][p] = Override(row[p])

\* A replica that has seen the newest version and is not behind has the newest
\* rows in its cache, or in its hands.
ForceInv ==
    \A r \in Replicas :
        UpToDate(r) /\ r \notin behind =>
            /\ r \in up /\ poll[r].pc = "idle" => Obeys(r)
            /\ poll[r].pc = "apply" => poll[r].snap = row

LEMMA ForceInit == Init => ForceInv
  BY DEF Init, ForceInv, Obeys, NoRows, Quiet

\* A handler has yet to bump the version, or has just done so, or every replica
\* is behind.
LEMMA ForceBehind ==
    ASSUME \A r \in Replicas : (~UpToDate(r) \/ r \in behind)' PROVE ForceInv'
  BY DEF ForceInv

\* Nothing that the invariant reads changes but the entries of one replica that
\* are no overrides.
LEMMA ForceLearn ==
    ASSUME TypeOK, ForceInv,
           UNCHANGED <<row, version, up, seen, poll, task, behind>>,
           \A r \in Replicas, p \in Pairs :
               cache[r][p].by = "admin" => cache'[r][p] = cache[r][p]
    PROVE  ForceInv'
  BY DEF ForceInv, UpToDate, Unbumped, Obeys, Override

LEMMA ForceHandler ==
    ASSUME TypeOK, TypeOK', ForceInv, NEW h \in Handlers,
           \/ \E r \in Replicas, p \in Pairs, w \in {"none", "yes", "no"} :
                 Write(h, r, p, w)
           \/ TaskStep(h)
           \/ BumpFault(h)
    PROVE  ForceInv'
  <1>1. ASSUME NEW r \in Replicas, NEW p \in Pairs, NEW w \in {"none", "yes", "no"},
               Write(h, r, p, w)
        PROVE  ForceInv'
    <2>1. task'[h].pc = "mark"
      BY <1>1 DEF Write, TypeOK
    <2> QED BY <2>1, ForceBehind DEF UpToDate, Unbumped
  <1>2. CASE Mark(h)
    <2>1. task'[h].pc = "bump"
      BY <1>2 DEF Mark, TypeOK, Task, NoTask
    <2> QED BY <2>1, ForceBehind DEF UpToDate, Unbumped
  <1>3. CASE Bump(h)
    <2>1. \A r \in Replicas : seen'[r] # version'
      BY <1>3 DEF Bump, TypeOK
    <2> QED BY <2>1, ForceBehind DEF UpToDate
  <1>4. CASE BumpFault(h)
    BY <1>4, ForceBehind DEF BumpFault
  <1> QED BY <1>1, <1>2, <1>3, <1>4 DEF TaskStep

LEMMA ForcePoll ==
    ASSUME TypeOK, ForceInv, NEW s \in Replicas,
           PollStep(s) \/ ListFault(s) \/ Crash(s) \/ Boot(s)
    PROVE  ForceInv'
  <1>1. CASE PollVersion(s) \/ Boot(s)
    <2>1. /\ UNCHANGED <<row, version, up, cache, task, behind>>
          /\ poll'[s].pc = "list"
          /\ \A r \in Replicas \ {s} : UNCHANGED <<seen[r], poll[r]>>
      BY <1>1 DEF PollVersion, Boot, TypeOK, Poll, rest
    <2> QED BY <2>1 DEF ForceInv, UpToDate, Unbumped, Obeys
  <1>2. CASE ListRows(s)
    <2>1. /\ UNCHANGED <<row, version, up, cache, task, behind, seen>>
          /\ poll'[s].pc = "apply" /\ poll'[s].snap = row
          /\ \A r \in Replicas \ {s} : UNCHANGED poll[r]
      BY <1>2 DEF ListRows, TypeOK, rest
    <2> QED BY <2>1 DEF ForceInv, UpToDate, Unbumped, Obeys
  <1>3. CASE Apply(s)
    <2>1. /\ UNCHANGED <<row, version, task, seen>>
          /\ poll[s].pc = "apply" /\ poll'[s].pc = "idle"
          /\ \A r \in Replicas \ {s} :
                /\ UNCHANGED <<poll[r], cache[r]>>
                /\ r \in up' <=> r \in up
                /\ r \in behind' <=> r \in behind
          /\ \A p \in Pairs : poll[s].snap[p] # "none"
                                => cache'[s][p] = Override(poll[s].snap[p])
      BY <1>3 DEF Apply, Replayed, Quiet, TypeOK
    <2>2. s \notin behind' => poll[s].snap = row \/ s \notin behind
      BY <1>3 DEF Apply
    <2>3. UpToDate(s)' /\ s \notin behind' => Obeys(s)'
      BY <2>1, <2>2 DEF ForceInv, UpToDate, Unbumped, Obeys
    <2> QED BY <2>1, <2>3 DEF ForceInv, UpToDate, Unbumped, Obeys
  <1>4. CASE ListFault(s)
    <2>1. /\ UNCHANGED <<row, version, cache, task, seen>>
          /\ s \in behind'
          /\ \A r \in Replicas \ {s} :
                /\ UNCHANGED poll[r]
                /\ r \in up' <=> r \in up
                /\ r \in behind' <=> r \in behind
      BY <1>4 DEF ListFault, TypeOK
    <2> QED BY <2>1 DEF ForceInv, UpToDate, Unbumped, Obeys
  <1>5. CASE Crash(s)
    <2>1. CASE Dying(s) # {}
      BY <1>5, <2>1, ForceBehind DEF Crash
    <2>2. CASE Dying(s) = {}
      <3>1. UNCHANGED <<row, version, behind, task>>
        BY <1>5, <2>2 DEF Crash, TypeOK
      <3>2. /\ s \notin up' /\ poll'[s].pc = "idle"
            /\ \A r \in Replicas \ {s} :
                  /\ UNCHANGED <<cache[r], seen[r], poll[r]>>
                  /\ r \in up' <=> r \in up
        BY <1>5 DEF Crash, Quiet, TypeOK
      <3> QED BY <3>1, <3>2 DEF ForceInv, UpToDate, Unbumped, Obeys
    <2> QED BY <2>1, <2>2
  <1> QED BY <1>1, <1>2, <1>3, <1>4, <1>5 DEF PollStep

LEMMA ForceStep == TypeOK /\ TypeOK' /\ ForceInv /\ [Next]_vars => ForceInv'
  <1> SUFFICES ASSUME TypeOK, TypeOK', ForceInv, [Next]_vars PROVE ForceInv'
    OBVIOUS
  <1>1. ASSUME NEW s \in Replicas, NEW S, NEW w, Learn(s, S, w),
               UNCHANGED <<row, version, up, seen, poll, task, behind>>
        PROVE  ForceInv'
    <2>1. \A r \in Replicas, p \in Pairs :
             cache[r][p].by = "admin" => cache'[r][p] = cache[r][p]
      BY <1>1 DEF Learn, TypeOK
    <2> QED BY <1>1, <2>1, ForceLearn
  <1>2. ASSUME NEW s \in Replicas, ProbeApply(s) \/ Reject(s) \/ LearnSuccess(s)
        PROVE  ForceInv'
    BY <1>1, <1>2 DEF ProbeApply, Reject, LearnSuccess, rest
  <1>3. ASSUME NEW s \in Replicas, NEW q \in Pairs, Expire(s, q) PROVE ForceInv'
    <2>1. \A r \in Replicas, p \in Pairs :
             cache[r][p].by = "admin" => cache'[r][p] = cache[r][p]
      BY <1>3 DEF Expire, TypeOK
    <2> QED BY <1>3, <2>1, ForceLearn DEF Expire, rest
  <1>4. CASE UNCHANGED <<row, version, up, cache, seen, poll, task, behind>>
    BY <1>4, ForceLearn
  <1>5. ASSUME NEW s \in Replicas,
               \/ ProbeStart(s) \/ \E p \in Pairs : ProbeCall(s, p)
               \/ \E betas \in (SUBSET Pairs) \ {{}} : Filter(s, betas)
               \/ Send(s) \/ Resend(s)
        PROVE  UNCHANGED <<row, version, up, cache, seen, poll, task, behind>>
    BY <1>5 DEF ProbeStart, ProbeCall, Filter, Send, Resend, rest
  <1>6. CASE UNCHANGED vars \/ \E p \in Pairs : Shift(p)
    BY <1>4, <1>6 DEF vars, Shift
  <1> QED
    BY <1>2, <1>3, <1>4, <1>5, <1>6, ForceHandler, ForcePoll
       DEF Next, ProbeStep, ReqStep

\* For all replicas, handlers and pairs, with learning, expiry, failing calls
\* and crashes: a replica at rest that has seen the newest version answers with
\* the administrator's word, but for the reasons that InForce names.
THEOREM OverridesInForce == Spec => []OverrideInForce
  <1>1. ForceInv => OverrideInForce
    <2> SUFFICES ASSUME ForceInv, NEW r \in Replicas, NEW p \in Pairs, r \notin behind,
                        AtRest(r), UpToDate(r), row[p] # "none"
                 PROVE  Supported(r, p) = row[p]
      BY DEF OverrideInForce, InForce, UpToDate
    <2>1. cache[r][p] = Override(row[p])
      BY DEF ForceInv, Obeys, AtRest
    <2> QED BY <2>1 DEF Supported, Override
  <1> QED BY <1>1, ForceInit, ForceStep, TypeCorrect, PTL DEF Spec
=============================================================================
