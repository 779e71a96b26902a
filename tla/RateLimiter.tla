---------------------------- MODULE RateLimiter ----------------------------
(***************************************************************************)
(* The sliding windows of one replica (src/src/ratelimit/mod.rs): one per  *)
(* virtual key with a limit, and one per user whose budget is shaped.      *)
(*                                                                         *)
(* A request reads the clock before it waits for the lock of the windows,  *)
(* so that requests may be judged in another order than that of their      *)
(* times.  Each replica has windows of its own.  What a window holds are   *)
(* the numbers of its pushes, in whose order its vector has their times.   *)
(***************************************************************************)
EXTENDS Integers, FiniteSetsExt, Sequences

CONSTANTS
    Askers,   \* requests that may be in check() at once
    Buckets,  \* ids of keys, and those made up for shaped users
    Limit,    \* requests a minute, of each of them
    Minute,   \* the length of the window in ticks of the clock
    MaxWait,  \* how many ticks a request may wait for the lock
    MaxClock  \* bound of the model: ticks of a behaviour

ASSUME RateAssumption ==
    /\ Limit \in [Buckets -> Nat]
    /\ Minute \in Nat \ {0} /\ MaxClock \in Nat
    /\ MaxWait \in 0..(Minute - 1)

VARIABLES
    clock,     \* the monotonic clock of the process
    windows,   \* windows.timestamps: which of the pushes are still there
    asks,      \* the requests in check()
    admitted   \* who was let through, that is, every push so far: the time of
               \* the request and, as history, that of its turn at the lock

rateVars == <<clock, windows, asks, admitted>>

NotAsking == [phase |-> "idle"]

RateInit ==
    /\ clock = 0
    /\ windows = [b \in Buckets |-> {}]
    /\ asks = [a \in Askers |-> NotAsking]
    /\ admitted = [b \in Buckets |-> <<>>]

-----------------------------------------------------------------------------

\* let now = Instant::now()
Ask(a, b) ==
    /\ asks[a].phase = "idle"
    /\ asks' = [asks EXCEPT ![a] = [phase |-> "waiting", bucket |-> b,
                                    now |-> clock]]
    /\ UNCHANGED <<clock, windows, admitted>>

\* Faulty: nothing is evicted but what is two minutes old.
KeptFaulty(b, now) == {i \in windows[b] : now - admitted[b][i].now < 2 * Minute}

\* timestamps.retain(): duration_since() is zero for a later time.
Kept(b, now) == {i \in windows[b] : now - admitted[b][i].now < Minute}

\* Faulty: the request that reaches the limit is one too many.
RoomFaulty(kept, b) == Cardinality(kept) <= Limit[b]

Room(kept, b) == Cardinality(kept) < Limit[b]

\* The rest of check(), under the lock.
Admit(a) ==
    /\ asks[a].phase = "waiting"
    /\ LET b == asks[a].bucket
           now == asks[a].now
       IN  /\ Room(Kept(b, now), b)
           /\ admitted' = [admitted EXCEPT ![b] =
                            Append(@, [now |-> now, turn |-> clock])]
           /\ windows' = [windows EXCEPT ![b] =
                            Kept(b, now) \cup {Len(admitted[b]) + 1}]
    /\ asks' = [asks EXCEPT ![a] = NotAsking]
    /\ UNCHANGED clock

\* Err(retry_after): the answer is 429.  A window without entries, which a
\* limit of 0 refuses, has no oldest one, and the request dies of a panic.
Refuse(a) ==
    /\ asks[a].phase = "waiting"
    /\ LET b == asks[a].bucket
           kept == Kept(b, asks[a].now)
       IN  /\ ~Room(kept, b)
           /\ windows' = [windows EXCEPT ![b] = kept]
           /\ asks' = [asks EXCEPT ![a] =
                        IF kept = {} THEN [phase |-> "panicked"]
                        ELSE [phase |-> "refused", bucket |-> b,
                              now |-> asks[a].now,
                              oldest |-> admitted[b][Min(kept)].now]]
    /\ UNCHANGED <<clock, admitted>>

Leave(a) ==
    /\ asks[a].phase \in {"refused", "panicked"}
    /\ asks' = [asks EXCEPT ![a] = NotAsking]
    /\ UNCHANGED <<clock, windows, admitted>>

\* cleanup(), called by the poll loop in every round, with a time from before
\* it got the lock: windows whose last push is two minutes old are dropped.
Stale(b, now) == now - admitted[b][Max(windows[b])].now >= 2 * Minute

Cleanup ==
    /\ \E now \in 0..clock :
         /\ clock <= now + MaxWait
         /\ windows' = [b \in Buckets |->
                          IF windows[b] # {} /\ Stale(b, now) THEN {} ELSE windows[b]]
    /\ windows' # windows
    /\ UNCHANGED <<clock, asks, admitted>>

Tick ==
    /\ clock < MaxClock
    /\ \A a \in Askers :
         asks[a].phase = "waiting" => clock < asks[a].now + MaxWait
    /\ clock' = clock + 1
    /\ UNCHANGED <<windows, asks, admitted>>

RateNext ==
    \/ \E a \in Askers :
         \/ \E b \in Buckets : Ask(a, b)
         \/ Admit(a) \/ Refuse(a) \/ Leave(a)
    \/ Cleanup
    \/ Tick

RateSpec == RateInit /\ [][RateNext]_rateVars

-----------------------------------------------------------------------------
(* Properties *)

\* Those let through whose time lies in the minute that ends with `t'.
InMinute(b, t) ==
    {i \in DOMAIN admitted[b] : admitted[b][i].now \in (t - Minute + 1)..t}

\* The clock moved while it waited for the lock.
Late(b, i) == admitted[b][i].turn > admitted[b][i].now

\* No minute, however it is placed, sees more requests than the limit, but for
\* those whose time had passed when they got the lock: their windows may lack
\* what requests with a later time took out.
RateHeld ==
    \A b \in Buckets : \A t \in 0..clock :
      Cardinality({i \in InMinute(b, t) : ~Late(b, i)}) <= Limit[b]

LetThroughSince(b, t) == {i \in DOMAIN admitted[b] : admitted[b][i].now > t - Minute}

\* A request is refused only if as many as the limit allows were let through
\* in the minute before it, or later: neither the clean-up nor an eviction by
\* an overtaken request, nor a refusal, costs anyone a place.
RefusedWhenFull ==
    \A a \in Askers :
      asks[a].phase = "refused" =>
        Cardinality(LetThroughSince(asks[a].bucket, asks[a].now)) >= Limit[asks[a].bucket]
=============================================================================
