--------------------------- MODULE Notifications ---------------------------
(***************************************************************************)
(* How the events of budgets are told to a destination: delivery_loop() in *)
(* src/src/budget/notifications.rs, which every replica runs, and the      *)
(* handlers of /admin/notifications in api/admin.rs, which keep a draft of *)
(* the destination beside the active one.                                  *)
(*                                                                         *)
(* Events are numbered in the order of their created_at.  All events that  *)
(* are inserted have the category "budget"; of a set of categories only    *)
(* counts whether it holds that one.                                       *)
(***************************************************************************)
EXTENDS Integers, FiniteSetsExt

CONSTANTS
    Loops,         \* the replicas, with a delivery loop each
    Admins,        \* administrators, with a request at a time each
    Destinations,  \* values of a destination
    Sns,           \* those that are SNS topics
    EnvUrls,       \* what the environment may name as destination, or Nowhere
    Nowhere,
    MaxEvents,     \* bound of the model: events
    Refused,       \* events that no destination ever accepts
    Wide,          \* events whose subject, cut at 100 bytes, splits a character
    Batch,         \* 50 in the code: events of a cycle
    MaxSaves,      \* bound of the model: drafts saved
    MaxHiccups     \* bound of the model: failing queries and crashes

ASSUME NotificationsAssumption ==
    /\ Sns \subseteq Destinations /\ Nowhere \notin Destinations
    /\ EnvUrls \subseteq Destinations \cup {Nowhere}
    /\ MaxEvents \in Nat /\ Batch \in Nat \ {0}
    /\ MaxSaves \in Nat /\ MaxHiccups \in Nat

VARIABLES
    envUrl,    \* config.notification_url, the same everywhere
    events,    \* how many have been inserted
    marked,    \* those with a delivered_at
    active,    \* notification_config: the row of slot 'active', if any
    draft,     \* that of slot 'draft'
    loops,     \* the delivery loops
    requests,  \* the administrators' requests that wait for something
    saves,     \* drafts saved so far
    hiccups,   \* failing queries and crashes so far
    sent,      \* history: events that a destination has accepted
    waived,    \* history: events marked for want of a destination that wants
               \* them, while the loop knew the rows
    passed,    \* history: drafts, by number, whose test was delivered
    overtaken  \* history: drafts saved while a request was about another one

notifyVars == <<envUrl, events, marked, active, draft, loops, requests, saves, hiccups,
                sent, waived, passed, overtaken>>

Resting == [at |-> "tick", batch |-> {}, dest |-> Nowhere, wants |-> FALSE]
NoRow == [id |-> 0]
NoRequest == [kind |-> "none"]

\* Long ago `row' was saved, tested and activated.
NotifyInitWith(row) ==
    /\ envUrl \in EnvUrls
    /\ events = 0 /\ marked = {} /\ active = row /\ draft = NoRow
    /\ loops = [l \in Loops |-> Resting]
    /\ requests = [a \in Admins |-> NoRequest]
    /\ saves = row.id /\ hiccups = 0
    /\ sent = {} /\ waived = {} /\ overtaken = {}
    /\ passed = {row.id} \ {0}

NotifyInit == NotifyInitWith(NoRow)

configVars == <<envUrl, active, draft, requests, saves, passed, overtaken>>

-----------------------------------------------------------------------------
(* The delivery loop *)

\* insert_event()
NewEvent ==
    /\ events < MaxEvents
    /\ events' = events + 1
    /\ UNCHANGED <<marked, loops, hiccups, sent, waived, configVars>>

Undelivered == (1..events) \ marked

\* ORDER BY created_at LIMIT n
Oldest(S, n) == {e \in S : Cardinality({f \in S : f < e}) < n}

\* A cycle begins with get_undelivered_events().
Fetch(l) ==
    /\ loops[l].at = "tick"
    /\ Undelivered # {}
    /\ loops' = [loops EXCEPT ![l] = [Resting EXCEPT !.at = "config",
                                        !.batch = Oldest(Undelivered, Batch)]]
    /\ UNCHANGED <<events, marked, hiccups, sent, waived, configVars>>

\* The active row, or the destination of the environment, or none: then all
\* are marked, one by one.
Go(l, dest, wants) ==
    loops' = [loops EXCEPT ![l].at = IF dest = Nowhere THEN "waive" ELSE "send",
                           ![l].dest = dest, ![l].wants = wants]

Resolve(l) ==
    /\ loops[l].at = "config"
    /\ IF active # NoRow THEN Go(l, active.dest, active.wants)
                         ELSE Go(l, envUrl, TRUE)
    /\ UNCHANGED <<events, marked, hiccups, sent, waived, configVars>>

\* A query that fails is taken for the lack of a row.
ResolveFails(l) ==
    /\ loops[l].at = "config"
    /\ hiccups < MaxHiccups
    /\ hiccups' = hiccups + 1
    /\ loops' = [loops EXCEPT ![l].at = IF envUrl = Nowhere THEN "drop" ELSE "send",
                              ![l].dest = envUrl, ![l].wants = TRUE]
    /\ UNCHANGED <<events, marked, sent, waived, configVars>>

First(l) == Min(loops[l].batch)

Done(batch, loop) ==
    IF batch = {} THEN Resting ELSE [loop EXCEPT !.batch = batch]

Passed(l) == loops' = [loops EXCEPT ![l] = Done(@.batch \ {First(l)}, @)]

\* mark_delivered() of an event that is not sent: there is no destination, or
\* its category is off.
MarkUnsent(l) ==
    /\ \/ loops[l].at \in {"waive", "drop"}
       \/ loops[l].at = "send" /\ ~loops[l].wants
    /\ marked' = marked \cup {First(l)}
    /\ waived' = IF loops[l].at = "drop" THEN waived
                 ELSE waived \cup {First(l)}
    /\ Passed(l)
    /\ UNCHANGED <<events, hiccups, sent, configVars>>

Sending(l) == loops[l].at = "send" /\ loops[l].wants

Panics(l) == First(l) \in Wide /\ loops[l].dest \in Sns

\* deliver() succeeds; the event is marked next, which may fail.
Send(l) ==
    /\ Sending(l)
    /\ ~Panics(l) /\ First(l) \notin Refused
    /\ sent' = sent \cup {First(l)}
    /\ loops' = [loops EXCEPT ![l].at = "mark"]
    /\ UNCHANGED <<events, marked, hiccups, waived, configVars>>

Mark(l) ==
    /\ loops[l].at = "mark"
    /\ marked' = marked \cup {First(l)}
    /\ loops' = [loops EXCEPT ![l] = Done(@.batch \ {First(l)},
                                          [@ EXCEPT !.at = "send"])]
    /\ UNCHANGED <<events, hiccups, sent, waived, configVars>>

MarkFails(l) ==
    /\ loops[l].at = "mark"
    /\ hiccups < MaxHiccups
    /\ hiccups' = hiccups + 1
    /\ loops' = [loops EXCEPT ![l] = Done(@.batch \ {First(l)},
                                          [@ EXCEPT !.at = "send"])]
    /\ UNCHANGED <<events, marked, sent, waived, configVars>>

\* Faulty: a failed delivery ends the cycle.
SendFailsAndStopsFaulty(l) ==
    /\ Sending(l) /\ ~Panics(l)
    /\ First(l) \in Refused
    /\ loops' = [loops EXCEPT ![l] = Resting]
    /\ UNCHANGED <<events, marked, hiccups, sent, waived, configVars>>

\* Faulty: a failed delivery is marked as well.
SendFailsFaulty(l) ==
    /\ Sending(l) /\ ~Panics(l)
    /\ First(l) \in Refused
    /\ marked' = marked \cup {First(l)}
    /\ Passed(l)
    /\ UNCHANGED <<events, hiccups, sent, waived, configVars>>

\* deliver() fails: for this event always, or for once.
SendFails(l) ==
    /\ Sending(l) /\ ~Panics(l)
    /\ \/ First(l) \in Refused /\ UNCHANGED hiccups
       \/ /\ First(l) \notin Refused
          /\ hiccups < MaxHiccups
          /\ hiccups' = hiccups + 1
    /\ Passed(l)
    /\ UNCHANGED <<events, marked, sent, waived, configVars>>

\* send_sns() cuts the subject within a character: the task dies.
SendPanics(l) ==
    /\ Sending(l) /\ Panics(l)
    /\ loops' = [loops EXCEPT ![l] = [Resting EXCEPT !.at = "dead"]]
    /\ UNCHANGED <<events, marked, hiccups, sent, waived, configVars>>

\* The replica crashes and starts again.
Crash(l) ==
    /\ hiccups < MaxHiccups
    /\ loops[l] # Resting
    /\ hiccups' = hiccups + 1
    /\ loops' = [loops EXCEPT ![l] = Resting]
    /\ UNCHANGED <<events, marked, sent, waived, configVars>>

LoopStep(l) ==
    Fetch(l) \/ Resolve(l) \/ MarkUnsent(l) \/ Send(l) \/ Mark(l)
    \/ SendFails(l) \/ SendPanics(l)

LoopNext(l) == LoopStep(l) \/ ResolveFails(l) \/ MarkFails(l) \/ Crash(l)

-----------------------------------------------------------------------------
(* The administrators.  validate_destination() and validate_categories()    *)
(* have passed.                                                             *)

loopVars == <<envUrl, events, marked, loops, hiccups, sent, waived>>

Free(a) == requests[a].kind = "none"

Begin(a, request) == requests' = [requests EXCEPT ![a] = request]

\* save_notification_config(): upsert_draft() forgets the test.
Save(a, dest, wants) ==
    /\ Free(a) /\ saves < MaxSaves
    /\ saves' = saves + 1
    /\ draft' = [id |-> saves', dest |-> dest, wants |-> wants, tested |-> FALSE]
    /\ overtaken' = IF \E b \in Admins : ~Free(b) THEN overtaken \cup {saves'}
                    ELSE overtaken
    /\ UNCHANGED <<active, requests, passed, loopVars>>

\* test_notification(): get_draft(), deliver() ...
BeginTest(a) ==
    /\ Free(a) /\ draft # NoRow
    /\ Begin(a, [kind |-> "test", id |-> draft.id])
    /\ UNCHANGED <<active, draft, saves, passed, overtaken, loopVars>>

\* Faulty: the row is not told that the test failed.
EndTestFaulty(a, success) ==
    /\ requests[a].kind = "test"
    /\ passed' = IF success THEN passed \cup {requests[a].id} ELSE passed
    /\ draft' = IF draft = NoRow THEN NoRow ELSE [draft EXCEPT !.tested = TRUE]
    /\ Begin(a, NoRequest)
    /\ UNCHANGED <<active, saves, overtaken, loopVars>>

\* ... and update_test_result() for whatever is in the slot by then.
EndTest(a, success) ==
    /\ requests[a].kind = "test"
    /\ passed' = IF success THEN passed \cup {requests[a].id} ELSE passed
    /\ draft' = IF draft = NoRow THEN NoRow ELSE [draft EXCEPT !.tested = success]
    /\ Begin(a, NoRequest)
    /\ UNCHANGED <<active, saves, overtaken, loopVars>>

\* activate_notification(): get_draft() and the check of its test ...
BeginActivate(a) ==
    /\ Free(a) /\ draft # NoRow /\ draft.tested
    /\ Begin(a, [kind |-> "activate"])
    /\ UNCHANGED <<active, draft, saves, passed, overtaken, loopVars>>

\* ... and activate_draft(): the active row is deleted, and whatever is in the
\* slot 'draft' takes its place.
EndActivate(a) ==
    /\ requests[a].kind = "activate"
    /\ active' = draft /\ draft' = NoRow
    /\ Begin(a, NoRequest)
    /\ UNCHANGED <<saves, passed, overtaken, loopVars>>

\* delete_notification_config(), delete_notification_draft(): one statement
DeleteRow(a) ==
    /\ Free(a)
    /\ \/ active' = NoRow /\ UNCHANGED draft
       \/ draft' = NoRow /\ UNCHANGED active
    /\ UNCHANGED <<requests, saves, passed, overtaken, loopVars>>

\* update_notification_categories()
Categories(a, wants) ==
    /\ Free(a) /\ active # NoRow
    /\ active' = [active EXCEPT !.wants = wants]
    /\ UNCHANGED <<draft, requests, saves, passed, overtaken, loopVars>>

AdminStep(a) ==
    \/ \E dest \in Destinations, wants \in BOOLEAN : Save(a, dest, wants)
    \/ BeginTest(a)
    \/ \E success \in BOOLEAN : EndTest(a, success)
    \/ BeginActivate(a) \/ EndActivate(a) \/ DeleteRow(a)
    \/ \E wants \in BOOLEAN : Categories(a, wants)

NotifyNext ==
    \/ NewEvent
    \/ \E l \in Loops : LoopNext(l)
    \/ \E a \in Admins : AdminStep(a)

NotifySpec == NotifyInit /\ [][NotifyNext]_notifyVars

\* Every loop goes on ticking.
NotifyFair == \A l \in Loops : WF_notifyVars(LoopStep(l))

-----------------------------------------------------------------------------
(* Properties *)

\* An event counts as delivered only if a destination has accepted it, or its
\* loop saw that none is configured that wants it: neither a failing delivery
\* nor a crash nor what administrators do meanwhile loses one.  A failing
\* query of the configuration does, if the environment names no destination.
MarkedMeansSent ==
    \A e \in marked : \/ e \in sent \cup waived
                      \/ hiccups > 0 /\ envUrl = Nowhere

\* Draft must pass a test before activation (admin.rs): the active destination
\* has, unless it was saved while another request tested or activated its
\* predecessor.
ActiveWasTested ==
    active # NoRow => active.id \in passed \cup overtaken

\* Every event that can be delivered is in the end, while those that cannot be
\* leave room in a batch, or an event has killed a loop.
EventuallyDelivered ==
    Cardinality(Refused) < Batch =>
      \A e \in (1..MaxEvents) \ Refused :
        e <= events ~> e \in marked \/ \E l \in Loops : loops[l].at = "dead"
=============================================================================
