------------------------------- MODULE MCSpend -------------------------------
(* Two kinds of behaviours for TLC: entries with and without a virtual key,  *)
(* or only entries of OIDC users ("keyless").                                *)
EXTENDS SpendTracker

CONSTANT MaxKeyless   \* bound of the model: entries of a keyless behaviour

VARIABLE mode

MCVars == <<mode, vars>>

MCInit == Init /\ mode \in {"any", "keyless"}

MCNext ==
    /\ Next
    /\ mode = "keyless" =>
          /\ Len(rec') <= MaxKeyless
          /\ keys' = Keys
          /\ \A e \in 1..Len(rec') : rec'[e].key = NoKey
    /\ UNCHANGED mode

MCSpec == MCInit /\ [][MCNext]_MCVars /\ WF_vars(Flush)

\* Re-buffered entries are retried until they are written (mod.rs:149,
\* db/spend.rs:71): once Postgres stays up, the tracker of a gateway without
\* virtual keys is again and again without unwritten entries, bad rows and lost
\* replies included; unless more of them have come together than fit one
\* statement (db/spend.rs:102), which are then never sent.
DrainsWithoutKeys ==
    mode = "keyless" /\ <>[]dbUp =>
        []<>(Pending = {}) \/ <>[](Cardinality(Pending) > MaxRows)
=============================================================================
