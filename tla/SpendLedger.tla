----------------------------- MODULE SpendLedger -----------------------------
(***************************************************************************)
(* What the spend tracker promises of each request log entry, without the  *)
(* buffer, the batches and the fallback: an accepted entry is pending until *)
(* it is written or given up; a written entry that the gateway knows to be  *)
(* written, and one given up, are never taken up again.                    *)
(***************************************************************************)
EXTENDS Naturals

CONSTANT Ids

VARIABLES accepted, pending, rows, gone

lvars == <<accepted, pending, rows, gone>>

Init ==
    /\ accepted = {}
    /\ pending = {}
    /\ rows = [e \in Ids |-> 0]
    /\ gone = {}

\* A new entry comes in; others may have to make room for it.
Accept(e, out) ==
    /\ e \notin accepted
    /\ accepted' = accepted \cup {e}
    /\ pending' = (pending \ out) \cup {e}
    /\ gone' = gone \cup out
    /\ UNCHANGED rows

\* Rows of pending entries are written, all or none; "known" tells whether
\* the gateway learns of it.
Write(es, known) ==
    /\ rows' = [e \in Ids |-> IF e \in es THEN rows[e] + 1 ELSE rows[e]]
    /\ pending' = IF known THEN pending \ es ELSE pending
    /\ UNCHANGED <<accepted, gone>>

GiveUp(es) ==
    /\ pending' = pending \ es
    /\ gone' = gone \cup es
    /\ UNCHANGED <<accepted, rows>>

Next ==
    \/ \E e \in Ids : \E out \in SUBSET pending : Accept(e, out)
    \/ \E es \in SUBSET pending : \E known \in BOOLEAN : Write(es, known)
    \/ \E es \in SUBSET pending : GiveUp(es)

Spec == Init /\ [][Next]_lvars
=============================================================================
