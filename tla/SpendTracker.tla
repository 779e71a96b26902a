---------------------------- MODULE SpendTracker ----------------------------
(***************************************************************************)
(* The write-behind buffer of one gateway replica for request log entries  *)
(* (src/src/spend/mod.rs) and the part of Postgres it writes to.  Request  *)
(* handlers append to a bounded in-memory buffer; one background task      *)
(* takes the whole buffer, writes it in one multi-row INSERT, falls back   *)
(* to one INSERT per entry when the data is rejected, and puts back what a *)
(* transient failure left unwritten.  The buffer's mutex is held for       *)
(* single steps only, so handlers run between any two steps of the flush.  *)
(*                                                                         *)
(* An entry is identified by its position in the order of recording.       *)
(***************************************************************************)
EXTENDS Naturals, Sequences, FiniteSets

CONSTANTS
    Keys,        \* ids of virtual keys that spend_log.key_id can refer to
    NoKey,       \* key_id of a request authenticated by an OIDC token
    Cap,         \* MAX_BUFFER_SIZE
    MaxRows,     \* rows that fit one INSERT (65535 parameters, 24 per row)
    MaxRecords,  \* bound of the model: entries recorded in a behaviour
    MaxCopies    \* bound of the model: rows of one entry

ASSUME SpendAssumption ==
    /\ Cap \in Nat \ {0}
    /\ MaxRows \in Nat \ {0}
    /\ MaxRecords \in Nat
    /\ MaxCopies \in Nat
    /\ NoKey \notin Keys

VARIABLES
    rec,         \* history: attributes of every entry ever recorded, in order
    buffer,      \* SpendTracker.buffer
    batch,       \* the entries the flush task holds
    phase,       \* where the flush task is
    keys,        \* rows of virtual_keys
    dbUp,        \* whether Postgres answers
    spendLog,    \* number of spend_log rows of each entry
    evicted,     \* dropped by record() at capacity
    shed,        \* dropped by rebuffer_capacity_respecting()
    quarantined, \* dropped by the per-record fallback
    lost,        \* in memory when the process died
    unsure       \* history: entries whose INSERT committed without a reply

vars == <<rec, buffer, batch, phase, keys, dbUp, spendLog,
          evicted, shed, quarantined, lost, unsure>>

Ids == 1..MaxRecords

\* "bad": Postgres rejects the row with SQLSTATE class 22 even though record()
\* sanitized its strings (a number out of range, for instance).
Entry == [key : Keys \cup {NoKey}, bad : BOOLEAN]

Recorded == 1..Len(rec)
Elems(s) == {s[i] : i \in 1..Len(s)}
Pending == Elems(buffer) \cup Elems(batch)
Dropped == evicted \cup shed \cup quarantined \cup lost

Init ==
    /\ rec = <<>>
    /\ buffer = <<>>
    /\ batch = <<>>
    /\ phase = "idle"
    /\ keys = Keys
    /\ dbUp = TRUE
    /\ spendLog = [e \in Ids |-> 0]
    /\ evicted = {}
    /\ shed = {}
    /\ quarantined = {}
    /\ lost = {}
    /\ unsure = {}

-----------------------------------------------------------------------------
(* Request handlers *)

\* Operators named ...Faulty are variants of the definition that follows, with
\* a mistake that code could well contain; no specification uses them.

\* Faulty: one entry too many is drained.
OverflowFaulty == IF Len(buffer) >= Cap THEN Len(buffer) - Cap + 2 ELSE 0

\* record(): at capacity the oldest entries make room for the new one.
Overflow == IF Len(buffer) >= Cap THEN Len(buffer) - Cap + 1 ELSE 0

Survivors == SubSeq(buffer, Overflow + 1, Len(buffer))

Record(a) ==
    /\ Len(rec) < MaxRecords
    /\ rec' = Append(rec, a)
    /\ buffer' = Append(Survivors, Len(rec) + 1)
    /\ evicted' = evicted \cup Elems(SubSeq(buffer, 1, Overflow))
    /\ UNCHANGED <<batch, phase, keys, dbUp, spendLog, shed, quarantined,
                   lost, unsure>>

-----------------------------------------------------------------------------
(* What an INSERT of a set of rows answers.  Class 22 errors are raised    *)
(* while the parameters are read, foreign keys are checked after the rows  *)
(* are in, and a statement with too many parameters is never sent.         *)

Bad(e) == rec[e].bad
Dangling(e) == rec[e].key # NoKey /\ rec[e].key \notin keys

\* Faulty: class 22 is transient too, as it was before the fallback existed.
RejectedNeverFaulty(es) == FALSE

Rejected(es) ==
    dbUp /\ Cardinality(es) <= MaxRows /\ \E e \in es : Bad(e)

Accepted(es) ==
    dbUp /\ Cardinality(es) <= MaxRows /\ \A e \in es : ~Bad(e) /\ ~Dangling(e)

\* is_transient_db_error(): every error but those of class 22, so also the
\* foreign key violation (23503) and sqlx's refusal of too many parameters.
Transient(es) == ~Rejected(es) /\ ~Accepted(es)

Written(es) == [e \in Ids |-> IF e \in es THEN spendLog[e] + 1 ELSE spendLog[e]]

-----------------------------------------------------------------------------
(* The flush task: one tick of start_flush_loop() *)

\* flush_with_db() takes the whole buffer under the lock.
FlushTake ==
    /\ phase = "idle"
    /\ buffer # <<>>
    /\ batch' = buffer
    /\ buffer' = <<>>
    /\ phase' = "batch"
    /\ UNCHANGED <<rec, keys, dbUp, spendLog, evicted, shed, quarantined,
                   lost, unsure>>

BatchOk ==
    /\ phase = "batch"
    /\ Accepted(Elems(batch))
    /\ spendLog' = Written(Elems(batch))
    /\ batch' = <<>>
    /\ phase' = "idle"
    /\ UNCHANGED <<rec, buffer, keys, dbUp, evicted, shed, quarantined, lost,
                   unsure>>

BatchTransient ==
    /\ phase = "batch"
    /\ Transient(Elems(batch))
    /\ phase' = "rebuffer"
    /\ UNCHANGED <<rec, buffer, batch, keys, dbUp, spendLog, evicted, shed,
                   quarantined, lost, unsure>>

\* The statement commits and the connection dies before the reply: Io error.
MayLoseReply(es) == \A e \in es : spendLog[e] + 1 < MaxCopies

BatchReplyLost ==
    /\ phase = "batch"
    /\ MayLoseReply(Elems(batch))
    /\ Accepted(Elems(batch))
    /\ spendLog' = Written(Elems(batch))
    /\ unsure' = unsure \cup Elems(batch)
    /\ dbUp' = FALSE
    /\ phase' = "rebuffer"
    /\ UNCHANGED <<rec, buffer, batch, keys, evicted, shed, quarantined, lost>>

BatchRejected ==
    /\ phase = "batch"
    /\ Rejected(Elems(batch))
    /\ phase' = "records"
    /\ UNCHANGED <<rec, buffer, batch, keys, dbUp, spendLog, evicted, shed,
                   quarantined, lost, unsure>>

\* per_record_fallback(): the head of batch is the entry being inserted.
\* Faulty: the entry is re-buffered with the rest.
AfterHeadKeepsFaulty == batch' = batch /\ phase' = "rebuffer"

AfterHead ==
    /\ batch' = Tail(batch)
    /\ phase' = IF Len(batch) = 1 THEN "idle" ELSE "records"

OneOk ==
    /\ phase = "records"
    /\ Accepted({Head(batch)})
    /\ spendLog' = Written({Head(batch)})
    /\ AfterHead
    /\ UNCHANGED <<rec, buffer, keys, dbUp, evicted, shed, quarantined, lost,
                   unsure>>

OneRejected ==
    /\ phase = "records"
    /\ Rejected({Head(batch)})
    /\ quarantined' = quarantined \cup {Head(batch)}
    /\ AfterHead
    /\ UNCHANGED <<rec, buffer, keys, dbUp, spendLog, evicted, shed, lost,
                   unsure>>

\* Faulty: the pass goes on with the other entries and tries this one last.
OneTransientFaulty ==
    /\ phase = "records"
    /\ Transient({Head(batch)})
    /\ batch' = Append(Tail(batch), Head(batch))
    /\ UNCHANGED <<rec, buffer, phase, keys, dbUp, spendLog, evicted, shed,
                   quarantined, lost, unsure>>

OneTransient ==
    /\ phase = "records"
    /\ Transient({Head(batch)})
    /\ phase' = "rebuffer"
    /\ UNCHANGED <<rec, buffer, batch, keys, dbUp, spendLog, evicted, shed,
                   quarantined, lost, unsure>>

OneReplyLost ==
    /\ phase = "records"
    /\ MayLoseReply({Head(batch)})
    /\ Accepted({Head(batch)})
    /\ spendLog' = Written({Head(batch)})
    /\ unsure' = unsure \cup {Head(batch)}
    /\ dbUp' = FALSE
    /\ phase' = "rebuffer"
    /\ UNCHANGED <<rec, buffer, batch, keys, evicted, shed, quarantined, lost>>

\* rebuffer_capacity_respecting(): take(available) keeps the first ones.
Available == IF Len(buffer) >= Cap THEN 0 ELSE Cap - Len(buffer)
\* Faulty: everything is put back.
RestoredFaulty == Len(batch)

Restored == IF Available < Len(batch) THEN Available ELSE Len(batch)

\* Faulty: what handlers recorded meanwhile is overwritten.
RefilledOverwritesFaulty == SubSeq(batch, 1, Restored)

\* Faulty: the entries go back behind the newer ones.
RefilledBehindFaulty == buffer \o SubSeq(batch, 1, Restored)

Refilled == SubSeq(batch, 1, Restored) \o buffer

Rebuffer ==
    /\ phase = "rebuffer"
    /\ buffer' = Refilled
    /\ shed' = shed \cup Elems(SubSeq(batch, Restored + 1, Len(batch)))
    /\ batch' = <<>>
    /\ phase' = "idle"
    /\ UNCHANGED <<rec, keys, dbUp, spendLog, evicted, quarantined, lost,
                   unsure>>

-----------------------------------------------------------------------------
(* The environment *)

\* The process stops; nothing flushes the buffer on the way out (main.rs).
Crash ==
    /\ lost' = lost \cup Pending
    /\ buffer' = <<>>
    /\ batch' = <<>>
    /\ phase' = "idle"
    /\ UNCHANGED <<rec, keys, dbUp, spendLog, evicted, shed, quarantined,
                   unsure>>

DbFail ==
    /\ dbUp
    /\ dbUp' = FALSE
    /\ UNCHANGED <<rec, buffer, batch, phase, keys, spendLog, evicted, shed,
                   quarantined, lost, unsure>>

DbRecover ==
    /\ ~dbUp
    /\ dbUp' = TRUE
    /\ UNCHANGED <<rec, buffer, batch, phase, keys, spendLog, evicted, shed,
                   quarantined, lost, unsure>>

\* delete_key(): Postgres refuses while a spend_log row refers to the key.
DeleteKey(k) ==
    /\ dbUp
    /\ k \in keys
    /\ \A e \in Recorded : spendLog[e] > 0 => rec[e].key # k
    /\ keys' = keys \ {k}
    /\ UNCHANGED <<rec, buffer, batch, phase, dbUp, spendLog, evicted, shed,
                   quarantined, lost, unsure>>

-----------------------------------------------------------------------------

Flush ==
    \/ FlushTake
    \/ BatchOk
    \/ BatchTransient
    \/ BatchReplyLost
    \/ BatchRejected
    \/ OneOk
    \/ OneRejected
    \/ OneTransient
    \/ OneReplyLost
    \/ Rebuffer

Next ==
    \/ \E a \in Entry : Record(a)
    \/ Flush
    \/ Crash
    \/ DbFail
    \/ DbRecover
    \/ \E k \in Keys : DeleteKey(k)

Spec == Init /\ [][Next]_vars

\* The flush loop is a tokio interval: it always comes round again, and every
\* database call of it returns.  Nothing is assumed of requests or Postgres.
FairSpec == Spec /\ WF_vars(Flush)

-----------------------------------------------------------------------------
(* Properties *)

TypeOK ==
    /\ rec \in Seq(Entry) /\ Len(rec) <= MaxRecords
    /\ buffer \in Seq(Recorded)
    /\ batch \in Seq(Recorded)
    /\ phase \in {"idle", "batch", "records", "rebuffer"}
    /\ keys \subseteq Keys
    /\ dbUp \in BOOLEAN
    /\ spendLog \in [Ids -> Nat]
    /\ evicted \subseteq Recorded
    /\ shed \subseteq Recorded
    /\ quarantined \subseteq Recorded
    /\ lost \subseteq Recorded
    /\ unsure \subseteq Recorded
    /\ phase = "idle" <=> batch = <<>>

\* The memory of the tracker is bounded while the database is unreachable
\* (mod.rs:10): neither the shared buffer nor the flush task's batch ever
\* exceeds MAX_BUFFER_SIZE, whatever the order of record and re-buffer.
Bounded == Len(buffer) <= Cap /\ Len(batch) <= Cap

\* No entry vanishes between two owners: after any interleaving of handlers
\* and flush, every recorded entry is in memory, in spend_log, or counted
\* among the drops, and an entry once dropped is in memory no more.
Accounted ==
    /\ Recorded \subseteq Pending \cup Dropped \cup {e \in Ids : spendLog[e] > 0}
    /\ Pending \cap Dropped = {}

\* The order of recording survives re-buffering: what the flush task holds is
\* older than what handlers have appended since, and each part is in order.
Ascending(s) == \A i, j \in 1..Len(s) : i < j => s[i] < s[j]
InOrder == Ascending(batch \o buffer)

\* An entry is written twice, or is in spend_log while still to be written,
\* only if an INSERT of it committed without the gateway learning of it.
DuplicatesExplained ==
    \A e \in Ids : spendLog[e] + (IF e \in Pending THEN 1 ELSE 0) > 1 => e \in unsure

\* Nothing overtakes: when an entry is in spend_log, or the fallback has given up
\* on it, every older one has been dealt with before, however batches were cut
\* off in the middle and put back; but for entries of which a reply was lost,
\* which go back with the older ones.  spend_log.recorded_at is the time of the
\* INSERT, so that budgets and pages see requests in this order.
ServedInOrder ==
    \A e \in Pending, f \in Recorded :
        e < f /\ (spendLog[f] > 0 \/ f \in quarantined) => f \in unsure

\* Entries are dropped for lack of room only under load: record() evicts an
\* entry after MAX_BUFFER_SIZE newer ones, and a re-buffer sheds entries only
\* once more than MAX_BUFFER_SIZE have been recorded.
DropsOnlyUnderLoad ==
    /\ \A e \in evicted : e + Cap <= Len(rec)
    /\ shed # {} => Len(rec) > Cap

\* Re-buffered entries are retried until they are written (mod.rs:149,
\* db/spend.rs:71): once Postgres stays up, the tracker is again and again
\* without unwritten entries.
Drains == <>[]dbUp => []<>(Pending = {})

Ledger == INSTANCE SpendLedger WITH
              Ids <- Ids, accepted <- Recorded, pending <- Pending,
              rows <- spendLog, gone <- Dropped

\* The tracker implements the ledger.
ImplementsLedger == Ledger!Spec
=============================================================================
