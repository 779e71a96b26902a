------------------------- MODULE SpendTrackerProofs -------------------------
(***************************************************************************)
(* Proofs about what is spent.  First SpendTracker, for every capacity,    *)
(* batch limit and number of entries: where an entry can be (QueueInv),    *)
(* what its copies in spend_log go back to (FateInv), and that the tracker *)
(* implements SpendLedger.  Then Budget, which sums what the tracker has   *)
(* written, for every number of requests and replicas, all rows and all    *)
(* policies.                                                               *)
(***************************************************************************)
EXTENDS SpendTracker, Budget, FiniteSetTheorems, TLAPS

IInv == TypeOK /\ Bounded

-----------------------------------------------------------------------------
(* Sequences of entries *)

\* Every part of a sequence over S, and the sequence put together from parts.
LEMMA PartOfSeq ==
    ASSUME NEW S, NEW s \in Seq(S), NEW m \in Nat, m >= 1,
           NEW n \in Nat, n <= Len(s)
    PROVE  /\ SubSeq(s, m, n) \in Seq(S)
           /\ Len(SubSeq(s, m, n)) = IF m <= n THEN n - m + 1 ELSE 0
           /\ \A i \in 1..(n - m + 1) : SubSeq(s, m, n)[i] = s[m + i - 1]
  OBVIOUS

\* What record() leaves of a full buffer.
LEMMA OverflowFact ==
    ASSUME SpendAssumption, TypeOK, Bounded
    PROVE  /\ Overflow \in Nat
           /\ Overflow <= Len(buffer)
           /\ Len(buffer) - Overflow < Cap
  <1>1. Len(buffer) \in Nat /\ Cap \in Nat \ {0}
    BY DEF TypeOK, SpendAssumption
  <1> QED BY <1>1 DEF Overflow, Bounded

\* What a re-buffer puts back fits.
LEMMA RestoredFact ==
    ASSUME SpendAssumption, TypeOK, Bounded
    PROVE  /\ Restored \in Nat
           /\ Restored <= Len(batch)
           /\ Restored + Len(buffer) <= Cap
  <1>1. Len(buffer) \in Nat /\ Len(batch) \in Nat /\ Cap \in Nat \ {0}
    BY DEF TypeOK, SpendAssumption
  <1> QED BY <1>1 DEF Restored, Available, Bounded

LEMMA EmptySeq ==
    ASSUME NEW S, NEW s \in Seq(S)
    PROVE  s = <<>> <=> Len(s) = 0
  OBVIOUS

LEMMA ElemsType ==
    ASSUME NEW S, NEW s \in Seq(S)
    PROVE  Elems(s) \subseteq S
  BY DEF Elems

LEMMA WrittenType ==
    ASSUME spendLog \in [Ids -> Nat], NEW es
    PROVE  Written(es) \in [Ids -> Nat]
  BY DEF Written

-----------------------------------------------------------------------------

LEMMA InitIInv == ASSUME SpendAssumption PROVE Init => IInv
  BY DEF Init, IInv, TypeOK, Bounded, SpendAssumption,
         Recorded, Entry, Ids

LEMMA RecordIInv ==
    ASSUME SpendAssumption, IInv, NEW a \in Entry, Record(a)
    PROVE  IInv'
  <1> USE DEF IInv
  <1> DEFINE old == SubSeq(buffer, Overflow + 1, Len(buffer))
             out == SubSeq(buffer, 1, Overflow)
  <1>1. /\ rec' \in Seq(Entry)
        /\ Len(rec') = Len(rec) + 1
        /\ Len(rec') <= MaxRecords
    BY DEF Record, TypeOK, SpendAssumption
  <1>2. Recorded \subseteq Recorded' /\ Len(rec) + 1 \in Recorded'
    BY <1>1 DEF Recorded, TypeOK
  <1>3. /\ old \in Seq(Recorded)
        /\ out \in Seq(Recorded)
        /\ Len(old) < Cap
    <2>1. Overflow \in Nat /\ Overflow <= Len(buffer) /\ Len(buffer) - Overflow < Cap
      BY OverflowFact
    <2>2. buffer \in Seq(Recorded) /\ Len(buffer) \in Nat
      BY DEF TypeOK
    <2> HIDE DEF IInv
    <2>3. SubSeq(buffer, Overflow + 1, Len(buffer)) \in Seq(Recorded)
          /\ Len(SubSeq(buffer, Overflow + 1, Len(buffer)))
               = IF Overflow + 1 <= Len(buffer) THEN Len(buffer) - (Overflow + 1) + 1 ELSE 0
      BY <2>1, <2>2, PartOfSeq
    <2>4. SubSeq(buffer, 1, Overflow) \in Seq(Recorded)
      BY <2>1, <2>2, PartOfSeq
    <2>5. Cap \in Nat \ {0}
      BY DEF SpendAssumption
    <2> QED BY <2>1, <2>2, <2>3, <2>4, <2>5
  <1>4. buffer' \in Seq(Recorded') /\ Len(buffer') <= Cap
    <2>1. buffer' = Append(old, Len(rec) + 1)
      BY DEF Record, Survivors
    <2>2. old \in Seq(Recorded')
      BY <1>2, <1>3
    <2> HIDE DEF old
    <2> QED BY <1>2, <1>3, <2>1, <2>2 DEF SpendAssumption
  <1>5. evicted' \subseteq Recorded'
    <2>1. Elems(out) \subseteq Recorded
      BY <1>3, ElemsType
    <2> QED BY <1>2, <2>1 DEF Record, TypeOK
  <1>6. batch' \in Seq(Recorded')
    BY <1>2 DEF Record, TypeOK
  <1>7. TypeOK'
    BY <1>1, <1>2, <1>4, <1>5, <1>6 DEF Record, TypeOK
  <1> QED BY <1>4, <1>7 DEF Record, Bounded

LEMMA RebufferIInv ==
    ASSUME SpendAssumption, IInv, Rebuffer
    PROVE  IInv'
  <1> DEFINE back == SubSeq(batch, 1, Restored)
             out == SubSeq(batch, Restored + 1, Len(batch))
  <1>1. TypeOK /\ Bounded
    BY DEF IInv
  <1>2. Restored \in Nat /\ Restored <= Len(batch) /\ Restored + Len(buffer) <= Cap
    BY <1>1, RestoredFact
  <1>3. batch \in Seq(Recorded) /\ Len(batch) \in Nat /\ buffer \in Seq(Recorded)
    BY <1>1 DEF TypeOK
  <1>4. /\ back \in Seq(Recorded)
        /\ Len(back) = Restored
    BY <1>2, <1>3, PartOfSeq
  <1>5. out \in Seq(Recorded)
    BY <1>2, <1>3, PartOfSeq
  <1>6. Recorded' = Recorded
    BY DEF Rebuffer, Recorded
  <1>7. buffer' \in Seq(Recorded) /\ Len(buffer') <= Cap
    <2>1. buffer' = back \o buffer
      BY DEF Rebuffer, Refilled
    <2> HIDE DEF back
    <2> QED BY <1>2, <1>3, <1>4, <2>1
  <1>8. shed' \subseteq Recorded
    <2>1. Elems(out) \subseteq Recorded
      BY <1>5, ElemsType
    <2> QED BY <1>1, <2>1 DEF Rebuffer, TypeOK
  <1>9. TypeOK'
    BY <1>1, <1>6, <1>7, <1>8 DEF Rebuffer, TypeOK
  <1> QED BY <1>7, <1>9, <1>1 DEF Rebuffer, IInv, Bounded, SpendAssumption

\* The steps of the flush task that neither take nor return entries of the
\* shared buffer.
LEMMA FlushIInv ==
    ASSUME SpendAssumption, IInv, Flush
    PROVE  IInv'
  <1>0. TypeOK /\ Bounded
    BY DEF IInv
  <1>1. ASSUME Rebuffer PROVE IInv'
    BY <1>1, RebufferIInv
  <1>2. ASSUME FlushTake PROVE IInv'
    BY <1>0, <1>2 DEF FlushTake, IInv, TypeOK, Bounded, Recorded, SpendAssumption
  <1>3. ASSUME BatchTransient \/ BatchRejected \/ OneTransient PROVE IInv'
    BY <1>0, <1>3 DEF BatchTransient, BatchRejected, OneTransient, IInv, TypeOK, Bounded, Recorded
  <1>4. ASSUME BatchOk PROVE IInv'
    <2>1. spendLog' \in [Ids -> Nat]
      BY <1>0, <1>4, WrittenType DEF BatchOk, TypeOK
    <2> QED BY <1>0, <1>4, <2>1 DEF BatchOk, IInv, TypeOK, Bounded,
                                   Recorded, SpendAssumption
  <1>5. ASSUME BatchReplyLost PROVE IInv'
    <2>1. spendLog' \in [Ids -> Nat]
      BY <1>0, <1>5, WrittenType DEF BatchReplyLost, TypeOK
    <2>2. Elems(batch) \subseteq Recorded
      BY <1>0, ElemsType DEF TypeOK
    <2> QED BY <1>0, <1>5, <2>1, <2>2 DEF BatchReplyLost, IInv, TypeOK,
                                         Bounded, Recorded
  <1>6. ASSUME phase = "records"
        PROVE  /\ Head(batch) \in Recorded
               /\ AfterHead => /\ batch' \in Seq(Recorded)
                               /\ Len(batch') <= Cap
                               /\ phase' = "idle" <=> batch' = <<>>
                               /\ phase' \in {"idle", "records"}
    <2>1. batch \in Seq(Recorded) /\ batch # <<>> /\ Len(batch) <= Cap
      BY <1>0, <1>6 DEF TypeOK, Bounded
    <2>2. Head(batch) \in Recorded
      BY <2>1
    <2>3. Len(batch) \in Nat /\ Cap \in Nat
      BY <2>1 DEF SpendAssumption
    <2>4. Tail(batch) \in Seq(Recorded) /\ Len(Tail(batch)) = Len(batch) - 1
      BY <2>1
    <2>5. Tail(batch) = <<>> <=> Len(batch) = 1
      <3>1. Tail(batch) = <<>> <=> Len(Tail(batch)) = 0
        BY <2>4, EmptySeq
      <3> QED BY <2>3, <2>4, <3>1
    <2> QED BY SMTT(30), <2>1, <2>2, <2>3, <2>4, <2>5 DEF AfterHead
  <1>7. ASSUME OneOk PROVE IInv'
    <2>1. spendLog' \in [Ids -> Nat]
      BY <1>0, <1>7, WrittenType DEF OneOk, TypeOK
    <2> QED BY <1>0, <1>6, <1>7, <2>1 DEF OneOk, IInv, TypeOK, Bounded, Recorded
  <1>8. ASSUME OneRejected PROVE IInv'
    BY <1>0, <1>6, <1>8 DEF OneRejected, IInv, TypeOK, Bounded, Recorded
  <1>9. ASSUME OneReplyLost PROVE IInv'
    <2>1. spendLog' \in [Ids -> Nat]
      BY <1>0, <1>9, WrittenType DEF OneReplyLost, TypeOK
    <2> QED BY <1>0, <1>6, <1>9, <2>1 DEF OneReplyLost, IInv, TypeOK,
                                         Bounded, Recorded
  <1> QED BY <1>1, <1>2, <1>3, <1>4, <1>5, <1>7, <1>8, <1>9 DEF Flush

LEMMA EnvironmentIInv ==
    ASSUME SpendAssumption, IInv,
           Crash \/ DbFail \/ DbRecover \/ (\E k \in Keys : DeleteKey(k))
    PROVE  IInv'
  <1>0. TypeOK /\ Bounded
    BY DEF IInv
  <1>1. ASSUME Crash PROVE IInv'
    <2>1. Pending \subseteq Recorded
      BY <1>0, ElemsType DEF TypeOK, Pending
    <2> QED BY <1>0, <1>1, <2>1 DEF Crash, IInv, TypeOK, Bounded,
                                   Recorded, SpendAssumption
  <1>2. ASSUME DbFail \/ DbRecover PROVE IInv'
    BY <1>0, <1>2 DEF DbFail, DbRecover, IInv, TypeOK, Bounded, Recorded
  <1>3. ASSUME NEW k \in Keys, DeleteKey(k) PROVE IInv'
    BY <1>0, <1>3 DEF DeleteKey, IInv, TypeOK, Bounded, Recorded
  <1> QED BY <1>1, <1>2, <1>3

LEMMA StepIInv == ASSUME SpendAssumption PROVE IInv /\ [Next]_vars => IInv'
  <1> SUFFICES ASSUME IInv, [Next]_vars PROVE IInv'
    OBVIOUS
  <1>1. ASSUME NEW a \in Entry, Record(a) PROVE IInv'
    BY <1>1, RecordIInv
  <1>2. CASE Flush
    BY <1>2, FlushIInv
  <1>3. CASE Crash \/ DbFail \/ DbRecover \/ \E k \in Keys : DeleteKey(k)
    BY <1>3, EnvironmentIInv
  <1>4. CASE UNCHANGED vars
    BY <1>4 DEF vars, IInv, TypeOK, Bounded, Recorded
  <1> QED BY <1>1, <1>2, <1>3, <1>4 DEF Next

LEMMA AlwaysIInv == Spec => []IInv
  <1>1. Init => IInv
    BY InitIInv, SpendAssumption
  <1>2. IInv /\ [Next]_vars => IInv'
    BY StepIInv, SpendAssumption
  <1> QED BY <1>1, <1>2, PTL DEF Spec

\* Every variable keeps its type: in particular nothing in memory, in the
\* database or among the drops is an entry that was never recorded.
THEOREM TypeCorrect == Spec => []TypeOK
  BY AlwaysIInv, PTL DEF IInv

\* The memory bound of mod.rs:10, for every MAX_BUFFER_SIZE: no interleaving
\* of record() with the flush task's take and re-buffer exceeds it.
THEOREM MemoryBounded == Spec => []Bounded
  BY AlwaysIInv, PTL DEF IInv
-----------------------------------------------------------------------------
(* Which entries a sequence holds *)

LEMMA SeqWider ==
    ASSUME NEW S, NEW T, S \subseteq T, NEW s \in Seq(S)
    PROVE  s \in Seq(T)
  OBVIOUS

LEMMA NothingInEmpty == Elems(<<>>) = {}
  <1>1. Len(<<>>) = 0
    OBVIOUS
  <1> QED BY <1>1 DEF Elems

LEMMA ElemsAppend ==
    ASSUME NEW S, NEW s \in Seq(S), NEW x \in S
    PROVE  Elems(Append(s, x)) = Elems(s) \cup {x}
  <1>1. /\ Len(Append(s, x)) = Len(s) + 1 /\ Len(s) \in Nat
        /\ \A i \in 1..Len(s) : Append(s, x)[i] = s[i]
        /\ Append(s, x)[Len(s) + 1] = x
    OBVIOUS
  <1>2. 1..(Len(s) + 1) = 1..Len(s) \cup {Len(s) + 1}
    BY <1>1
  <1>3. PICK t : t = Append(s, x)
    OBVIOUS
  <1>4. Elems(t) \subseteq Elems(s) \cup {x}
    BY <1>1, <1>2, <1>3 DEF Elems
  <1>5. Elems(s) \cup {x} \subseteq Elems(t)
    BY <1>1, <1>2, <1>3 DEF Elems
  <1> QED BY <1>3, <1>4, <1>5

\* Where the elements of two sequences are in the one put together from them.
LEMMA ConcatFact ==
    ASSUME NEW S, NEW s \in Seq(S), NEW t \in Seq(S)
    PROVE  /\ Len(s) \in Nat /\ Len(t) \in Nat /\ Len(s \o t) = Len(s) + Len(t)
           /\ \A i \in 1..Len(s) : (s \o t)[i] = s[i]
           /\ \A i \in (Len(s) + 1)..(Len(s) + Len(t)) : (s \o t)[i] = t[i - Len(s)]
  OBVIOUS

LEMMA ElemsConcat ==
    ASSUME NEW S, NEW s \in Seq(S), NEW t \in Seq(S)
    PROVE  Elems(s \o t) = Elems(s) \cup Elems(t)
  <1>1. PICK u : u = s \o t
    OBVIOUS
  <1>2. /\ Len(u) = Len(s) + Len(t) /\ Len(s) \in Nat /\ Len(t) \in Nat
        /\ \A i \in 1..Len(s) : u[i] = s[i]
        /\ \A i \in (Len(s) + 1)..(Len(s) + Len(t)) : u[i] = t[i - Len(s)]
    BY <1>1, ConcatFact
  <1>3. ASSUME NEW j \in 1..Len(t)
        PROVE  Len(s) + j \in 1..Len(u) /\ u[Len(s) + j] = t[j]
    <2>1. Len(s) + j \in (Len(s) + 1)..(Len(s) + Len(t)) /\ (Len(s) + j) - Len(s) = j
      BY <1>2
    <2> QED BY SMTT(30), <1>2, <2>1
  <1>4. Elems(s) \subseteq Elems(u)
    BY <1>2 DEF Elems
  <1>5. Elems(t) \subseteq Elems(u)
    BY <1>3 DEF Elems
  <1>6. Elems(u) \subseteq Elems(s) \cup Elems(t)
    <2> SUFFICES ASSUME NEW i \in 1..Len(u) PROVE u[i] \in Elems(s) \cup Elems(t)
      BY DEF Elems
    <2>1. CASE i \in 1..Len(s)
      BY <1>2, <2>1 DEF Elems
    <2>2. CASE i \notin 1..Len(s)
      <3>1. i \in (Len(s) + 1)..(Len(s) + Len(t)) /\ i - Len(s) \in 1..Len(t)
        BY <1>2, <2>2
      <3> QED BY <1>2, <3>1 DEF Elems
    <2> QED BY <2>1, <2>2
  <1> QED BY <1>1, <1>4, <1>5, <1>6

\* Both parts of a sequence that is cut after n hold what it holds, and nothing
\* twice if it ascends.
LEMMA ElemsParts ==
    ASSUME NEW S \in SUBSET Nat, NEW s \in Seq(S), NEW n \in Nat, n <= Len(s)
    PROVE  /\ Elems(s) = Elems(SubSeq(s, 1, n)) \cup Elems(SubSeq(s, n + 1, Len(s)))
           /\ Ascending(s) => Elems(SubSeq(s, 1, n)) \cap Elems(SubSeq(s, n + 1, Len(s))) = {}
  <1>1. PICK a, b : a = SubSeq(s, 1, n) /\ b = SubSeq(s, n + 1, Len(s))
    OBVIOUS
  <1>2. /\ Len(a) = n /\ \A i \in 1..n : a[i] = s[i]
        /\ Len(s) \in Nat
    BY <1>1
  <1>3. Len(b) = Len(s) - n /\ \A i \in 1..(Len(s) - n) : b[i] = s[n + i]
    <2>1. /\ Len(b) = IF n + 1 <= Len(s) THEN Len(s) - (n + 1) + 1 ELSE 0
          /\ \A i \in 1..(Len(s) - (n + 1) + 1) : b[i] = s[(n + 1) + i - 1]
      BY <1>1, <1>2, PartOfSeq
    <2>2. Len(b) = Len(s) - n
      BY <1>2, <2>1
    <2>3. ASSUME NEW i \in 1..(Len(s) - n) PROVE b[i] = s[n + i]
      <3>1. i \in 1..(Len(s) - (n + 1) + 1) /\ (n + 1) + i - 1 = n + i
        BY <1>2
      <3> QED BY <2>1, <3>1
    <2> QED BY <2>2, <2>3
  <1>4. Elems(a) \subseteq Elems(s) /\ Elems(b) \subseteq Elems(s)
    <2>1. \A i \in 1..(Len(s) - n) : n + i \in 1..Len(s)
      BY <1>2
    <2>2. \A i \in 1..n : i \in 1..Len(s)
      BY <1>2
    <2>3. Elems(a) \subseteq Elems(s)
      BY <1>2, <2>2 DEF Elems
    <2>4. Elems(b) \subseteq Elems(s)
      BY <1>3, <2>1 DEF Elems
    <2> QED BY <2>3, <2>4
  <1>5. Elems(s) \subseteq Elems(a) \cup Elems(b)
    <2> SUFFICES ASSUME NEW i \in 1..Len(s) PROVE s[i] \in Elems(a) \cup Elems(b)
      BY DEF Elems
    <2>1. CASE i <= n
      <3>1. i \in 1..n
        BY <2>1
      <3> QED BY <1>2, <3>1 DEF Elems
    <2>2. CASE ~(i <= n)
      <3>1. i - n \in 1..(Len(s) - n) /\ n + (i - n) = i
        BY <1>2, <2>2
      <3>2. b[i - n] = s[i]
        BY <1>3, <3>1
      <3> QED BY <1>3, <3>1, <3>2 DEF Elems
    <2> QED BY <2>1, <2>2
  <1>6. ASSUME Ascending(s), NEW i \in 1..n, NEW j \in 1..(Len(s) - n)
        PROVE  a[i] # b[j]
    <2>1. i \in 1..Len(s) /\ n + j \in 1..Len(s) /\ i < n + j
      BY <1>2
    <2>2. s[i] < s[n + j] /\ s[i] \in Nat /\ s[n + j] \in Nat
      <3>1. \A k \in 1..Len(s) : s[k] \in S
        OBVIOUS
      <3>2. PICK m : m = n + j
        OBVIOUS
      <3> QED BY <1>6, <2>1, <3>1, <3>2 DEF Ascending
    <2>3. a[i] = s[i] /\ b[j] = s[n + j]
      BY <1>2, <1>3
    <2> QED BY <2>2, <2>3
  <1>7. ASSUME Ascending(s) PROVE Elems(a) \cap Elems(b) = {}
    BY <1>2, <1>3, <1>6, <1>7 DEF Elems
  <1> QED BY <1>1, <1>4, <1>5, <1>7

LEMMA ElemsHead ==
    ASSUME NEW S \in SUBSET Nat, NEW s \in Seq(S), s # <<>>
    PROVE  /\ Head(s) \in Elems(s)
           /\ Elems(s) = {Head(s)} \cup Elems(Tail(s))
           /\ Ascending(s) => Head(s) \notin Elems(Tail(s))
  <1>1. /\ Len(s) \in Nat \ {0} /\ Head(s) = s[1] /\ Len(Tail(s)) = Len(s) - 1
        /\ \A i \in 1..(Len(s) - 1) : Tail(s)[i] = s[i + 1]
    OBVIOUS
  <1>2. PICK t : t = Tail(s)
    OBVIOUS
  <1>3. 1 \in 1..Len(s) /\ \A i \in 1..(Len(s) - 1) : i + 1 \in 1..Len(s)
    BY <1>1
  <1>4. Elems(t) \subseteq Elems(s)
    BY <1>1, <1>2, <1>3 DEF Elems
  <1>5. Elems(s) \subseteq {s[1]} \cup Elems(t)
    <2> SUFFICES ASSUME NEW i \in 1..Len(s), i # 1 PROVE s[i] \in Elems(t)
      BY DEF Elems
    <2>1. i - 1 \in 1..(Len(s) - 1) /\ (i - 1) + 1 = i
      BY <1>1
    <2>2. t[i - 1] = s[i]
      BY <1>1, <1>2, <2>1
    <2> QED BY <1>1, <1>2, <2>1, <2>2 DEF Elems
  <1>6. ASSUME Ascending(s), NEW i \in 1..(Len(s) - 1) PROVE t[i] # s[1]
    <2>1. i + 1 \in 1..Len(s) /\ 1 < i + 1
      BY <1>1
    <2>2. s[1] < s[i + 1] /\ s[1] \in Nat /\ s[i + 1] \in Nat
      <3>1. \A k \in 1..Len(s) : s[k] \in S
        OBVIOUS
      <3>2. PICK m : m = i + 1
        OBVIOUS
      <3> QED BY <1>3, <1>6, <2>1, <3>1, <3>2 DEF Ascending
    <2> QED BY <1>1, <1>2, <2>2
  <1>7. s[1] \in Elems(s)
    BY <1>3 DEF Elems
  <1>8. Elems(s) = {s[1]} \cup Elems(t)
    BY <1>4, <1>5, <1>7
  <1>9. ASSUME Ascending(s) PROVE s[1] \notin Elems(t)
    <2>1. Len(t) = Len(s) - 1
      BY <1>1, <1>2
    <2> QED BY <1>6, <1>9, <2>1 DEF Elems
  <1> QED BY <1>1, <1>2, <1>7, <1>8, <1>9

-----------------------------------------------------------------------------
(* The order of the entries in memory *)

\* What is in memory is in the order of recording, the flush task's before the
\* buffer's; and behind each entry there is room, between it and the newest, for
\* those that follow it.
QueueInv ==
    /\ Ascending(batch) /\ Ascending(buffer)
    /\ \A i \in 1..Len(batch), j \in 1..Len(buffer) : batch[i] < buffer[j]
    /\ \A i \in 1..Len(buffer) : buffer[i] + (Len(buffer) - i) <= Len(rec)
    /\ \A i \in 1..Len(batch) : batch[i] + (Len(batch) - i) + Len(buffer) <= Len(rec)

LEMMA Lengths ==
    ASSUME SpendAssumption, IInv
    PROVE  /\ Len(rec) \in Nat /\ Len(buffer) \in Nat /\ Len(batch) \in Nat /\ Cap \in Nat \ {0}
           /\ Len(buffer) <= Cap /\ Len(batch) <= Cap
           /\ \A i \in 1..Len(buffer) : buffer[i] \in 1..Len(rec)
           /\ \A i \in 1..Len(batch) : batch[i] \in 1..Len(rec)
  BY SMTT(30) DEF IInv, TypeOK, Bounded, SpendAssumption, Recorded

LEMMA QueueRecord ==
    ASSUME SpendAssumption, IInv, QueueInv, NEW a \in Entry, Record(a)
    PROVE  QueueInv'
  <1> DEFINE n == Len(buffer) - Overflow
  <1>1. /\ Overflow \in Nat /\ Overflow <= Len(buffer)
        /\ n \in Nat
    BY OverflowFact, Lengths DEF IInv
  <1>2. PICK old : old = SubSeq(buffer, Overflow + 1, Len(buffer))
    OBVIOUS
  <1>3. /\ old \in Seq(Recorded) /\ Len(old) = n
        /\ \A i \in 1..n : old[i] = buffer[Overflow + i]
    <2>1. buffer \in Seq(Recorded) /\ Len(buffer) \in Nat
      BY DEF IInv, TypeOK
    <2>2. /\ old \in Seq(Recorded)
          /\ Len(old) = IF Overflow + 1 <= Len(buffer) THEN Len(buffer) - (Overflow + 1) + 1 ELSE 0
          /\ \A i \in 1..(Len(buffer) - (Overflow + 1) + 1) :
               old[i] = buffer[(Overflow + 1) + i - 1]
      BY <1>1, <1>2, <2>1, PartOfSeq
    <2>3. Len(old) = n
      BY <1>1, <2>1, <2>2
    <2>4. ASSUME NEW i \in 1..n PROVE old[i] = buffer[Overflow + i]
      <3>1. i \in 1..(Len(buffer) - (Overflow + 1) + 1)
            /\ (Overflow + 1) + i - 1 = Overflow + i
        BY <1>1, <2>1
      <3> QED BY <2>2, <3>1
    <2> QED BY <2>2, <2>3, <2>4
  <1>4. PICK new : new = Append(old, Len(rec) + 1)
    OBVIOUS
  <1>5. /\ Len(new) = n + 1
        /\ \A i \in 1..n : new[i] = buffer[Overflow + i]
        /\ new[n + 1] = Len(rec) + 1
    <2>1. /\ Len(new) = Len(old) + 1
          /\ \A i \in 1..Len(old) : new[i] = old[i]
          /\ new[Len(old) + 1] = Len(rec) + 1
      BY <1>3, <1>4
    <2> QED BY <1>3, <2>1
  <1>6. /\ buffer' = new /\ batch' = batch /\ Len(rec') = Len(rec) + 1
    BY <1>2, <1>4 DEF Record, Survivors, IInv, TypeOK
  <1>7. \A i \in 1..n : Overflow + i \in 1..Len(buffer)
    BY <1>1, Lengths
  <1> HIDE DEF n
  <1>8. Ascending(new)
    <2> SUFFICES ASSUME NEW i \in 1..(n + 1), NEW j \in 1..(n + 1), i < j
                 PROVE  new[i] < new[j]
      BY <1>5 DEF Ascending
    <2>1. i \in 1..n /\ new[i] = buffer[Overflow + i] /\ Overflow + i \in 1..Len(buffer)
      BY <1>1, <1>5, <1>7
    <2>2. CASE j \in 1..n
      <3>1. Overflow + j \in 1..Len(buffer) /\ Overflow + i < Overflow + j
        BY <1>1, <1>7, <2>2
      <3> QED BY <1>5, <2>1, <2>2, <3>1 DEF QueueInv, Ascending
    <2>3. CASE j = n + 1
      <3>1. new[i] \in 1..Len(rec)
        BY <2>1, Lengths
      <3> QED BY <1>5, <2>3, <3>1, Lengths
    <2> QED BY <1>1, <2>2, <2>3
  <1>9. ASSUME NEW i \in 1..Len(batch), NEW j \in 1..(n + 1) PROVE batch[i] < new[j]
    <2>1. CASE j \in 1..n
      BY <1>5, <1>7, <2>1 DEF QueueInv
    <2>2. CASE j = n + 1
      <3>1. batch[i] \in 1..Len(rec)
        BY Lengths
      <3> QED BY <1>5, <2>2, <3>1, Lengths
    <2> QED BY <1>1, <2>1, <2>2
  <1>10. ASSUME NEW i \in 1..(n + 1)
         PROVE  new[i] + ((n + 1) - i) <= Len(rec) + 1
    <2>1. CASE i \in 1..n
      <3>1. PICK j \in 1..Len(buffer) : j = Overflow + i
        BY <1>7, <2>1
      <3>2. buffer[j] + (Len(buffer) - j) <= Len(rec) /\ buffer[j] \in Nat
        BY Lengths DEF QueueInv
      <3>3. new[i] = buffer[j]
        BY <1>5, <2>1, <3>1
      <3>4. (n + 1) - i = (Len(buffer) - j) + 1
        BY <1>1, <2>1, <3>1, Lengths DEF n
      <3>5. PICK x : x = buffer[j]
        OBVIOUS
      <3> QED BY <3>2, <3>3, <3>4, <3>5, Lengths
    <2>2. CASE i = n + 1
      BY <1>1, <1>5, <2>2, Lengths
    <2> QED BY <1>1, <2>1, <2>2
  <1>11. ASSUME NEW i \in 1..Len(batch)
         PROVE  batch[i] + (Len(batch) - i) + (n + 1) <= Len(rec) + 1
    <2>1. batch[i] + (Len(batch) - i) + Len(buffer) <= Len(rec) /\ batch[i] \in Nat
      BY Lengths DEF QueueInv
    <2>2. n <= Len(buffer)
      BY <1>1, Lengths DEF n
    <2>3. PICK x : x = batch[i]
      OBVIOUS
    <2> QED BY SMTT(30), <1>1, <2>1, <2>2, <2>3, Lengths
  <1> QED BY <1>5, <1>6, <1>8, <1>9, <1>10, <1>11 DEF QueueInv
\* The flush task goes on with the next entry.
LEMMA QueueNextHead ==
    ASSUME SpendAssumption, IInv, QueueInv, batch # <<>>, batch' = Tail(batch),
           buffer' = buffer, rec' = rec
    PROVE  QueueInv'
  <1>1. /\ Len(batch) \in Nat \ {0} /\ Len(batch') = Len(batch) - 1
        /\ \A i \in 1..(Len(batch) - 1) : batch'[i] = batch[i + 1]
    BY DEF IInv, TypeOK
  <1>2. \A i \in 1..(Len(batch) - 1) : i + 1 \in 1..Len(batch)
    BY <1>1
  <1>3. Ascending(batch')
    <2> SUFFICES ASSUME NEW i \in 1..Len(batch'), NEW j \in 1..Len(batch'), i < j
                 PROVE  batch'[i] < batch'[j]
      BY DEF Ascending
    <2>1. i + 1 \in 1..Len(batch) /\ j + 1 \in 1..Len(batch) /\ i + 1 < j + 1
      BY <1>1
    <2> QED BY <1>1, <2>1 DEF QueueInv, Ascending
  <1>4. ASSUME NEW i \in 1..Len(batch'), NEW j \in 1..Len(buffer)
        PROVE  batch'[i] < buffer[j]
    BY <1>1, <1>2 DEF QueueInv
  <1>5. ASSUME NEW i \in 1..Len(batch')
        PROVE  batch'[i] + (Len(batch') - i) + Len(buffer) <= Len(rec)
    <2>1. PICK j \in 1..Len(batch) : j = i + 1 /\ batch'[i] = batch[j]
      BY <1>1, <1>2
    <2>2. batch[j] + (Len(batch) - j) + Len(buffer) <= Len(rec)
      BY DEF QueueInv
    <2>3. Len(batch') - i = Len(batch) - j
      BY <1>1, <2>1
    <2> QED BY <2>1, <2>2, <2>3
  <1> QED BY <1>3, <1>4, <1>5 DEF QueueInv, Ascending

LEMMA QueueRebuffer ==
    ASSUME SpendAssumption, IInv, QueueInv, Rebuffer
    PROVE  QueueInv'
  <1>1. /\ Restored \in Nat /\ Restored <= Len(batch)
        /\ batch \in Seq(Recorded) /\ buffer \in Seq(Recorded)
    BY RestoredFact DEF IInv, TypeOK
  <1>2. PICK n, back : n = Restored /\ back = SubSeq(batch, 1, n)
    OBVIOUS
  <1>3. n \in Nat /\ n <= Len(batch) /\ Len(batch) \in Nat /\ Len(buffer) \in Nat
    BY <1>1, <1>2
  <1>4. /\ back \in Seq(Recorded) /\ Len(back) = n
        /\ \A i \in 1..n : back[i] = batch[i]
    BY <1>1, <1>2, <1>3
  <1>5. PICK new : new = back \o buffer
    OBVIOUS
  <1>6. /\ Len(new) = n + Len(buffer)
        /\ \A i \in 1..n : new[i] = batch[i]
        /\ \A i \in (n + 1)..(n + Len(buffer)) : new[i] = buffer[i - n]
    <2>1. /\ Len(back \o buffer) = Len(back) + Len(buffer)
          /\ \A i \in 1..Len(back) : (back \o buffer)[i] = back[i]
          /\ \A i \in (Len(back) + 1)..(Len(back) + Len(buffer)) :
               (back \o buffer)[i] = buffer[i - Len(back)]
      BY ZenonT(40), <1>1, <1>4, ConcatFact
    <2> QED BY <1>4, <1>5, <2>1
  <1>7. buffer' = new /\ batch' = <<>> /\ rec' = rec
    BY <1>2, <1>5 DEF Rebuffer, Refilled
  <1>8. /\ \A i \in 1..n : i \in 1..Len(batch)
        /\ \A i \in (n + 1)..(n + Len(buffer)) : i - n \in 1..Len(buffer)
        /\ \A i \in 1..Len(new) : i \in 1..n \/ i \in (n + 1)..(n + Len(buffer))
    BY <1>3, <1>6
  <1>9. Ascending(new)
    <2> SUFFICES ASSUME NEW i \in 1..Len(new), NEW j \in 1..Len(new), i < j
                 PROVE  new[i] < new[j]
      BY DEF Ascending
    <2>1. CASE i \in 1..n /\ j \in 1..n
      BY <1>6, <1>8, <2>1 DEF QueueInv, Ascending
    <2>2. CASE i \in 1..n /\ j \in (n + 1)..(n + Len(buffer))
      BY <1>6, <1>8, <2>2 DEF QueueInv
    <2>3. CASE i \in (n + 1)..(n + Len(buffer)) /\ j \in (n + 1)..(n + Len(buffer))
      <3>1. PICK k \in 1..Len(buffer), m \in 1..Len(buffer) : k = i - n /\ m = j - n
        BY <1>8, <2>3
      <3>2. k < m
        BY <1>3, <2>3, <3>1
      <3>3. new[i] = buffer[k] /\ new[j] = buffer[m]
        BY <1>6, <2>3, <3>1
      <3> QED BY <3>2, <3>3 DEF QueueInv, Ascending
    <2>4. ~(i \in (n + 1)..(n + Len(buffer)) /\ j \in 1..n)
      BY <1>3
    <2> QED BY <1>8, <2>1, <2>2, <2>3, <2>4
  <1>10. ASSUME NEW i \in 1..Len(new)
         PROVE  new[i] + (Len(new) - i) <= Len(rec)
    <2>1. CASE i \in 1..n
      <3>1. PICK x : x = batch[i]
        OBVIOUS
      <3>2. x + (Len(batch) - i) + Len(buffer) <= Len(rec) /\ x \in Nat /\ new[i] = x
        BY <1>6, <1>8, <2>1, <3>1, Lengths DEF QueueInv
      <3> QED BY <1>3, <1>6, <2>1, <3>2, Lengths
    <2>2. CASE i \in (n + 1)..(n + Len(buffer))
      <3>1. PICK k \in 1..Len(buffer) : k = i - n
        BY <1>8, <2>2
      <3>2. PICK x : x = buffer[k]
        OBVIOUS
      <3>3. x + (Len(buffer) - k) <= Len(rec) /\ x \in Nat /\ new[i] = x
        BY <1>6, <2>2, <3>1, <3>2, Lengths DEF QueueInv
      <3> QED BY <1>3, <1>6, <3>1, <3>3
    <2> QED BY <1>8, <2>1, <2>2
  <1>11. Len(batch') = 0
    BY <1>7
  <1> QED BY <1>7, <1>9, <1>10, <1>11 DEF QueueInv, Ascending

LEMMA QueueStep ==
    ASSUME SpendAssumption, IInv, QueueInv, [Next]_vars
    PROVE  QueueInv'
  <1>1. ASSUME NEW a \in Entry, Record(a) PROVE QueueInv'
    BY <1>1, QueueRecord
  <1>2. CASE FlushTake
    <2>1. batch' = buffer /\ buffer' = <<>> /\ rec' = rec
      BY <1>2 DEF FlushTake
    <2>2. Len(buffer') = 0
      BY <2>1
    <2>3. ASSUME NEW i \in 1..Len(buffer)
          PROVE  buffer[i] + (Len(buffer) - i) + 0 <= Len(rec)
      <3>1. PICK x : x = buffer[i]
        OBVIOUS
      <3>2. x + (Len(buffer) - i) <= Len(rec) /\ x \in Nat
        BY <3>1, Lengths DEF QueueInv
      <3> QED BY <3>1, <3>2, Lengths
    <2> QED BY <2>1, <2>2, <2>3 DEF QueueInv, Ascending
  <1>3. CASE BatchOk
    <2>1. batch' = <<>> /\ buffer' = buffer /\ rec' = rec
      BY <1>3 DEF BatchOk
    <2>2. Len(batch') = 0
      BY <2>1
    <2> QED BY <2>1, <2>2 DEF QueueInv, Ascending
  <1>4. CASE OneOk \/ OneRejected
    <2>1. batch # <<>> /\ batch' = Tail(batch) /\ buffer' = buffer /\ rec' = rec
      BY <1>4 DEF OneOk, OneRejected, AfterHead, IInv, TypeOK
    <2> QED BY <2>1, QueueNextHead
  <1>5. CASE Rebuffer
    BY <1>5, QueueRebuffer
  <1>6. CASE Crash
    <2>1. batch' = <<>> /\ buffer' = <<>> /\ rec' = rec
      BY <1>6 DEF Crash
    <2>2. Len(batch') = 0 /\ Len(buffer') = 0
      BY <2>1
    <2> QED BY <2>1, <2>2 DEF QueueInv, Ascending
  <1>7. CASE \/ BatchTransient \/ BatchReplyLost \/ BatchRejected \/ OneTransient
             \/ OneReplyLost \/ DbFail \/ DbRecover \/ (\E k \in Keys : DeleteKey(k))
             \/ UNCHANGED vars
    <2>1. batch' = batch /\ buffer' = buffer /\ rec' = rec
      BY <1>7 DEF BatchTransient, BatchReplyLost, BatchRejected, OneTransient,
                  OneReplyLost, DbFail, DbRecover, DeleteKey, vars
    <2> QED BY <2>1 DEF QueueInv, Ascending
  <1> QED BY <1>1, <1>2, <1>3, <1>4, <1>5, <1>6, <1>7 DEF Next, Flush

\* The order of recording survives re-buffering, for all capacities: what the
\* flush task holds is older than what handlers have appended since.
LEMMA QueueOrder ==
    ASSUME SpendAssumption, IInv, QueueInv
    PROVE  InOrder
  <1>1. batch \in Seq(Recorded) /\ buffer \in Seq(Recorded)
    BY DEF IInv, TypeOK
  <1>2. PICK q : q = batch \o buffer
    OBVIOUS
  <1>3. PICK n, k : n = Len(batch) /\ k = Len(buffer)
    OBVIOUS
  <1>4. /\ n \in Nat /\ k \in Nat /\ Len(q) = n + k
        /\ \A i \in 1..n : q[i] = batch[i]
        /\ \A i \in (n + 1)..(n + k) : q[i] = buffer[i - n]
    BY <1>1, <1>2, <1>3, ConcatFact
  <1> SUFFICES ASSUME NEW i \in 1..Len(q), NEW j \in 1..Len(q), i < j
               PROVE  q[i] < q[j]
    BY <1>2 DEF InOrder, Ascending
  <1>5. CASE i \in 1..n /\ j \in 1..n
    BY <1>3, <1>4, <1>5 DEF QueueInv, Ascending
  <1>6. CASE i \in 1..n /\ j \in (n + 1)..(n + k)
    <2>1. j - n \in 1..k
      BY <1>4, <1>6
    <2> QED BY <1>3, <1>4, <1>6, <2>1 DEF QueueInv
  <1>7. CASE i \in (n + 1)..(n + k) /\ j \in (n + 1)..(n + k)
    <2>1. PICK c \in 1..k, d \in 1..k : c = i - n /\ d = j - n
      BY SMTT(30), <1>4, <1>7
    <2>2. c < d
      BY <1>4, <1>7, <2>1
    <2> QED BY <1>3, <1>4, <1>7, <2>1, <2>2 DEF QueueInv, Ascending
  <1>8. /\ i \in 1..n \/ i \in (n + 1)..(n + k)
        /\ j \in 1..n \/ j \in (n + 1)..(n + k)
        /\ ~(i \in (n + 1)..(n + k) /\ j \in 1..n)
    BY <1>4
  <1> QED BY <1>5, <1>6, <1>7, <1>8
-----------------------------------------------------------------------------
(* What becomes of entries: every step is one of the ledger *)

\* No entry is in memory twice.
LEMMA ApartInMemory ==
    ASSUME SpendAssumption, IInv, QueueInv
    PROVE  Elems(batch) \cap Elems(buffer) = {}
  <1>1. ASSUME NEW i \in 1..Len(batch), NEW j \in 1..Len(buffer)
        PROVE  batch[i] # buffer[j]
    <2>1. batch[i] < buffer[j] /\ batch[i] \in Nat /\ buffer[j] \in Nat
      BY SMTT(30), Lengths DEF QueueInv
    <2> QED BY <2>1
  <1> QED BY <1>1 DEF Elems

LEMMA RecordAccepts ==
    ASSUME SpendAssumption, IInv, QueueInv, NEW a \in Entry, Record(a)
    PROVE  \E out \in SUBSET Pending :
             /\ Ledger!Accept(Len(rec) + 1, out)
             /\ evicted' = evicted \cup out
             /\ \A e \in out : e + Cap <= Len(rec')
  <1>1. /\ Overflow \in Nat /\ Overflow <= Len(buffer)
        /\ buffer \in Seq(Recorded) /\ Recorded \in SUBSET Nat
    BY OverflowFact DEF IInv, TypeOK, Recorded
  <1>2. PICK gone, old : /\ gone = SubSeq(buffer, 1, Overflow)
                         /\ old = SubSeq(buffer, Overflow + 1, Len(buffer))
    OBVIOUS
  <1>3. /\ Elems(buffer) = Elems(gone) \cup Elems(old)
        /\ Elems(gone) \cap Elems(old) = {}
    BY <1>1, <1>2, ElemsParts DEF QueueInv
  <1>4. /\ rec' = Append(rec, a) /\ buffer' = Append(old, Len(rec) + 1)
        /\ batch' = batch /\ evicted' = evicted \cup Elems(gone)
        /\ UNCHANGED <<spendLog, shed, quarantined, lost>>
    BY <1>2 DEF Record, Survivors
  <1>5. Elems(buffer') = Elems(old) \cup {Len(rec) + 1}
    <2>1. old \in Seq(Nat)
      <3>1. old \in Seq(Recorded)
        BY <1>1, <1>2, PartOfSeq, Lengths
      <3> QED BY <1>1, <3>1, SeqWider
    <2> QED BY <1>4, <2>1, ElemsAppend, Lengths
  <1>6. Elems(gone) \in SUBSET Pending
    BY <1>3 DEF Pending
  <1>7. Pending' = (Pending \ Elems(gone)) \cup {Len(rec) + 1}
    BY <1>3, <1>4, <1>5, ApartInMemory DEF Pending
  <1>8. Len(rec') = Len(rec) + 1 /\ Len(rec) \in Nat
    BY <1>4 DEF IInv, TypeOK
  <1>9. Recorded' = Recorded \cup {Len(rec) + 1} /\ Len(rec) + 1 \notin Recorded
    BY <1>8 DEF Recorded
  <1>10. Dropped' = Dropped \cup Elems(gone)
    BY <1>4 DEF Dropped
  <1>11. ASSUME NEW e \in Elems(gone) PROVE e + Cap <= Len(rec')
    <2>1. Len(gone) = Overflow /\ \A i \in 1..Overflow : gone[i] = buffer[i]
      BY <1>1, <1>2
    <2>2. PICK i \in 1..Overflow : e = buffer[i]
      BY <2>1 DEF Elems
    <2>3. i = 1 /\ Len(buffer) = Cap
      BY <2>2, Lengths DEF Overflow
    <2>4. buffer[1] + (Len(buffer) - 1) <= Len(rec) /\ buffer[1] \in Nat
      BY <2>3, Lengths DEF QueueInv
    <2>5. PICK x : x = buffer[1]
      OBVIOUS
    <2> QED BY <1>8, <2>2, <2>3, <2>4, <2>5, Lengths
  <1> QED BY <1>4, <1>6, <1>7, <1>9, <1>10, <1>11 DEF Ledger!Accept

LEMMA RebufferGivesUp ==
    ASSUME SpendAssumption, IInv, QueueInv, Rebuffer
    PROVE  \E out \in SUBSET Pending :
             /\ Ledger!GiveUp(out)
             /\ shed' = shed \cup out
             /\ out # {} => Len(rec) > Cap
  <1>1. /\ Restored \in Nat /\ Restored <= Len(batch)
        /\ batch \in Seq(Recorded) /\ buffer \in Seq(Recorded) /\ Recorded \in SUBSET Nat
    BY RestoredFact DEF IInv, TypeOK, Recorded
  <1>2. PICK back, out : /\ back = SubSeq(batch, 1, Restored)
                         /\ out = SubSeq(batch, Restored + 1, Len(batch))
    OBVIOUS
  <1>3. /\ Elems(batch) = Elems(back) \cup Elems(out)
        /\ Elems(back) \cap Elems(out) = {}
    BY <1>1, <1>2, ElemsParts DEF QueueInv
  <1>4. /\ buffer' = back \o buffer /\ batch' = <<>> /\ shed' = shed \cup Elems(out)
        /\ UNCHANGED <<rec, spendLog, evicted, quarantined, lost>>
    BY <1>2 DEF Rebuffer, Refilled
  <1>5. Elems(buffer') = Elems(back) \cup Elems(buffer) /\ Elems(batch') = {}
    <2>1. back \in Seq(Recorded)
      BY <1>1, <1>2
    <2>2. Elems(buffer') = Elems(back) \cup Elems(buffer)
      BY <1>1, <1>4, <2>1, ElemsConcat
    <2> QED BY <1>4, <2>2, NothingInEmpty
  <1>6. Elems(out) \in SUBSET Pending
    BY <1>3 DEF Pending
  <1>7. Pending' = Pending \ Elems(out)
    BY <1>3, <1>5, ApartInMemory DEF Pending
  <1>8. Recorded' = Recorded /\ Dropped' = Dropped \cup Elems(out)
    BY <1>4 DEF Dropped, Recorded
  <1>9. ASSUME Elems(out) # {} PROVE Len(rec) > Cap
    <2>1. Restored < Len(batch)
      <3>1. CASE Restored = Len(batch)
        <4>1. out \in Seq(Recorded) /\ Len(out) = 0
          BY <1>1, <1>2, <3>1, PartOfSeq, Lengths
        <4> QED BY <1>9, <4>1 DEF Elems
      <3> QED BY <1>1, <3>1, Lengths
    <2>2. Len(batch) + Len(buffer) > Cap
      BY <2>1, Lengths DEF Restored, Available
    <2>3. PICK x : x = batch[1]
      OBVIOUS
    <2>4. x + (Len(batch) - 1) + Len(buffer) <= Len(rec) /\ x \in Nat \ {0}
      BY <1>1, <2>1, <2>3, Lengths DEF QueueInv
    <2> QED BY <2>2, <2>4, Lengths
  <1> QED BY <1>4, <1>6, <1>7, <1>8, <1>9 DEF Ledger!GiveUp

\* The entry that the fallback inserts.
LEMMA HeadLeaves ==
    ASSUME SpendAssumption, IInv, QueueInv, phase = "records"
    PROVE  /\ Head(batch) \in Pending /\ Head(batch) \in Recorded
           /\ AfterHead /\ buffer' = buffer => Pending' = Pending \ {Head(batch)}
  <1>1. /\ batch \in Seq(Recorded) /\ batch # <<>> /\ Recorded \in SUBSET Nat
    BY DEF IInv, TypeOK, Recorded
  <1>2. /\ Head(batch) \in Elems(batch)
        /\ Elems(batch) = {Head(batch)} \cup Elems(Tail(batch))
        /\ Head(batch) \notin Elems(Tail(batch))
    BY <1>1, ElemsHead DEF QueueInv
  <1>3. Head(batch) \in Recorded
    BY <1>1, <1>2, ElemsType
  <1> QED BY <1>2, <1>3, ApartInMemory DEF Pending, AfterHead

LEMMA BatchLeaves ==
    ASSUME SpendAssumption, IInv, QueueInv
    PROVE  /\ Elems(batch) \in SUBSET Pending
           /\ batch' = <<>> /\ buffer' = buffer => Pending' = Pending \ Elems(batch)
  BY ApartInMemory, NothingInEmpty DEF Pending

-----------------------------------------------------------------------------

\* What the fate of every entry comes to.
FateInv ==
    /\ Accounted
    /\ DuplicatesExplained
    /\ ServedInOrder
    /\ DropsOnlyUnderLoad
    /\ \A e \in Ids \ Recorded : spendLog[e] = 0

SpendInv == IInv /\ QueueInv /\ FateInv

LEMMA SpendInvInit == ASSUME SpendAssumption PROVE Init => SpendInv
  <1> SUFFICES ASSUME Init PROVE SpendInv
    OBVIOUS
  <1>1. IInv
    BY InitIInv
  <1>2. Len(buffer) = 0 /\ Len(batch) = 0 /\ Len(rec) = 0
    BY DEF Init
  <1>3. QueueInv
    BY <1>2 DEF QueueInv, Ascending
  <1>4. Elems(buffer) = {} /\ Elems(batch) = {} /\ Recorded = {}
    BY <1>2 DEF Elems, Recorded
  <1>5. FateInv
    BY <1>4 DEF Init, FateInv, Accounted, DuplicatesExplained, ServedInOrder,
                DropsOnlyUnderLoad, Pending, Dropped
  <1> QED BY <1>1, <1>3, <1>5 DEF SpendInv

\* Accounts are kept by every step of the ledger.
LEMMA LedgerAccounts ==
    ASSUME IInv, IInv', Accounted, [Ledger!Next]_(Ledger!lvars)
    PROVE  Accounted'
  <1>0. /\ spendLog \in [Ids -> Nat] /\ Dropped \subseteq Recorded
        /\ Recorded \subseteq Pending \cup Dropped \cup {e \in Ids : spendLog[e] > 0}
        /\ Pending \cap Dropped = {}
    BY DEF IInv, TypeOK, Dropped, Accounted
  <1>1. ASSUME NEW e \in Ids, NEW out \in SUBSET Pending, Ledger!Accept(e, out)
        PROVE  Accounted'
    <2>1. /\ Recorded' = Recorded \cup {e} /\ e \notin Recorded /\ spendLog' = spendLog
          /\ Pending' = (Pending \ out) \cup {e} /\ Dropped' = Dropped \cup out
      BY <1>1 DEF Ledger!Accept
    <2>2. Recorded' \subseteq Pending' \cup Dropped' \cup {x \in Ids : spendLog[x] > 0}
      BY <1>0, <2>1
    <2>3. Pending' \cap Dropped' = {}
      <3>1. Pending \subseteq Recorded
        BY ElemsType DEF IInv, TypeOK, Pending
      <3> QED BY <1>0, <2>1, <3>1
    <2> QED BY <2>1, <2>2, <2>3 DEF Accounted
  <1>2. ASSUME NEW es \in SUBSET Pending, NEW known \in BOOLEAN, Ledger!Write(es, known)
        PROVE  Accounted'
    <2>1. ASSUME NEW e \in Ids
          PROVE  /\ spendLog[e] > 0 => spendLog'[e] > 0
                 /\ e \in es => spendLog'[e] > 0
      BY <1>0, <1>2 DEF Ledger!Write
    <2>2. /\ Recorded' = Recorded /\ Dropped' = Dropped
          /\ Pending' = Pending \/ Pending' = Pending \ es
      BY <1>2 DEF Ledger!Write
    <2>3. Recorded \subseteq Ids
      <3>1. Len(rec) <= MaxRecords /\ Len(rec) \in Nat /\ MaxRecords \in Nat
        BY SpendAssumption DEF IInv, TypeOK
      <3> QED BY <3>1 DEF Recorded, Ids
    <2> QED BY <1>0, <2>1, <2>2, <2>3 DEF Accounted
  <1>3. ASSUME NEW es \in SUBSET Pending, Ledger!GiveUp(es)
        PROVE  Accounted'
    BY <1>0, <1>3 DEF Accounted, Ledger!GiveUp
  <1>4. CASE UNCHANGED Ledger!lvars
    BY <1>4 DEF Accounted, Ledger!lvars
  <1> QED BY <1>1, <1>2, <1>3, <1>4 DEF Ledger!Next
\* What the steps of the tracker do to entries, besides what they do as steps
\* of the ledger.
LEMMA LedgerStep ==
    ASSUME SpendAssumption, IInv, QueueInv, [Next]_vars
    PROVE  [Ledger!Next]_(Ledger!lvars)
  <1>0. /\ phase = "records" => Head(batch) \in Pending
        /\ Elems(batch) \in SUBSET Pending
    BY HeadLeaves, BatchLeaves
  <1>1. ASSUME NEW a \in Entry, Record(a) PROVE Ledger!Next
    <2>1. Len(rec) + 1 \in Ids
      BY <1>1, Lengths, SpendAssumption DEF Record, Ids
    <2> QED BY <1>1, <2>1, RecordAccepts DEF Ledger!Next
  <1>2. CASE Rebuffer
    BY <1>2, RebufferGivesUp DEF Ledger!Next
  <1>3. CASE BatchOk
    <2>1. Ledger!Write(Elems(batch), TRUE)
      BY <1>3, BatchLeaves DEF BatchOk, Written, Ledger!Write, Recorded, Dropped
    <2> QED BY <1>0, <2>1 DEF Ledger!Next
  <1>4. CASE BatchReplyLost
    <2>1. Ledger!Write(Elems(batch), FALSE)
      BY <1>4 DEF BatchReplyLost, Written, Ledger!Write, Recorded, Dropped, Pending
    <2> QED BY <1>0, <2>1 DEF Ledger!Next
  <1>5. CASE OneOk
    <2>1. Ledger!Write({Head(batch)}, TRUE)
      BY <1>5, HeadLeaves DEF OneOk, Written, Ledger!Write, Recorded, Dropped
    <2>2. {Head(batch)} \in SUBSET Pending
      BY <1>0, <1>5 DEF OneOk
    <2> QED BY <2>1, <2>2 DEF Ledger!Next
  <1>6. CASE OneReplyLost
    <2>1. Ledger!Write({Head(batch)}, FALSE)
      BY <1>6 DEF OneReplyLost, Written, Ledger!Write, Recorded, Dropped, Pending
    <2>2. {Head(batch)} \in SUBSET Pending
      BY <1>0, <1>6 DEF OneReplyLost
    <2> QED BY <2>1, <2>2 DEF Ledger!Next
  <1>7. CASE OneRejected
    <2>1. Pending' = Pending \ {Head(batch)} /\ Dropped' = Dropped \cup {Head(batch)}
      BY <1>7, HeadLeaves DEF OneRejected, Dropped
    <2>2. Ledger!GiveUp({Head(batch)})
      BY <1>7, <2>1 DEF OneRejected, Ledger!GiveUp, Recorded
    <2>3. {Head(batch)} \in SUBSET Pending
      BY <1>0, <1>7 DEF OneRejected
    <2> QED BY <2>2, <2>3 DEF Ledger!Next
  <1>8. CASE Crash
    <2>1. Pending' = {} /\ Dropped' = Dropped \cup Pending
      BY <1>8, NothingInEmpty DEF Crash, Pending, Dropped
    <2>2. Ledger!GiveUp(Pending)
      BY <1>8, <2>1 DEF Crash, Ledger!GiveUp, Recorded
    <2> QED BY <2>2 DEF Ledger!Next
  <1>9. CASE FlushTake
    <2>1. Pending' = Pending
      <3>1. Elems(batch) = {}
        BY <1>9, NothingInEmpty DEF FlushTake, IInv, TypeOK
      <3> QED BY <1>9, <3>1, NothingInEmpty DEF FlushTake, Pending
    <2> QED BY <1>9, <2>1 DEF FlushTake, Ledger!lvars, Recorded, Dropped
  <1>10. CASE \/ BatchTransient \/ BatchRejected \/ OneTransient \/ DbFail \/ DbRecover
              \/ (\E k \in Keys : DeleteKey(k)) \/ UNCHANGED vars
    BY <1>10 DEF BatchTransient, BatchRejected, OneTransient, DbFail, DbRecover, DeleteKey,
                 vars, Ledger!lvars, Recorded, Dropped, Pending
  <1> QED BY <1>1, <1>2, <1>3, <1>4, <1>5, <1>6, <1>7, <1>8, <1>9, <1>10 DEF Next, Flush

\* Rows of an entry beyond the first are there for an entry in `unsure'.
LEMMA Unduplicated ==
    ASSUME SpendAssumption, IInv, QueueInv, FateInv, [Next]_vars
    PROVE  DuplicatesExplained'
  <1> SUFFICES ASSUME NEW e \in Ids,
                      spendLog'[e] + (IF e \in Pending' THEN 1 ELSE 0) > 1
               PROVE  e \in unsure'
    BY DEF DuplicatesExplained
  <1>0. /\ spendLog[e] \in Nat
        /\ spendLog[e] + (IF e \in Pending THEN 1 ELSE 0) > 1 => e \in unsure
        /\ e \notin Recorded => spendLog[e] = 0
    BY DEF IInv, TypeOK, FateInv, DuplicatesExplained
  <1>1. ASSUME NEW a \in Entry, Record(a) PROVE e \in unsure'
    <2>1. PICK out \in SUBSET Pending : Ledger!Accept(Len(rec) + 1, out)
      BY <1>1, RecordAccepts
    <2>2. /\ Pending' \subseteq Pending \cup {Len(rec) + 1} /\ Len(rec) + 1 \notin Recorded
          /\ spendLog' = spendLog /\ unsure' = unsure
      BY <1>1, <2>1 DEF Ledger!Accept, Record
    <2> QED BY <1>0, <2>2
  <1>2. CASE Rebuffer
    <2>1. PICK out \in SUBSET Pending : Ledger!GiveUp(out)
      BY <1>2, RebufferGivesUp
    <2>2. Pending' \subseteq Pending /\ spendLog' = spendLog /\ unsure' = unsure
      BY <1>2, <2>1 DEF Ledger!GiveUp, Rebuffer
    <2> QED BY <1>0, <2>2
  <1>3. ASSUME NEW es \in SUBSET Pending, spendLog' = Written(es),
               Pending' = Pending \ es, unsure' = unsure
        PROVE  e \in unsure'
    BY <1>0, <1>3 DEF Written
  <1>4. ASSUME NEW es, spendLog' = Written(es), Pending' = Pending,
               unsure' = unsure \cup es
        PROVE  e \in unsure'
    BY <1>0, <1>4 DEF Written
  <1>5. CASE BatchOk
    BY <1>3, <1>5, BatchLeaves DEF BatchOk
  <1>6. CASE OneOk
    <2>1. {Head(batch)} \in SUBSET Pending
      BY <1>6, HeadLeaves DEF OneOk
    <2> QED BY <1>3, <1>6, <2>1, HeadLeaves DEF OneOk
  <1>7. CASE BatchReplyLost \/ OneReplyLost
    <2>1. Pending' = Pending
      BY <1>7 DEF BatchReplyLost, OneReplyLost, Pending
    <2> QED BY <1>4, <1>7, <2>1 DEF BatchReplyLost, OneReplyLost
  <1>8. CASE OneRejected
    BY <1>0, <1>8, HeadLeaves DEF OneRejected
  <1>9. CASE Crash
    <2>1. Pending' = {}
      BY <1>9, NothingInEmpty DEF Crash, Pending
    <2> QED BY <1>0, <1>9, <2>1 DEF Crash
  <1>10. CASE FlushTake
    <2>1. Elems(batch) = {}
      BY <1>10, NothingInEmpty DEF FlushTake, IInv, TypeOK
    <2>2. Pending' = Pending
      BY <1>10, <2>1, NothingInEmpty DEF FlushTake, Pending
    <2> QED BY <1>0, <1>10, <2>2 DEF FlushTake
  <1>11. CASE \/ BatchTransient \/ BatchRejected \/ OneTransient \/ DbFail \/ DbRecover
              \/ (\E k \in Keys : DeleteKey(k)) \/ UNCHANGED vars
    <2>1. Pending' = Pending /\ spendLog' = spendLog /\ unsure' = unsure
      BY <1>11 DEF BatchTransient, BatchRejected, OneTransient, DbFail, DbRecover, DeleteKey,
                   vars, Pending
    <2> QED BY <1>0, <2>1
  <1> QED BY <1>1, <1>2, <1>5, <1>6, <1>7, <1>8, <1>9, <1>10, <1>11 DEF Next, Flush
\* An entry keeps its attributes for good, and there are never fewer of them.
LEMMA RecStays ==
    ASSUME SpendAssumption, IInv, [Next]_vars
    PROVE  /\ Recorded \subseteq Recorded' /\ Len(rec') >= Len(rec)
           /\ \A e \in Recorded : rec'[e] = rec[e]
  <1>1. ASSUME NEW a \in Entry, rec' = Append(rec, a)
        PROVE  /\ Recorded \subseteq Recorded' /\ Len(rec') >= Len(rec)
               /\ \A e \in Recorded : rec'[e] = rec[e]
    BY <1>1 DEF IInv, TypeOK, Recorded
  <1>2. CASE rec' = rec
    BY <1>2, Lengths DEF Recorded
  <1> QED BY <1>1, <1>2 DEF Next, vars, Record, Flush, FlushTake, BatchOk, BatchTransient,
             BatchReplyLost, BatchRejected, OneOk, OneRejected, OneTransient, OneReplyLost,
             Rebuffer, Crash, DbFail, DbRecover, DeleteKey

\* What the flush task holds is older than the rest, its head the oldest.
LEMMA OldestFirst ==
    ASSUME SpendAssumption, IInv, QueueInv
    PROVE  /\ \A f \in Elems(batch), e \in Pending \ Elems(batch) : f < e
           /\ phase = "records" => \A e \in Pending \ {Head(batch)} : Head(batch) < e
  <1>1. \A f \in Elems(batch), e \in Elems(buffer) : f < e
    BY DEF QueueInv, Elems
  <1>2. ASSUME phase = "records", NEW e \in Elems(batch), e # Head(batch)
        PROVE  Head(batch) < e
    <2>1. batch # <<>> /\ batch \in Seq(Recorded)
      BY <1>2 DEF IInv, TypeOK
    <2>2. PICK i \in 1..Len(batch) : e = batch[i]
      BY <1>2 DEF Elems
    <2>3. Head(batch) = batch[1] /\ Len(batch) \in Nat /\ 1 \in 1..Len(batch)
      BY <2>1
    <2>4. i # 1
      BY <1>2, <2>2, <2>3
    <2> QED BY <2>2, <2>3, <2>4 DEF QueueInv, Ascending
  <1>3. phase = "records" => Head(batch) \in Elems(batch)
    <2> SUFFICES ASSUME phase = "records" PROVE Head(batch) \in Elems(batch)
      OBVIOUS
    <2>1. batch # <<>> /\ batch \in Seq(Recorded)
      BY DEF IInv, TypeOK
    <2>2. Head(batch) = batch[1] /\ 1 \in 1..Len(batch)
      BY <2>1
    <2> QED BY <2>2 DEF Elems
  <1> QED BY <1>1, <1>2, <1>3 DEF Pending

LEMMA NothingOvertakes ==
    ASSUME SpendAssumption, IInv, QueueInv, FateInv, [Next]_vars
    PROVE  ServedInOrder'
  <1> SUFFICES ASSUME NEW e \in Pending', NEW f \in Recorded', e < f,
                      spendLog'[f] > 0 \/ f \in quarantined'
               PROVE  f \in unsure'
    BY DEF ServedInOrder
  <1>0. e \in Pending /\ f \in Recorded /\ (spendLog[f] > 0 \/ f \in quarantined) => f \in unsure
    BY DEF FateInv, ServedInOrder
  <1>1. /\ f \in Ids /\ e \in Nat /\ f \in Nat /\ quarantined \subseteq Recorded
        /\ f \notin Recorded => spendLog[f] = 0
    <2>1. f \in Ids /\ f \in Nat
      <3>1. rec' \in Seq(Entry) /\ Len(rec') <= MaxRecords
        BY StepIInv DEF IInv, TypeOK, Entry
      <3>2. Len(rec') \in Nat /\ f \in 1..Len(rec')
        BY <3>1 DEF Recorded
      <3> QED BY <3>1, <3>2 DEF Ids, SpendAssumption
    <2>2. Pending' \subseteq Recorded'
      <3>1. IInv'
        BY StepIInv
      <3> QED BY <3>1, ElemsType DEF Pending, IInv, TypeOK
    <2> QED BY <2>1, <2>2 DEF FateInv, IInv, TypeOK, Recorded
  <1>2. ASSUME NEW a \in Entry, Record(a) PROVE f \in unsure'
    <2>1. PICK out \in SUBSET Pending : Ledger!Accept(Len(rec) + 1, out)
      BY <1>2, RecordAccepts
    <2>2. /\ Pending' \subseteq Pending \cup {Len(rec) + 1}
          /\ spendLog' = spendLog /\ unsure' = unsure /\ quarantined' = quarantined
          /\ Len(rec') = Len(rec) + 1 /\ Len(rec) \in Nat
      BY <1>2, <2>1, Lengths DEF Ledger!Accept, Record, IInv, TypeOK
    <2>3. f \in Recorded
      BY <1>1, <2>2
    <2>4. e # Len(rec) + 1
      BY <1>1, <2>2, <2>3 DEF Recorded
    <2> QED BY <1>0, <2>2, <2>3, <2>4
  <1>3. CASE Rebuffer
    <2>1. PICK out \in SUBSET Pending : Ledger!GiveUp(out)
      BY <1>3, RebufferGivesUp
    <2>2. Pending' \subseteq Pending /\ UNCHANGED <<rec, spendLog, quarantined, unsure>>
      BY <1>3, <2>1 DEF Ledger!GiveUp, Rebuffer
    <2> QED BY <1>0, <1>1, <2>2
  <1>4. ASSUME NEW es \in SUBSET Pending, \A g \in es, h \in Pending \ es : g < h,
               Pending' = Pending \ es, UNCHANGED <<rec, unsure>>,
               \/ spendLog' = Written(es) /\ quarantined' = quarantined
               \/ quarantined' = quarantined \cup es /\ spendLog' = spendLog
        PROVE  f \in unsure'
    <2>1. f \notin es
      BY <1>1, <1>4
    <2> QED BY <1>0, <1>1, <1>4, <2>1 DEF Written
  <1>5. ASSUME NEW es, spendLog' = Written(es), Pending' = Pending, quarantined' = quarantined,
               unsure' = unsure \cup es
        PROVE  f \in unsure'
    BY <1>0, <1>1, <1>5 DEF Written
  <1>6. CASE BatchOk
    BY <1>4, <1>6, BatchLeaves, OldestFirst DEF BatchOk
  <1>7. CASE OneOk \/ OneRejected
    <2>1. phase = "records" /\ {Head(batch)} \in SUBSET Pending
      BY <1>7, HeadLeaves DEF OneOk, OneRejected
    <2>2. Pending' = Pending \ {Head(batch)}
      BY <1>7, <2>1, HeadLeaves DEF OneOk, OneRejected
    <2>3. \A g \in {Head(batch)}, h \in Pending \ {Head(batch)} : g < h
      BY <2>1, OldestFirst
    <2> QED BY <1>4, <1>7, <2>1, <2>2, <2>3 DEF OneOk, OneRejected
  <1>8. CASE BatchReplyLost \/ OneReplyLost
    <2>1. Pending' = Pending
      BY <1>8 DEF BatchReplyLost, OneReplyLost, Pending
    <2> QED BY <1>5, <1>8, <2>1 DEF BatchReplyLost, OneReplyLost
  <1>9. CASE Crash
    BY <1>9, NothingInEmpty DEF Crash, Pending
  <1>10. CASE FlushTake
    <2>1. Elems(batch) = {}
      BY <1>10, NothingInEmpty DEF FlushTake, IInv, TypeOK
    <2>2. Pending' = Pending
      BY <1>10, <2>1, NothingInEmpty DEF FlushTake, Pending
    <2> QED BY <1>0, <1>1, <1>10, <2>2 DEF FlushTake
  <1>11. CASE \/ BatchTransient \/ BatchRejected \/ OneTransient \/ DbFail \/ DbRecover
              \/ (\E k \in Keys : DeleteKey(k)) \/ UNCHANGED vars
    <2>1. Pending' = Pending /\ UNCHANGED <<rec, spendLog, quarantined, unsure>>
      BY <1>11 DEF BatchTransient, BatchRejected, OneTransient, DbFail, DbRecover, DeleteKey,
                   vars, Pending
    <2> QED BY <1>0, <1>1, <2>1
  <1> QED BY <1>2, <1>3, <1>6, <1>7, <1>8, <1>9, <1>10, <1>11 DEF Next, Flush

LEMMA OnlyUnderLoad ==
    ASSUME SpendAssumption, IInv, QueueInv, FateInv, [Next]_vars
    PROVE  DropsOnlyUnderLoad'
  <1>1. /\ evicted \subseteq Nat /\ Cap \in Nat
        /\ Len(rec) \in Nat /\ Len(rec') \in Nat /\ Len(rec') >= Len(rec)
    <2>1. rec' \in Seq(Entry)
      BY StepIInv DEF IInv, TypeOK, Entry
    <2>2. Len(rec') \in Nat
      BY <2>1
    <2> QED BY <2>2, Lengths, RecStays DEF IInv, TypeOK, Recorded
  <1>2. /\ \A e \in evicted : e + Cap <= Len(rec)
        /\ shed # {} => Len(rec) > Cap
    BY DEF FateInv, DropsOnlyUnderLoad
  <1>3. ASSUME NEW a \in Entry, Record(a) PROVE DropsOnlyUnderLoad'
    <2>1. PICK out \in SUBSET Pending : /\ evicted' = evicted \cup out
                                        /\ \A e \in out : e + Cap <= Len(rec')
      BY <1>3, RecordAccepts
    <2>2. shed' = shed
      BY <1>3 DEF Record
    <2>3. \A e \in evicted : e + Cap <= Len(rec')
      BY <1>1, <1>2
    <2> QED BY <1>1, <1>2, <2>1, <2>2, <2>3 DEF DropsOnlyUnderLoad
  <1>4. CASE Rebuffer
    <2>1. PICK out \in SUBSET Pending : shed' = shed \cup out /\ (out # {} => Len(rec) > Cap)
      BY <1>4, RebufferGivesUp
    <2>2. evicted' = evicted /\ rec' = rec
      BY <1>4 DEF Rebuffer
    <2> QED BY <1>2, <2>1, <2>2 DEF DropsOnlyUnderLoad
  <1>5. CASE UNCHANGED <<evicted, shed, rec>>
    BY <1>2, <1>5 DEF DropsOnlyUnderLoad
  <1> QED BY <1>3, <1>4, <1>5 DEF Next, vars, Flush, FlushTake, BatchOk, BatchTransient,
             BatchReplyLost, BatchRejected, OneOk, OneRejected, OneTransient, OneReplyLost,
             Crash, DbFail, DbRecover, DeleteKey

LEMMA NoRowAhead ==
    ASSUME SpendAssumption, IInv, QueueInv, FateInv, [Next]_vars
    PROVE  \A e \in Ids \ Recorded' : spendLog'[e] = 0
  <1> SUFFICES ASSUME NEW e \in Ids, e \notin Recorded' PROVE spendLog'[e] = 0
    OBVIOUS
  <1>1. e \notin Recorded /\ spendLog[e] = 0 /\ e \notin Elems(batch)
    BY RecStays, ElemsType DEF FateInv, IInv, TypeOK
  <1>2. CASE BatchOk \/ BatchReplyLost
    BY <1>1, <1>2 DEF BatchOk, BatchReplyLost, Written
  <1>3. CASE OneOk \/ OneReplyLost
    <2>1. e # Head(batch)
      BY <1>1, <1>3, HeadLeaves DEF OneOk, OneReplyLost
    <2> QED BY <1>1, <1>3, <2>1 DEF OneOk, OneReplyLost, Written
  <1>4. CASE spendLog' = spendLog
    BY <1>1, <1>4
  <1> QED BY <1>2, <1>3, <1>4 DEF Next, vars, Record, Flush, FlushTake, BatchTransient,
             BatchRejected, OneRejected, OneTransient, Rebuffer, Crash, DbFail, DbRecover,
             DeleteKey

LEMMA AlwaysSpendInv == Spec => []SpendInv
  <1>1. Init => SpendInv
    BY SpendInvInit, SpendAssumption
  <1>2. SpendInv /\ [Next]_vars => SpendInv'
    <2> SUFFICES ASSUME SpendInv, [Next]_vars PROVE SpendInv'
      OBVIOUS
    <2>1. SpendAssumption /\ IInv /\ QueueInv /\ FateInv
      BY SpendAssumption DEF SpendInv
    <2>2. IInv'
      BY <2>1, StepIInv
    <2>3. QueueInv'
      BY <2>1, QueueStep
    <2>4. Accounted'
      BY <2>1, <2>2, LedgerStep, LedgerAccounts DEF FateInv
    <2> QED BY <2>1, <2>2, <2>3, <2>4, Unduplicated, NothingOvertakes, OnlyUnderLoad, NoRowAhead
            DEF SpendInv, FateInv
  <1> QED BY <1>1, <1>2, PTL DEF Spec

-----------------------------------------------------------------------------

\* For every MAX_BUFFER_SIZE, however record() and the steps of the flush task
\* interleave and whatever Postgres answers: no entry vanishes between two
\* owners, and one that was dropped does not come back.
THEOREM EntriesAccounted == Spec => []Accounted
  <1>1. SpendInv => Accounted
    BY DEF SpendInv, FateInv
  <1> QED BY <1>1, AlwaysSpendInv, PTL

\* rebuffer_capacity_respecting() puts the entries back before those that came
\* in meanwhile: the order of recording survives, for all capacities.
THEOREM EntriesInOrder == Spec => []InOrder
  <1>1. SpendInv => InOrder
    BY QueueOrder, SpendAssumption DEF SpendInv
  <1> QED BY <1>1, AlwaysSpendInv, PTL

\* A second row of an entry, or one of an entry that is still to be written,
\* means that the reply to an INSERT of it was lost.
THEOREM OnceUnlessUnsure == Spec => []DuplicatesExplained
  <1>1. SpendInv => DuplicatesExplained
    BY DEF SpendInv, FateInv
  <1> QED BY <1>1, AlwaysSpendInv, PTL

\* However batches are cut off and put back, no entry is written or given up
\* before an older one that is still to be written, unless its reply was lost.
THEOREM NoneOvertakes == Spec => []ServedInOrder
  <1>1. SpendInv => ServedInOrder
    BY DEF SpendInv, FateInv
  <1> QED BY <1>1, AlwaysSpendInv, PTL

\* What record() evicts has MAX_BUFFER_SIZE newer ones behind it, and a
\* re-buffer sheds nothing before more than so many were recorded.
THEOREM DropsNeedLoad == Spec => []DropsOnlyUnderLoad
  <1>1. SpendInv => DropsOnlyUnderLoad
    BY DEF SpendInv, FateInv
  <1> QED BY <1>1, AlwaysSpendInv, PTL

\* The buffer, the batches, the fallback and the crashes of the tracker, seen
\* from outside, are steps of SpendLedger.
THEOREM TrackerImplementsLedger == Spec => ImplementsLedger
  <1>1. Init => Ledger!Init
    <2>1. Init => Recorded = {}
      <3>1. rec = <<>> => Len(rec) = 0
        OBVIOUS
      <3> QED BY <3>1 DEF Init, Recorded
    <2> QED BY <2>1, NothingInEmpty DEF Init, Ledger!Init, Pending, Dropped
  <1>2. SpendInv /\ [Next]_vars => [Ledger!Next]_(Ledger!lvars)
    BY LedgerStep, SpendAssumption DEF SpendInv
  <1> QED BY <1>1, <1>2, AlwaysSpendInv, PTL DEF Spec, ImplementsLedger, Ledger!Spec

-----------------------------------------------------------------------------
(* Budgets *)

\* A request between its arrival and its verdict.
Judging(r) ==
    /\ r.phase \in {"spend", "store", "count", "insert"}
    /\ r = [phase |-> r.phase, who |-> r.who, level |-> r.level, user |-> r.user,
            team |-> r.team, spend |-> r.spend, start |-> r.start,
            decision |-> r.decision, final |-> r.final, missed |-> r.missed]

Verdict(r) ==
    /\ r.phase = "decided"
    /\ r = [phase |-> "decided", who |-> r.who, final |-> r.final, missed |-> r.missed]

\* An event of the threshold that counts for the request is in the table.
Traced(r, table) == \E e \in table : e.at = r.final.at /\ e.scope \in {r.who, Team}

\* A block leaves its trace before the next budget is looked at.
Traceable(r, table) ==
    r.final.kind = "block" /\ ~r.missed =>
        \/ Traced(r, table)
        \/ r.phase \in {"count", "insert"} /\ r.final = r.decision

TraceInv ==
    /\ req = [q \in Requests |-> req[q]]
    /\ \A q \in Requests :
         \/ req[q] = Idle
         \/ Judging(req[q]) /\ Traceable(req[q], DOMAIN events)
         \/ Verdict(req[q]) /\ Traceable(req[q], DOMAIN events)

\* Those that have found no event e, and are about to insert it.
Inserting(e) == {q \in Requests : req[q].phase = "insert" /\ EventOf(q) = e}

FireInv ==
    /\ events = [e \in DOMAIN events |-> events[e]]
    /\ \A e \in DOMAIN events :
         /\ events[e] \in Nat
         /\ events[e] + Cardinality(Inserting(e)) <= Cardinality(Requests)

LEMMA WithRowFact ==
    ASSUME NEW e
    PROVE  /\ DOMAIN WithRow(e) = DOMAIN events \cup {e}
           /\ WithRow(e) = [x \in DOMAIN WithRow(e) |-> WithRow(e)[x]]
           /\ \A x \in DOMAIN events :
                events[x] \in Nat =>
                  WithRow(e)[x] = IF x = e THEN events[x] + 1 ELSE events[x]
           /\ e \notin DOMAIN events => WithRow(e)[e] = 1
  BY DEF WithRow

\* Turning to the next budget changes neither the verdict so far nor its trace.
LEMMA TurnFact ==
    ASSUME NEW r, Judging(r), NEW level
    PROVE  LET s == Turn(r, level)
           IN  /\ Judging(s) \/ Verdict(s)
               /\ s.phase \in {"spend", "decided"}
               /\ s.who = r.who /\ s.final = r.final /\ s.missed = r.missed
  <1>1. PICK s : s = [r EXCEPT !.phase = "spend", !.level = level, !.spend = 0,
                               !.start = 0, !.decision = Allow]
    OBVIOUS
  <1>2. s = [phase |-> "spend", who |-> r.who, level |-> level, user |-> r.user,
             team |-> r.team, spend |-> 0, start |-> 0, decision |-> Allow,
             final |-> r.final, missed |-> r.missed]
    BY <1>1 DEF Judging
  <1>3. PICK t : t = [s EXCEPT !.level = "team"]
    OBVIOUS
  <1>4. t = [phase |-> "spend", who |-> r.who, level |-> "team", user |-> r.user,
             team |-> r.team, spend |-> 0, start |-> 0, decision |-> Allow,
             final |-> r.final, missed |-> r.missed]
    BY <1>2, <1>3
  <1>5. PICK d : d = [phase |-> "decided", who |-> r.who, final |-> r.final,
                      missed |-> r.missed]
    OBVIOUS
  <1>6. Turn(r, level) \in {s, t, d}
    BY <1>1, <1>3, <1>5 DEF Turn
  <1> QED BY <1>2, <1>4, <1>5, <1>6 DEF Judging, Verdict

LEMMA AfterFact ==
    ASSUME NEW r, Judging(r)
    PROVE  LET s == After(r)
           IN  /\ Judging(s) \/ Verdict(s)
               /\ s.phase \in {"spend", "decided"}
               /\ s.who = r.who /\ s.final = r.final /\ s.missed = r.missed
  BY TurnFact DEF After

\* A verdict is kept, or a more severe one comes with an event to be counted.
LEMMA JudgedFact ==
    ASSUME NEW r, Judging(r), r.phase \in {"spend", "store"}, NEW amount
    PROVE  LET s == Judged(r, amount)
           IN  /\ Judging(s) \/ Verdict(s)
               /\ s.phase \in {"spend", "decided", "count"}
               /\ s.who = r.who /\ s.missed = r.missed
               /\ \/ s.final = r.final
                  \/ s.final.kind = "allow"
                  \/ s.phase = "count" /\ s.final = s.decision
  <1>1. PICK d : d = Evaluate(BudgetAt(r, r.level).policy, amount, BudgetAt(r, r.level).limit)
    OBVIOUS
  <1>2. PICK start : start = PeriodStart(BudgetAt(r, r.level).period, today)
    OBVIOUS
  <1>3. PICK final : final = MostRestrictive(r.final, d)
    OBVIOUS
  <1>4. final \in {r.final, d}
    BY <1>3 DEF MostRestrictive
  <1>5. PICK s : s = [phase |-> r.phase, who |-> r.who, level |-> r.level, user |-> r.user,
                      team |-> r.team, spend |-> amount, start |-> start,
                      decision |-> d, final |-> final, missed |-> r.missed]
    OBVIOUS
  <1>6. s = [r EXCEPT !.spend = amount, !.decision = d, !.start = start, !.final = final]
    <2>1. PICK r1 : r1 = [r EXCEPT !.spend = amount]
      OBVIOUS
    <2>2. r1 = [phase |-> r.phase, who |-> r.who, level |-> r.level, user |-> r.user,
                team |-> r.team, spend |-> amount, start |-> r.start,
                decision |-> r.decision, final |-> r.final, missed |-> r.missed]
      BY <2>1 DEF Judging
    <2>3. PICK r2 : r2 = [r1 EXCEPT !.decision = d]
      OBVIOUS
    <2>4. r2 = [phase |-> r.phase, who |-> r.who, level |-> r.level, user |-> r.user,
                team |-> r.team, spend |-> amount, start |-> r.start,
                decision |-> d, final |-> r.final, missed |-> r.missed]
      BY <2>2, <2>3
    <2>5. PICK r3 : r3 = [r2 EXCEPT !.start = start]
      OBVIOUS
    <2>6. r3 = [phase |-> r.phase, who |-> r.who, level |-> r.level, user |-> r.user,
                team |-> r.team, spend |-> amount, start |-> start,
                decision |-> d, final |-> r.final, missed |-> r.missed]
      BY <2>4, <2>5
    <2>7. s = [r3 EXCEPT !.final = final]
      BY <1>5, <2>6
    <2> QED BY <2>1, <2>3, <2>5, <2>7
  <1>7. PICK c : c = [s EXCEPT !.phase = "count"]
    OBVIOUS
  <1>8. c = [phase |-> "count", who |-> r.who, level |-> r.level, user |-> r.user,
             team |-> r.team, spend |-> amount, start |-> start,
             decision |-> d, final |-> final, missed |-> r.missed]
    BY <1>5, <1>7
  <1>9. Judged(r, amount) = IF d.kind = "allow" THEN After(s) ELSE c
    BY <1>1, <1>2, <1>3, <1>6, <1>7 DEF Judged, Judging
  <1>10. Judging(s) /\ Judging(c)
    BY <1>5, <1>8 DEF Judging
  <1>11. CASE d.kind = "allow"
    <2>1. PICK a : a = After(s)
      OBVIOUS
    <2>2. /\ Judging(a) \/ Verdict(a)
          /\ a.phase \in {"spend", "decided"}
          /\ a.who = s.who /\ a.final = s.final /\ a.missed = s.missed
      BY <1>10, <2>1, AfterFact
    <2> QED BY <1>4, <1>5, <1>9, <1>11, <2>1, <2>2
  <1>12. CASE d.kind # "allow"
    BY <1>4, <1>8, <1>9, <1>10, <1>12
  <1> QED BY <1>11, <1>12

\* An event that could not be recorded is marked as missed.
LEMMA Missed ==
    ASSUME NEW r, Judging(r), NEW table
    PROVE  LET s == After([r EXCEPT !.missed = TRUE])
           IN  (Judging(s) \/ Verdict(s)) /\ Traceable(s, table) /\ s.phase # "insert"
  <1>1. PICK m : m = [r EXCEPT !.missed = TRUE]
    OBVIOUS
  <1>2. Judging(m) /\ m.missed = TRUE
    BY <1>1 DEF Judging
  <1>3. PICK s : s = After(m)
    OBVIOUS
  <1>4. (Judging(s) \/ Verdict(s)) /\ s.missed = TRUE /\ s.phase # "insert"
    BY <1>2, <1>3, AfterFact
  <1> QED BY <1>1, <1>3, <1>4 DEF Traceable

LEMMA FreshFact ==
    ASSUME NEW w, NEW user, NEW team
    PROVE  LET s == Fresh(w, user, team)
           IN  /\ Judging(s) \/ Verdict(s)
               /\ s.phase \in {"spend", "decided"}
               /\ s.final.kind = "allow" /\ s.missed \in BOOLEAN
  <1>1. PICK r : r = [phase |-> "spend", who |-> w, level |-> "user", user |-> user,
                      team |-> team, spend |-> 0, start |-> 0, decision |-> Allow,
                      final |-> Allow, missed |-> FALSE]
    OBVIOUS
  <1>2. Judging(r)
    BY <1>1 DEF Judging
  <1>3. PICK s : s = Turn(r, "user")
    OBVIOUS
  <1>4. /\ Judging(s) \/ Verdict(s)
        /\ s.phase \in {"spend", "decided"}
        /\ s.final = r.final /\ s.missed = r.missed
    BY <1>2, <1>3, TurnFact
  <1>6. r.final.kind = "allow" /\ r.missed = FALSE
    BY <1>1 DEF Allow
  <1>5. Fresh(w, user, team) = s
    BY <1>1, <1>3 DEF Fresh
  <1> QED BY <1>4, <1>5, <1>6

\* One request changes, with what it leaves in the table.
LEMMA TraceMoves ==
    ASSUME TraceInv, NEW q \in Requests, NEW s, req' = [req EXCEPT ![q] = s],
           DOMAIN events \subseteq DOMAIN events',
           \/ s = Idle
           \/ (Judging(s) \/ Verdict(s)) /\ Traceable(s, DOMAIN events')
    PROVE  TraceInv'
  <1>1. /\ req' = [p \in Requests |-> req'[p]] /\ req'[q] = s
        /\ \A p \in Requests \ {q} : req'[p] = req[p]
    BY DEF TraceInv
  <1>2. \A r : Traceable(r, DOMAIN events) => Traceable(r, DOMAIN events')
    BY DEF Traceable, Traced
  <1> QED BY <1>1, <1>2 DEF TraceInv

LEMMA TraceRequest ==
    ASSUME BudgetAssumption, TraceInv, FireInv, NEW q \in Requests,
           Serve(q) \/ (\E w \in Principals : Arrive(q, w) \/ ArriveBlind(q, w))
    PROVE  TraceInv'
  <1> DEFINE r == req[q]
             Left(s) == \/ s = Idle
                        \/ (Judging(s) \/ Verdict(s)) /\ Traceable(s, DOMAIN events')
  <1>0. Idle.phase = "idle"
    BY DEF Idle
  <1>1. CASE \E w \in Principals : Arrive(q, w) \/ ArriveBlind(q, w)
    <2>1. PICK w, user, team : req' = [req EXCEPT ![q] = Fresh(w, user, team)]
      BY <1>1 DEF Arrive, ArriveBlind
    <2>2. PICK s : s = Fresh(w, user, team)
      OBVIOUS
    <2>3. Left(s)
      BY <2>2, FreshFact DEF Traceable
    <2>4. events' = events
      BY <1>1 DEF Arrive, ArriveBlind
    <2> QED BY <2>1, <2>2, <2>3, <2>4, TraceMoves
  <1>2. CASE Hit(q) \/ Store(q)
    <2>1. PICK amount : req' = [req EXCEPT ![q] = Judged(r, amount)]
      BY <1>2 DEF Hit, Store
    <2>2. r.phase \in {"spend", "store"} /\ events' = events
      BY <1>2 DEF Hit, Store
    <2>3. Judging(r) /\ Traceable(r, DOMAIN events)
      BY <1>0, <2>2 DEF TraceInv, Verdict
    <2>4. PICK s : s = Judged(r, amount)
      OBVIOUS
    <2>5. /\ Judging(s) \/ Verdict(s)
          /\ s.who = r.who /\ s.missed = r.missed
          /\ \/ s.final = r.final
             \/ s.final.kind = "allow"
             \/ s.phase = "count" /\ s.final = s.decision
      BY <2>2, <2>3, <2>4, JudgedFact
    <2>6. Traceable(s, DOMAIN events')
      BY <2>2, <2>3, <2>5 DEF Traceable, Traced
    <2> QED BY <2>1, <2>2, <2>4, <2>5, <2>6, TraceMoves
  <1>3. CASE Query(q)
    <2>1. PICK amount : req' = [req EXCEPT ![q].phase = "store", ![q].spend = amount]
      BY <1>3 DEF Query
    <2>2. r.phase = "spend" /\ events' = events
      BY <1>3 DEF Query
    <2>3. Judging(r) /\ Traceable(r, DOMAIN events)
      BY <1>0, <2>2 DEF TraceInv, Verdict
    <2>4. PICK s : s = [phase |-> "store", who |-> r.who, level |-> r.level, user |-> r.user,
                        team |-> r.team, spend |-> amount, start |-> r.start,
                        decision |-> r.decision, final |-> r.final, missed |-> r.missed]
      OBVIOUS
    <2>5. s = [r EXCEPT !.phase = "store", !.spend = amount]
      <3>1. PICK r1 : r1 = [r EXCEPT !.phase = "store"]
        OBVIOUS
      <3>2. r1 = [phase |-> "store", who |-> r.who, level |-> r.level, user |-> r.user,
                  team |-> r.team, spend |-> r.spend, start |-> r.start,
                  decision |-> r.decision, final |-> r.final, missed |-> r.missed]
        BY <2>3, <3>1 DEF Judging
      <3>3. s = [r1 EXCEPT !.spend = amount]
        BY <2>4, <3>2
      <3> QED BY <3>1, <3>3
    <2>6. req' = [req EXCEPT ![q] = s]
      BY <2>1, <2>5 DEF TraceInv
    <2>7. Judging(s) /\ Traceable(s, DOMAIN events')
      BY <2>2, <2>3, <2>4 DEF Judging, Traceable, Traced
    <2> QED BY <2>2, <2>6, <2>7, TraceMoves
  <1>4. CASE Count(q)
    <2>1. r.phase = "count" /\ events' = events
      BY <1>4 DEF Count
    <2>2. Judging(r) /\ Traceable(r, DOMAIN events)
      BY <1>0, <2>1 DEF TraceInv, Verdict
    <2>3. CASE /\ EventOf(q) \in DOMAIN events
               /\ req' = [req EXCEPT ![q] = After(r)]
      <3>1. PICK s : s = After(r)
        OBVIOUS
      <3>2. /\ Judging(s) \/ Verdict(s)
            /\ s.who = r.who /\ s.final = r.final /\ s.missed = r.missed
        BY <2>2, <3>1, AfterFact
      <3>3. r.final = r.decision => Traced(r, DOMAIN events)
        BY <2>3 DEF Traced, EventOf, ScopeOf
      <3>4. Traceable(s, DOMAIN events')
        BY <2>1, <2>2, <3>2, <3>3 DEF Traceable, Traced
      <3> QED BY <2>1, <2>3, <3>1, <3>2, <3>4, TraceMoves
    <2>4. CASE req' = [req EXCEPT ![q] = [r EXCEPT !.phase = "insert"]]
      <3>1. PICK s : s = [phase |-> "insert", who |-> r.who, level |-> r.level, user |-> r.user,
                          team |-> r.team, spend |-> r.spend, start |-> r.start,
                          decision |-> r.decision, final |-> r.final, missed |-> r.missed]
        OBVIOUS
      <3>2. s = [r EXCEPT !.phase = "insert"]
        BY <2>2, <3>1 DEF Judging
      <3>3. Judging(s) /\ Traceable(s, DOMAIN events')
        BY <2>1, <2>2, <3>1 DEF Judging, Traceable, Traced
      <3> QED BY <2>1, <2>4, <3>2, <3>3, TraceMoves
    <2>5. CASE req' = [req EXCEPT ![q] = After([r EXCEPT !.missed = TRUE])]
      BY <2>1, <2>2, <2>5, Missed, TraceMoves
    <2> QED BY <1>4, <2>3, <2>4, <2>5 DEF Count, Known
  <1>5. CASE Insert(q)
    <2>1. r.phase = "insert"
      BY <1>5 DEF Insert
    <2>2. Judging(r) /\ Traceable(r, DOMAIN events)
      BY <1>0, <2>1 DEF TraceInv, Verdict
    <2>3. CASE events' = WithRow(EventOf(q)) /\ req' = [req EXCEPT ![q] = After(r)]
      <3>1. PICK s : s = After(r)
        OBVIOUS
      <3>2. /\ Judging(s) \/ Verdict(s)
            /\ s.who = r.who /\ s.final = r.final /\ s.missed = r.missed
        BY <2>2, <3>1, AfterFact
      <3>3. DOMAIN events' = DOMAIN events \cup {EventOf(q)}
        BY <2>3, WithRowFact
      <3>4. r.final = r.decision => Traced(r, DOMAIN events')
        <4>1. PICK e : e = EventOf(q)
          OBVIOUS
        <4>2. e \in DOMAIN events' /\ e.at = r.decision.at /\ e.scope \in {r.who, Team}
          BY <3>3, <4>1 DEF EventOf, ScopeOf
        <4> QED BY <4>2 DEF Traced
      <3>5. Traceable(s, DOMAIN events')
        BY <2>2, <3>2, <3>3, <3>4 DEF Traceable, Traced
      <3> QED BY <2>3, <3>1, <3>2, <3>3, <3>5, TraceMoves
    <2>4. CASE events' = events /\ req' = [req EXCEPT ![q] = After([r EXCEPT !.missed = TRUE])]
      BY <2>2, <2>4, Missed, TraceMoves
    <2> QED BY <1>5, <2>3, <2>4 DEF Insert
  <1>6. CASE Refuse(q) \/ Admit(q)
    <2>1. req' = [req EXCEPT ![q] = Idle] /\ events' = events
      BY <1>6 DEF Refuse, Admit
    <2> QED BY <2>1, TraceMoves
  <1> QED BY <1>1, <1>2, <1>3, <1>4, <1>5, <1>6 DEF Serve

LEMMA InsertingFinite ==
    ASSUME BudgetAssumption, NEW e
    PROVE  /\ IsFiniteSet(Inserting(e)) /\ Inserting(e) \subseteq Requests
           /\ Cardinality(Inserting(e)) \in Nat /\ Cardinality(Requests) \in Nat
           /\ Cardinality(Inserting(e)) <= Cardinality(Requests)
  <1>1. Inserting(e) \subseteq Requests /\ IsFiniteSet(Requests)
    BY DEF Inserting, BudgetAssumption
  <1> HIDE DEF Inserting
  <1> QED BY <1>1, FS_Subset, FS_CardinalityType

\* A step after which no others are about to insert anything leaves the count
\* of every event where it was.
LEMMA FireMoves ==
    ASSUME BudgetAssumption, FireInv, events' = events,
           \A e \in DOMAIN events : Inserting(e)' \subseteq Inserting(e)
    PROVE  FireInv'
  <1> SUFFICES ASSUME NEW e \in DOMAIN events
               PROVE  events[e] + Cardinality(Inserting(e)') <= Cardinality(Requests)
    BY DEF FireInv
  <1>1. PICK S, T : S = Inserting(e) /\ T = Inserting(e)'
    OBVIOUS
  <1>2. T \subseteq S /\ IsFiniteSet(S) /\ Cardinality(S) \in Nat /\ Cardinality(Requests) \in Nat
    BY <1>1, InsertingFinite
  <1>3. Cardinality(T) <= Cardinality(S) /\ Cardinality(T) \in Nat
    BY <1>2, FS_Subset, FS_CardinalityType
  <1>4. events[e] \in Nat /\ events[e] + Cardinality(S) <= Cardinality(Requests)
    BY <1>1 DEF FireInv
  <1> QED BY <1>1, <1>2, <1>3, <1>4

\* What the other requests are about to insert does not change.
LEMMA OthersInsert ==
    ASSUME TraceInv, NEW q \in Requests, NEW s, req' = [req EXCEPT ![q] = s], NEW e
    PROVE  Inserting(e)' \ {q} = Inserting(e) \ {q}
  <1>1. \A p \in Requests \ {q} : req'[p] = req[p]
    BY DEF TraceInv
  <1> QED BY <1>1 DEF Inserting, EventOf, ScopeOf

LEMMA FireRequest ==
    ASSUME BudgetAssumption, TraceInv, FireInv, NEW q \in Requests,
           Serve(q) \/ (\E w \in Principals : Arrive(q, w) \/ ArriveBlind(q, w))
    PROVE  FireInv'
  <1> DEFINE r == req[q]
  <1>0. Idle.phase = "idle"
    BY DEF Idle
  <1>a. ASSUME NEW s, req' = [req EXCEPT ![q] = s], s.phase # "insert", events' = events
        PROVE  FireInv'
    <2>1. ASSUME NEW e PROVE Inserting(e)' \subseteq Inserting(e)
      <3>1. req'[q] = s
        BY <1>a DEF TraceInv
      <3>2. q \notin Inserting(e)'
        BY <1>a, <3>1 DEF Inserting
      <3> QED BY <1>a, <3>2, OthersInsert
    <2> QED BY <1>a, <2>1, FireMoves
  <1>1. CASE \E w \in Principals : Arrive(q, w) \/ ArriveBlind(q, w)
    <2>1. PICK w, user, team : req' = [req EXCEPT ![q] = Fresh(w, user, team)]
      BY <1>1 DEF Arrive, ArriveBlind
    <2>2. PICK s : s = Fresh(w, user, team)
      OBVIOUS
    <2>3. s.phase # "insert"
      BY <2>2, FreshFact
    <2>4. events' = events
      BY <1>1 DEF Arrive, ArriveBlind
    <2> QED BY <1>a, <2>1, <2>2, <2>3, <2>4
  <1>2. CASE Hit(q) \/ Store(q)
    <2>1. PICK amount : req' = [req EXCEPT ![q] = Judged(r, amount)]
      BY <1>2 DEF Hit, Store
    <2>2. r.phase \in {"spend", "store"} /\ events' = events
      BY <1>2 DEF Hit, Store
    <2>3. Judging(r)
      BY <1>0, <2>2 DEF TraceInv, Verdict
    <2>4. PICK s : s = Judged(r, amount)
      OBVIOUS
    <2>5. s.phase # "insert"
      BY <2>2, <2>3, <2>4, JudgedFact
    <2> QED BY <1>a, <2>1, <2>2, <2>4, <2>5
  <1>3. CASE Query(q)
    <2>1. PICK amount : req' = [req EXCEPT ![q].phase = "store", ![q].spend = amount]
      BY <1>3 DEF Query
    <2>2. r.phase = "spend" /\ events' = events
      BY <1>3 DEF Query
    <2>3. Judging(r)
      BY <1>0, <2>2 DEF TraceInv, Verdict
    <2>4. PICK s : s = [r EXCEPT !.phase = "store", !.spend = amount]
      OBVIOUS
    <2>5. s.phase = "store"
      BY <2>3, <2>4 DEF Judging
    <2>6. req' = [req EXCEPT ![q] = s]
      BY <2>1, <2>4 DEF TraceInv
    <2> QED BY <1>a, <2>2, <2>5, <2>6
  <1>4. CASE Refuse(q) \/ Admit(q)
    <2>1. req' = [req EXCEPT ![q] = Idle] /\ events' = events
      BY <1>4 DEF Refuse, Admit
    <2> QED BY <1>0, <1>a, <2>1
  <1>5. CASE Count(q)
    <2>1. r.phase = "count" /\ events' = events
      BY <1>5 DEF Count
    <2>2. Judging(r)
      BY <1>0, <2>1 DEF TraceInv, Verdict
    <2>3. CASE req' = [req EXCEPT ![q] = After(r)]
      <3>1. PICK s : s = After(r)
        OBVIOUS
      <3>2. s.phase # "insert"
        BY <2>2, <3>1, AfterFact
      <3> QED BY <1>a, <2>1, <2>3, <3>1, <3>2
    <2>4. CASE /\ EventOf(q) \notin DOMAIN events
               /\ req' = [req EXCEPT ![q] = [r EXCEPT !.phase = "insert"]]
      <3>1. PICK s : s = [r EXCEPT !.phase = "insert"]
        OBVIOUS
      <3>2. req'[q] = s
        BY <2>4, <3>1 DEF TraceInv
      <3>3. s.level = r.level /\ s.who = r.who /\ s.decision = r.decision /\ s.start = r.start
        BY <3>1, <2>2 DEF Judging
      <3>4. EventOf(q)' = EventOf(q)
        BY <3>2, <3>3 DEF EventOf, ScopeOf
      <3>5. ASSUME NEW e \in DOMAIN events PROVE Inserting(e)' \subseteq Inserting(e)
        <4>1. q \notin Inserting(e)'
          BY <2>4, <3>4 DEF Inserting
        <4> QED BY <2>4, <4>1, OthersInsert
      <3> QED BY <2>1, <3>5, FireMoves
    <2>5. CASE req' = [req EXCEPT ![q] = After([r EXCEPT !.missed = TRUE])]
      BY <1>a, <2>1, <2>2, <2>5, Missed
    <2> QED BY <1>5, <2>3, <2>4, <2>5 DEF Count, Known
  <1>6. CASE Insert(q)
    <2>1. r.phase = "insert"
      BY <1>6 DEF Insert
    <2>2. Judging(r)
      BY <1>0, <2>1 DEF TraceInv, Verdict
    <2>3. CASE events' = WithRow(EventOf(q)) /\ req' = [req EXCEPT ![q] = After(r)]
      <3>1. PICK s : s = After(r)
        OBVIOUS
      <3>2. s.phase # "insert" /\ req'[q] = s
        BY <2>2, <2>3, <3>1, AfterFact DEF TraceInv
      <3>3. PICK f : f = EventOf(q)
        OBVIOUS
      <3>4. /\ DOMAIN events' = DOMAIN events \cup {f}
            /\ events' = [e \in DOMAIN events' |-> events'[e]]
            /\ \A e \in DOMAIN events : events'[e] = IF e = f THEN events[e] + 1 ELSE events[e]
            /\ f \notin DOMAIN events => events'[f] = 1
        <4>1. events' = WithRow(f)
          BY <2>3, <3>3
        <4>2. \A e \in DOMAIN events : events[e] \in Nat
          BY DEF FireInv
        <4> QED BY <4>1, <4>2, WithRowFact
      <3>5. ASSUME NEW e PROVE Inserting(e)' = Inserting(e) \ {q}
        <4>1. q \notin Inserting(e)'
          BY <3>2 DEF Inserting
        <4> QED BY <2>3, <4>1, OthersInsert
      <3>6. ASSUME NEW e \in DOMAIN events'
            PROVE  /\ events'[e] \in Nat
                   /\ events'[e] + Cardinality(Inserting(e)') <= Cardinality(Requests)
        <4>1. PICK S, n : S = Inserting(e) /\ n = Cardinality(Requests)
          OBVIOUS
        <4>2. /\ IsFiniteSet(S) /\ Cardinality(S) \in Nat /\ n \in Nat /\ Cardinality(S) <= n
          BY <4>1, InsertingFinite
        <4>3. /\ Cardinality(S \ {q}) = IF q \in S THEN Cardinality(S) - 1 ELSE Cardinality(S)
          BY <4>2, FS_RemoveElement
        <4>4. e \in DOMAIN events => events[e] \in Nat /\ events[e] + Cardinality(S) <= n
          BY <4>1 DEF FireInv
        <4>5. e = f => q \in S
          BY <2>1, <3>3, <4>1 DEF Inserting
        <4>6. PICK k, i, j : k = Cardinality(S) /\ i = events'[e] /\ j = Cardinality(Inserting(e)')
          OBVIOUS
        <4>7. k \in Nat /\ j = IF q \in S THEN k - 1 ELSE k
          <5>1. Inserting(e)' = S \ {q}
            BY <3>5, <4>1
          <5> QED BY <4>2, <4>3, <4>6, <5>1
        <4>8. q \in S => k # 0
          BY <4>2, <4>6, FS_EmptySet
        <4>9. CASE e \in DOMAIN events
          <5>1. PICK h : h = events[e]
            OBVIOUS
          <5>2. h \in Nat /\ h + k <= n /\ i = IF e = f THEN h + 1 ELSE h
            BY <3>4, <4>4, <4>6, <4>9, <5>1
          <5> QED BY <4>1, <4>2, <4>5, <4>6, <4>7, <4>8, <5>2
        <4>10. CASE e \notin DOMAIN events
          <5>1. e = f /\ i = 1
            BY <3>4, <4>6, <4>10
          <5> QED BY <4>1, <4>2, <4>5, <4>6, <4>7, <4>8, <5>1
        <4> QED BY <4>9, <4>10
      <3> QED BY <3>4, <3>6 DEF FireInv
    <2>4. CASE events' = events /\ req' = [req EXCEPT ![q] = After([r EXCEPT !.missed = TRUE])]
      <3>1. PICK s : s = After([r EXCEPT !.missed = TRUE])
        OBVIOUS
      <3>2. s.phase # "insert"
        BY <2>2, <3>1, Missed
      <3> QED BY <1>a, <2>4, <3>1, <3>2
    <2> QED BY <1>6, <2>3, <2>4 DEF Insert
  <1> QED BY <1>1, <1>2, <1>3, <1>4, <1>5, <1>6 DEF Serve

BudgetInv == TraceInv /\ FireInv

LEMMA AlwaysBudgetInv == BudgetSpec => []BudgetInv
  <1>1. BudgetInit => BudgetInv
    <2> SUFFICES ASSUME BudgetInit PROVE BudgetInv
      OBVIOUS
    <2>1. TraceInv
      BY DEF BudgetInit, TraceInv
    <2>2. DOMAIN events = {} /\ events = [e \in DOMAIN events |-> events[e]]
      BY DEF BudgetInit
    <2> QED BY <2>1, <2>2 DEF BudgetInv, FireInv
  <1>2. BudgetInv /\ [BudgetNext]_budgetVars => BudgetInv'
    <2> SUFFICES ASSUME BudgetInv, [BudgetNext]_budgetVars PROVE BudgetInv'
      OBVIOUS
    <2>1. ASSUME NEW q \in Requests,
                 Serve(q) \/ (\E w \in Principals : Arrive(q, w) \/ ArriveBlind(q, w))
          PROVE  BudgetInv'
      BY <2>1, TraceRequest, FireRequest, BudgetAssumption DEF BudgetInv
    <2>2. CASE UNCHANGED <<req, events>>
      BY <2>2 DEF BudgetInv, TraceInv, FireInv, Inserting, EventOf, ScopeOf
    <2> QED BY <2>1, <2>2 DEF BudgetNext, budgetVars, Expire, Charge, NextDay
  <1> QED BY <1>1, <1>2, PTL DEF BudgetSpec

\* For any number of requests and replicas, whatever the cache says and
\* Postgres answers: insert_event() lets a threshold of a period fire at most
\* once for each request that was in progress when it was passed.
THEOREM FiresAreBounded == BudgetSpec => []FiresOncePerRequest
  <1>1. BudgetInv => FiresOncePerRequest
    <2> SUFFICES ASSUME BudgetInv, NEW e \in DOMAIN events
                 PROVE  events[e] <= Cardinality(Requests)
      BY DEF FiresOncePerRequest
    <2>1. PICK n, k : n = Cardinality(Requests) /\ k = Cardinality(Inserting(e))
      OBVIOUS
    <2>2. n \in Nat /\ k \in Nat
      BY <2>1, InsertingFinite, BudgetAssumption
    <2>3. events[e] \in Nat /\ events[e] + k <= n
      BY <2>1 DEF BudgetInv, FireInv
    <2> QED BY <2>1, <2>2, <2>3
  <1> QED BY <1>1, AlwaysBudgetInv, PTL

\* check_budget() and check_team_budget_only() block nobody without an event of
\* the threshold that blocks, for all policies, rows and interleavings.
THEOREM BlocksAreTraced == BudgetSpec => []NoSilentBlock
  <1>1. BudgetInv => NoSilentBlock
    <2> SUFFICES ASSUME BudgetInv, NEW q \in Requests, req[q].phase = "decided",
                        req[q].final.kind = "block", ~req[q].missed
                 PROVE  Traced(req[q], DOMAIN events)
      BY DEF NoSilentBlock, Traced
    <2>1. Idle.phase # "decided"
      BY DEF Idle
    <2> QED BY <2>1 DEF BudgetInv, TraceInv, Judging, Traceable
  <1> QED BY <1>1, AlwaysBudgetInv, PTL
=============================================================================
