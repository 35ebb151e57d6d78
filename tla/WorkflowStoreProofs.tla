------------------------- MODULE WorkflowStoreProofs -------------------------
(***************************************************************************)
(* Proofs about WorkflowStore, for any number of callers, request IDs,     *)
(* batches and limits and for any authority replay.                        *)
(***************************************************************************)
EXTENDS WorkflowStore, SequenceTheorems, TLAPS

-----------------------------------------------------------------------------
(***************************************************************************)
(* Facts about the tables.                                                 *)
(***************************************************************************)
Entry(o) == [id |-> o.id, end |-> o.end]

\* The log of operation entries has one entry per operation.
LEMMA LogType ==
    ASSUME NEW ops \in Seq(Operation)
    PROVE  /\ Log(ops) \in Seq([id: RequestIds, end: Nat])
           /\ Len(Log(ops)) = Len(ops)
           /\ \A i \in 1..Len(ops) : Log(ops)[i] = Entry(ops[i])
<1>1. Len(ops) \in Nat /\ \A i \in 1..Len(ops) : ops[i] \in Operation
  OBVIOUS
<1>2. \A i \in 1..Len(ops) : Entry(ops[i]) \in [id: RequestIds, end: Nat]
  BY <1>1 DEF Entry, Operation
<1> QED
  BY <1>1, <1>2 DEF Log, Entry

\* Appending an operation appends its entry.
LEMMA LogOfAppend ==
    ASSUME NEW ops \in Seq(Operation), NEW o \in Operation
    PROVE  Log(Append(ops, o)) = Append(Log(ops), Entry(o))
<1> DEFINE S == [id: RequestIds, end: Nat]
<1>1. /\ Append(ops, o) \in Seq(Operation)
      /\ Len(Append(ops, o)) = Len(ops) + 1
      /\ \A i \in 1..Len(ops) : Append(ops, o)[i] = ops[i]
      /\ Append(ops, o)[Len(ops) + 1] = o
  BY AppendProperties
<1>2. Entry(o) \in S
  BY DEF Entry, Operation
<1>3. /\ Log(ops) \in Seq(S) /\ Len(Log(ops)) = Len(ops)
      /\ \A i \in 1..Len(ops) : Log(ops)[i] = Entry(ops[i])
  BY LogType
<1>4. /\ Log(Append(ops, o)) \in Seq(S) /\ Len(Log(Append(ops, o))) = Len(ops) + 1
      /\ \A i \in 1..Len(ops) + 1 : Log(Append(ops, o))[i] = Entry(Append(ops, o)[i])
  BY <1>1, LogType
<1>5. /\ Append(Log(ops), Entry(o)) \in Seq(S)
      /\ Len(Append(Log(ops), Entry(o))) = Len(ops) + 1
      /\ \A i \in 1..Len(ops) : Append(Log(ops), Entry(o))[i] = Log(ops)[i]
      /\ Append(Log(ops), Entry(o))[Len(ops) + 1] = Entry(o)
  BY <1>2, <1>3, AppendProperties
<1>6. \A i \in 1..Len(ops) + 1 : Log(Append(ops, o))[i] = Append(Log(ops), Entry(o))[i]
  <2> TAKE i \in 1..Len(ops) + 1
  <2>1. CASE i \in 1..Len(ops)
    BY <2>1, <1>1, <1>3, <1>4, <1>5
  <2>2. CASE i = Len(ops) + 1
    BY <2>2, <1>1, <1>4, <1>5
  <2>3. Len(ops) \in Nat
    BY LenProperties
  <2>4. i \in 1..Len(ops) \/ i = Len(ops) + 1
    BY <2>3
  <2> QED BY <2>1, <2>2, <2>4
<1> QED
  BY <1>4, <1>5, <1>6, SeqEqual

\* A prefix of a sequence is a prefix of what it is extended to.
LEMMA PrefixOfConcat ==
    ASSUME NEW S, NEW s \in Seq(S), NEW t \in Seq(S), NEW m \in 1..Len(s) + 1,
           NEW n \in 0..Len(s)
    PROVE  SubSeq(s \o t, m, n) = SubSeq(s, m, n)
<1>1. CASE n < m
  BY <1>1, SubSeqEmpty
<1>2. CASE ~(n < m)
  BY <1>2, SubSeqOfConcat1
<1> QED BY <1>1, <1>2

\* What was appended is found again behind what was there.
LEMMA SuffixOfConcat ==
    ASSUME NEW S, NEW s \in Seq(S), NEW t \in Seq(S), t # <<>>
    PROVE  SubSeq(s \o t, Len(s) + 1, Len(s) + Len(t)) = t
<1>1. Len(t) \in Nat /\ Len(t) # 0 /\ Len(s) \in Nat
  BY EmptySeq
<1>2. SubSeq(s \o t, Len(s) + 1, Len(s) + Len(t)) =
          SubSeq(t, (Len(s) + 1) - Len(s), (Len(s) + Len(t)) - Len(s))
  BY <1>1, SubSeqOfConcat2
<1>3. (Len(s) + 1) - Len(s) = 1 /\ (Len(s) + Len(t)) - Len(s) = Len(t)
  BY <1>1
<1> QED BY <1>2, <1>3, SubSeqFull

\* An append leaves well-typed tables.
LEMMA ExtendedType ==
    ASSUME NEW d \in Tables, NEW r \in Request
    PROVE  /\ Extended(d, r) \in Tables
           /\ Extended(d, r).receipts = d.receipts \o r.batch
           /\ Extended(d, r).operations =
                  Append(d.operations, [id |-> r.id, end |-> Len(d.receipts) + Len(r.batch),
                                        digest |-> r])
           /\ Extended(d, r).meta = [receipts |-> Extended(d, r).receipts,
                                     log |-> Log(Extended(d, r).operations)]
           /\ [id |-> r.id, end |-> Len(d.receipts) + Len(r.batch), digest |-> r]
                  \in Operation
<1> DEFINE receipts == d.receipts \o r.batch
           o == [id |-> r.id, end |-> Len(receipts), digest |-> r]
           ops == Append(d.operations, o)
           meta == [receipts |-> receipts, log |-> Log(ops)]
<1>1. d.receipts \in Seq(Transitions) /\ d.operations \in Seq(Operation)
  BY DEF Tables
<1>2. r.id \in RequestIds /\ r.batch \in Seq(Transitions)
  BY DEF Request
<1>3. receipts \in Seq(Transitions) /\ Len(receipts) = Len(d.receipts) + Len(r.batch)
  BY <1>1, <1>2, ConcatProperties
<1>4. Len(receipts) \in Nat
  BY <1>3, LenProperties
<1>5. o \in Operation
  BY <1>2, <1>4 DEF Operation
<1>6. ops \in Seq(Operation)
  BY <1>1, <1>5, AppendProperties
<1>7. Log(ops) \in Seq([id: RequestIds, end: Nat])
  BY <1>6, LogType
<1>8. meta \in Checkpoint
  BY <1>3, <1>7 DEF Checkpoint
<1>9. Extended(d, r) = [receipts |-> receipts, operations |-> ops, meta |-> meta]
  BY DEF Extended
<1>10. o = [id |-> r.id, end |-> Len(d.receipts) + Len(r.batch), digest |-> r]
  BY <1>3
<1> HIDE DEF receipts, o, ops, meta
<1>11. Extended(d, r) \in Tables
  BY <1>3, <1>6, <1>8, <1>9 DEF Tables
<1>12. /\ Extended(d, r).receipts = receipts /\ Extended(d, r).operations = ops
       /\ Extended(d, r).meta = meta
  BY <1>9
<1> QED
  BY <1>5, <1>10, <1>11, <1>12 DEF receipts, ops, meta

\* Every receipt range starts inside the receipts.
LEMMA StartBounds ==
    ASSUME NEW d \in Tables, Verifies(d), NEW i \in 1..Len(d.operations) + 1
    PROVE  /\ Start(d.operations, i) \in 0..Len(d.receipts)
           /\ i <= Len(d.operations) =>
                  Start(d.operations, i) < d.operations[i].end
                  /\ d.operations[i].end \in 1..Len(d.receipts)
<1>1. /\ d.receipts \in Seq(Transitions) /\ Len(d.receipts) \in Nat
      /\ d.operations \in Seq(Operation) /\ Len(d.operations) \in Nat
  BY LenProperties DEF Tables
<1>2. Imported \in Seq(Transitions) /\ Len(Imported) \in Nat
  BY StoreAssumption, LenProperties
<1>3. \A j \in 1..Len(d.operations) :
          d.operations[j].end \in Nat
          /\ d.operations[j].end \in (Start(d.operations, j) + 1)..Len(d.receipts)
  <2> TAKE j \in 1..Len(d.operations)
  <2>1. d.operations[j] \in Operation
    BY <1>1, ElementOfSeq
  <2>2. d.operations[j].end \in Nat
    BY <2>1 DEF Operation
  <2> QED BY <2>2 DEF Verifies
<1>4. \A j \in 1..Len(d.operations) + 1 : Start(d.operations, j) \in Nat
  BY <1>1, <1>2, <1>3 DEF Start
<1>5. CASE i <= Len(d.operations)
  BY <1>1, <1>3, <1>4, <1>5
<1>6. CASE i = Len(d.operations) + 1
  <2>1. Start(d.operations, Len(d.operations) + 1) = Len(d.receipts)
    BY DEF Verifies
  <2> QED BY <2>1, <1>1, <1>6
<1> QED BY <1>1, <1>5, <1>6

\* An append changes nothing before the operation it adds.
LEMMA ExtendedKeeps ==
    ASSUME NEW d \in Tables, Verifies(d), NEW r \in Request,
           NEW i \in 1..Len(d.operations) + 1
    PROVE  LET e == Extended(d, r)
           IN  /\ Start(e.operations, i) = Start(d.operations, i)
               /\ CheckpointBefore(e, i) = CheckpointBefore(d, i)
               /\ i <= Len(d.operations) => /\ e.operations[i] = d.operations[i]
                                            /\ Recomputed(e, i) = Recomputed(d, i)
<1> DEFINE e == Extended(d, r)
           o == [id |-> r.id, end |-> Len(d.receipts) + Len(r.batch), digest |-> r]
<1>1. /\ d.receipts \in Seq(Transitions) /\ Len(d.receipts) \in Nat
      /\ d.operations \in Seq(Operation) /\ Len(d.operations) \in Nat
      /\ r.batch \in Seq(Transitions)
  BY LenProperties DEF Tables, Request
<1>2. /\ e.receipts = d.receipts \o r.batch
      /\ e.operations = Append(d.operations, o) /\ o \in Operation
  BY ExtendedType
<1> HIDE DEF e, o
<1>3. \A j \in 1..Len(d.operations) : e.operations[j] = d.operations[j]
  BY <1>1, <1>2, AppendProperties
<1>4. Start(e.operations, i) = Start(d.operations, i)
  BY <1>1, <1>3 DEF Start
<1>5. Start(d.operations, i) \in 0..Len(d.receipts)
  BY StartBounds
<1>6. SubSeq(e.receipts, 1, Start(d.operations, i)) = SubSeq(d.receipts, 1, Start(d.operations, i))
  <2> DEFINE n == Start(d.operations, i)
  <2>1. 1 \in 1..Len(d.receipts) + 1 /\ n \in 0..Len(d.receipts)
    BY <1>1, <1>5
  <2> HIDE DEF n
  <2>2. SubSeq(d.receipts \o r.batch, 1, n) = SubSeq(d.receipts, 1, n)
    BY <1>1, <2>1, PrefixOfConcat
  <2> QED BY <1>2, <2>2 DEF n
<1>7. SubSeq(Log(e.operations), 1, i - 1) = SubSeq(Log(d.operations), 1, i - 1)
  <2>1. Log(e.operations) = Append(Log(d.operations), Entry(o))
    BY <1>1, <1>2, LogOfAppend
  <2>2. Entry(o) \in [id: RequestIds, end: Nat]
    BY <1>2 DEF Entry, Operation
  <2>3. /\ Log(d.operations) \in Seq([id: RequestIds, end: Nat])
        /\ Len(Log(d.operations)) = Len(d.operations)
    BY <1>1, LogType
  <2>4. <<Entry(o)>> \in Seq([id: RequestIds, end: Nat])
    BY <2>2
  <2>5. Append(Log(d.operations), Entry(o)) = Log(d.operations) \o <<Entry(o)>>
    BY <2>2, <2>3, AppendIsConcat
  <2> QED BY <2>1, <2>3, <2>4, <2>5, <1>1, PrefixOfConcat
<1>8. CheckpointBefore(e, i) = CheckpointBefore(d, i)
  BY <1>4, <1>6, <1>7 DEF CheckpointBefore
<1>9. ASSUME i <= Len(d.operations)
      PROVE  e.operations[i] = d.operations[i] /\ Recomputed(e, i) = Recomputed(d, i)
  <2>1. e.operations[i] = d.operations[i]
    BY <1>1, <1>3, <1>9
  <2>2. d.operations[i].end \in 1..Len(d.receipts)
    BY <1>9, StartBounds
  <2>3. SubSeq(e.receipts, Start(d.operations, i) + 1, d.operations[i].end) =
            SubSeq(d.receipts, Start(d.operations, i) + 1, d.operations[i].end)
    <3> DEFINE m == Start(d.operations, i) + 1
               n == d.operations[i].end
    <3>1. m \in 1..Len(d.receipts) + 1 /\ n \in 0..Len(d.receipts)
      BY <1>1, <1>5, <2>2
    <3> HIDE DEF m, n
    <3>2. SubSeq(d.receipts \o r.batch, m, n) = SubSeq(d.receipts, m, n)
      BY <1>1, <3>1, PrefixOfConcat
    <3> QED BY <1>2, <3>2 DEF m, n
  <2> QED BY <1>4, <1>8, <2>1, <2>3 DEF Recomputed
<1> QED BY <1>4, <1>8, <1>9 DEF e

\* What an append may add.
Committable(d, r) ==
    /\ r.batch # <<>> /\ Len(r.batch) <= MaxAppendRecords
    /\ r.expected = d.meta
    /\ r.id \notin UsedIds(d)
    /\ WithinLimits(r)
    /\ Authorized(d.receipts, r.batch)

UniqueIds(d) ==
    \A i, j \in 1..Len(d.operations) : d.operations[i].id = d.operations[j].id => i = j

\* The stored checkpoint is the last point of the history.
LEMMA MetaIsLast ==
    ASSUME NEW d \in Tables, Verifies(d)
    PROVE  CheckpointBefore(d, Len(d.operations) + 1) = d.meta
<1>1. /\ d.receipts \in Seq(Transitions) /\ d.operations \in Seq(Operation)
      /\ Len(d.operations) \in Nat
  BY LenProperties DEF Tables
<1>2. /\ Log(d.operations) \in Seq([id: RequestIds, end: Nat])
      /\ Len(Log(d.operations)) = Len(d.operations)
  BY <1>1, LogType
<1>3. SubSeq(d.receipts, 1, Len(d.receipts)) = d.receipts
  BY <1>1, SubSeqFull
<1>4. SubSeq(Log(d.operations), 1, (Len(d.operations) + 1) - 1) = Log(d.operations)
  <2>1. (Len(d.operations) + 1) - 1 = Len(Log(d.operations))
    BY <1>1, <1>2
  <2> QED BY <2>1, <1>2, SubSeqFull
<1> QED BY <1>3, <1>4 DEF Verifies, CheckpointBefore

\* Arithmetic of the ranges.
LEMMA InRange ==
    ASSUME NEW a \in Nat, NEW b \in Nat, NEW c \in Nat, NEW k \in Nat, a < b, b <= c
    PROVE  b \in (a + 1)..(c + k)
OBVIOUS

LEMMA LastInRange ==
    ASSUME NEW a \in Nat, NEW b \in Nat, b > 0
    PROVE  a + b \in (a + 1)..(a + b)
OBVIOUS

\* A committable request keeps the tables verifiable and the IDs unique.
LEMMA ExtendedVerifies ==
    ASSUME NEW d \in Tables, Verifies(d), UniqueIds(d), NEW r \in Request, Committable(d, r)
    PROVE  Verifies(Extended(d, r)) /\ UniqueIds(Extended(d, r))
<1> DEFINE e == Extended(d, r)
           n == Len(d.operations)
           o == [id |-> r.id, end |-> Len(d.receipts) + Len(r.batch), digest |-> r]
<1>1. /\ d.receipts \in Seq(Transitions) /\ Len(d.receipts) \in Nat
      /\ d.operations \in Seq(Operation) /\ n \in Nat
      /\ r.batch \in Seq(Transitions) /\ Len(r.batch) \in Nat
  BY LenProperties DEF Tables, Request
<1>2. /\ e \in Tables
      /\ e.receipts = d.receipts \o r.batch
      /\ e.operations = Append(d.operations, o) /\ o \in Operation
      /\ e.meta = [receipts |-> e.receipts, log |-> Log(e.operations)]
  BY ExtendedType
<1>3. o.id = r.id /\ o.end = Len(d.receipts) + Len(r.batch) /\ o.digest = r
  OBVIOUS
<1>4. Len(r.batch) > 0
  BY <1>1, EmptySeq DEF Committable
<1> HIDE DEF e, o
<1>5. Len(e.operations) = n + 1 /\ e.operations[n + 1] = o
  BY <1>1, <1>2, AppendProperties
<1>6. Len(e.receipts) = Len(d.receipts) + Len(r.batch)
  BY <1>1, <1>2, ConcatProperties
<1>7. \A i \in 1..n + 1 : /\ Start(e.operations, i) = Start(d.operations, i)
                          /\ CheckpointBefore(e, i) = CheckpointBefore(d, i)
  BY ExtendedKeeps DEF e
<1>8. \A i \in 1..n : e.operations[i] = d.operations[i] /\ Recomputed(e, i) = Recomputed(d, i)
  BY <1>1, ExtendedKeeps DEF e
<1>9. Start(d.operations, n + 1) = Len(d.receipts)
  BY DEF Verifies
<1>10. Recomputed(e, n + 1) = r
  <2>1. CheckpointBefore(e, n + 1) = r.expected
    BY <1>1, <1>7, MetaIsLast DEF Committable
  <2>2. SubSeq(e.receipts, Start(e.operations, n + 1) + 1, e.operations[n + 1].end) = r.batch
    <3>1. SubSeq(d.receipts \o r.batch, Len(d.receipts) + 1, Len(d.receipts) + Len(r.batch))
              = r.batch
      BY <1>1, SuffixOfConcat DEF Committable
    <3>2. Start(e.operations, n + 1) = Len(d.receipts)
      BY <1>1, <1>7, <1>9
    <3> QED BY <1>2, <1>3, <1>5, <3>1, <3>2
  <2>3. e.operations[n + 1].id = r.id
    BY <1>3, <1>5
  <2>4. r = [id |-> r.id, expected |-> r.expected, batch |-> r.batch]
    BY DEF Request
  <2> QED BY <2>1, <2>2, <2>3, <2>4 DEF Recomputed
<1>11. ASSUME NEW i \in 1..n + 1
       PROVE  /\ e.operations[i].end \in (Start(e.operations, i) + 1)..Len(e.receipts)
              /\ e.operations[i].digest = Recomputed(e, i)
              /\ Len(Recomputed(e, i).batch) <= MaxAppendRecords
              /\ Authorized(Recomputed(e, i).expected.receipts, Recomputed(e, i).batch)
  <2>1. CASE i \in 1..n
    <3>1. e.operations[i].end = d.operations[i].end
          /\ Start(e.operations, i) = Start(d.operations, i)
      BY <1>1, <1>7, <1>8, <2>1
    <3>2. /\ e.operations[i].digest = Recomputed(e, i)
          /\ Len(Recomputed(e, i).batch) <= MaxAppendRecords
          /\ Authorized(Recomputed(e, i).expected.receipts, Recomputed(e, i).batch)
      BY <1>8, <2>1 DEF Verifies
    <3>3. /\ Start(d.operations, i) \in 0..Len(d.receipts)
          /\ Start(d.operations, i) < d.operations[i].end
          /\ d.operations[i].end \in 1..Len(d.receipts)
      BY <1>1, <2>1, StartBounds
    <3>4. e.operations[i].end \in (Start(e.operations, i) + 1)..Len(e.receipts)
      <4>1. /\ Start(d.operations, i) \in Nat /\ d.operations[i].end \in Nat
            /\ d.operations[i].end <= Len(d.receipts)
        BY <1>1, <3>3
      <4>2. d.operations[i].end \in (Start(d.operations, i) + 1)..Len(d.receipts) + Len(r.batch)
        BY <1>1, <3>3, <4>1, InRange
      <4> QED BY <1>6, <3>1, <4>2
    <3> QED BY <3>2, <3>4
  <2>2. CASE i = n + 1
    <3>1. r.expected.receipts = d.receipts
      BY DEF Committable, Verifies
    <3>2. Authorized(r.expected.receipts, r.batch) /\ Len(r.batch) <= MaxAppendRecords
      BY <3>1 DEF Committable
    <3>3. e.operations[i].end \in (Start(e.operations, i) + 1)..Len(e.receipts)
      <4>1. Start(e.operations, i) = Len(d.receipts)
        BY <1>7, <1>9, <2>2
      <4>2. e.operations[i].end = Len(d.receipts) + Len(r.batch)
        BY <1>3, <1>5, <2>2
      <4>3. Len(d.receipts) + Len(r.batch) \in (Len(d.receipts) + 1)..Len(d.receipts) + Len(r.batch)
        BY <1>1, <1>4, LastInRange
      <4> QED BY <1>6, <4>1, <4>2, <4>3
    <3> QED BY <1>3, <1>5, <1>10, <2>2, <3>2, <3>3
  <2>3. i \in 1..n \/ i = n + 1
    BY <1>1
  <2> QED BY <2>1, <2>2, <2>3
<1>12. Start(e.operations, Len(e.operations) + 1) = Len(e.receipts)
  <2>1. Len(e.operations) + 1 # 1 /\ (Len(e.operations) + 1) - 1 = n + 1
    BY <1>1, <1>5
  <2> QED BY <1>3, <1>5, <1>6, <2>1 DEF Start
<1>13. Len(e.receipts) <= MaxRecords /\ Len(e.operations) <= MaxOperations
  <2>1. r.expected.receipts = d.receipts /\ r.expected.log = Log(d.operations)
    BY DEF Committable, Verifies
  <2>2. Len(Log(d.operations)) = n
    BY <1>1, LogType
  <2>3. Len(d.receipts) + Len(r.batch) <= MaxRecords /\ n < MaxOperations
    BY <2>1, <2>2 DEF Committable, WithinLimits
  <2>4. n + 1 <= MaxOperations
    BY <1>1, <2>3, StoreAssumption
  <2> QED BY <1>5, <1>6, <2>3, <2>4
<1>14. Verifies(e)
  BY <1>2, <1>5, <1>11, <1>12, <1>13 DEF Verifies
<1>15. UniqueIds(e)
  <2> SUFFICES ASSUME NEW i \in 1..n + 1, NEW j \in 1..n + 1,
                      e.operations[i].id = e.operations[j].id
               PROVE  i = j
    BY <1>5 DEF UniqueIds
  <2>1. \A k \in 1..n : e.operations[k].id = d.operations[k].id /\ d.operations[k].id # r.id
    BY <1>8 DEF Committable, UsedIds
  <2>2. CASE i \in 1..n /\ j \in 1..n
    BY <2>1, <2>2 DEF UniqueIds
  <2>3. CASE i = n + 1 \/ j = n + 1
    <3>1. e.operations[n + 1].id = r.id
      BY <1>3, <1>5
    <3>2. i \notin 1..n /\ j \notin 1..n
      BY <2>1, <2>3, <3>1
    <3> QED BY <1>1, <3>2
  <2>4. (i \in 1..n /\ j \in 1..n) \/ i = n + 1 \/ j = n + 1
    BY <1>1
  <2> QED BY <2>2, <2>3, <2>4
<1> QED BY <1>14, <1>15 DEF e

\* An append keeps every point of the history.
LEMMA HistoryGrows ==
    ASSUME NEW d \in Tables, Verifies(d), NEW r \in Request
    PROVE  History(d) \subseteq History(Extended(d, r))
<1> DEFINE e == Extended(d, r)
<1>1. d.operations \in Seq(Operation) /\ Len(d.operations) \in Nat
  BY LenProperties DEF Tables
<1> DEFINE o == [id |-> r.id, end |-> Len(d.receipts) + Len(r.batch), digest |-> r]
<1>2. Len(e.operations) = Len(d.operations) + 1
  <2>1. e.operations = Append(d.operations, o) /\ o \in Operation
    BY ExtendedType
  <2> HIDE DEF e, o
  <2> QED BY <1>1, <2>1, AppendProperties
<1> HIDE DEF e
<1> SUFFICES ASSUME NEW i \in 1..Len(d.operations) + 1
             PROVE  CheckpointBefore(d, i) \in History(e)
  BY DEF History, e
<1>3. CheckpointBefore(e, i) = CheckpointBefore(d, i)
  BY ExtendedKeeps DEF e
<1>4. i \in 1..Len(e.operations) + 1
  BY <1>1, <1>2
<1> QED BY <1>3, <1>4 DEF History

\* A committed request leads to the point after its operation.
LEMMA ResultInHistory ==
    ASSUME NEW d \in Tables, Verifies(d), NEW i \in 1..Len(d.operations)
    PROVE  ResultOf(d.operations[i].digest) = CheckpointBefore(d, i + 1)
<1> DEFINE r == d.operations[i].digest
           start == Start(d.operations, i)
           end == d.operations[i].end
<1>1. /\ d.receipts \in Seq(Transitions) /\ Len(d.receipts) \in Nat
      /\ d.operations \in Seq(Operation) /\ Len(d.operations) \in Nat
  BY LenProperties DEF Tables
<1>2. /\ start \in 0..Len(d.receipts) /\ end \in 1..Len(d.receipts) /\ start < end
  BY <1>1, StartBounds
<1>3. /\ r.id = d.operations[i].id
      /\ r.expected.receipts = SubSeq(d.receipts, 1, start)
      /\ r.expected.log = SubSeq(Log(d.operations), 1, i - 1)
      /\ r.batch = SubSeq(d.receipts, start + 1, end)
  <2>1. r = Recomputed(d, i)
    BY DEF Verifies
  <2>2. /\ Recomputed(d, i).id = d.operations[i].id
        /\ Recomputed(d, i).expected = CheckpointBefore(d, i)
        /\ Recomputed(d, i).batch = SubSeq(d.receipts, start + 1, end)
    BY DEF Recomputed
  <2>3. /\ CheckpointBefore(d, i).receipts = SubSeq(d.receipts, 1, start)
        /\ CheckpointBefore(d, i).log = SubSeq(Log(d.operations), 1, i - 1)
    BY DEF CheckpointBefore
  <2> HIDE DEF r, start, end
  <2> QED BY <2>1, <2>2, <2>3
<1>4. Start(d.operations, i + 1) = end
  BY <1>1 DEF Start
<1> HIDE DEF r, start, end
<1>5. r.expected.receipts \o r.batch = SubSeq(d.receipts, 1, end)
  <2>1. 1 \in 1..Len(d.receipts) + 1 /\ start \in 1 - 1..Len(d.receipts)
        /\ end \in start..Len(d.receipts)
    BY <1>1, <1>2
  <2> QED BY <1>1, <1>3, <2>1, ConcatAdjacentSubSeq
<1>6. Len(r.expected.receipts) + Len(r.batch) = end
  <2>1. \A k \in 1..Len(d.receipts) : d.receipts[k] \in Transitions
    BY <1>1
  <2>2. Len(SubSeq(d.receipts, 1, start)) = start
    BY <1>1, <1>2, <2>1, SubSeqProperties
  <2>3. Len(SubSeq(d.receipts, start + 1, end)) = end - start
    BY <1>1, <1>2, <2>1, SubSeqProperties
  <2> QED BY <1>2, <1>3, <2>2, <2>3
<1>7. Append(r.expected.log, [id |-> r.id, end |-> end]) = SubSeq(Log(d.operations), 1, i)
  <2> DEFINE S == [id: RequestIds, end: Nat]
             log == Log(d.operations)
  <2>1. log \in Seq(S) /\ Len(log) = Len(d.operations) /\ log[i] = Entry(d.operations[i])
    BY <1>1, LogType
  <2>2. Entry(d.operations[i]) = [id |-> r.id, end |-> end]
    BY <1>3 DEF Entry, end
  <2>3. log[i] \in S
    BY <2>1, ElementOfSeq
  <2>4. SubSeq(log, 1, i - 1) \in Seq(S)
    <3> HIDE DEF log, S
    <3>1. \A k \in 1..i - 1 : log[k] \in S
      <4> TAKE k \in 1..i - 1
      <4>1. k \in 1..Len(log)
        BY <1>1, <2>1
      <4> QED BY <2>1, <4>1, ElementOfSeq
    <3> QED BY <3>1, SubSeqProperties
  <2> HIDE DEF log, S
  <2>5. SubSeq(log, 1, i) = SubSeq(log, 1, i - 1) \o <<log[i]>>
    BY <2>1, <1>1, SubSeqRecursiveSecond
  <2>6. Append(SubSeq(log, 1, i - 1), log[i]) = SubSeq(log, 1, i - 1) \o <<log[i]>>
    BY <2>3, <2>4, AppendIsConcat
  <2> QED BY <2>1, <2>2, <2>5, <2>6, <1>3 DEF log
<1>8. (i + 1) - 1 = i
  OBVIOUS
<1>9. ResultOf(r) = [receipts |-> SubSeq(d.receipts, 1, end),
                     log |-> SubSeq(Log(d.operations), 1, i)]
  BY <1>5, <1>6, <1>7 DEF ResultOf
<1> QED BY <1>4, <1>8, <1>9 DEF CheckpointBefore, r

-----------------------------------------------------------------------------
(***************************************************************************)
(* The inductive invariant.  Its parts say who holds the write lock, what  *)
(* an open transaction would commit, and how far each call has come.       *)
(***************************************************************************)
\* A writing transaction holds the lock from BEGIN IMMEDIATE to COMMIT.
LockHeld ==
    \A p \in Callers :
        \/ phase[p] \in {"staged", "committing"}
        \/ phase[p] = "reading" /\ kind[p] = "append"
        => writer = p

\* What is staged is the current tables with a request they can take.
StagedFits ==
    \A p \in Callers :
        phase[p] \in {"staged", "committing"} =>
            /\ Committable(db, request[p])
            /\ staged[p] = Extended(db, request[p])

\* A call has a request, and a retained batch is neither empty nor too long.
RequestFits ==
    \A p \in Callers :
        /\ phase[p] # "idle" => request[p] # NoRequest
        /\ request[p] # NoRequest =>
              request[p].batch # <<>> /\ Len(request[p].batch) <= MaxAppendRecords

\* The outcome says what is known of this attempt at every step of the call.
OutcomeFits ==
    \A p \in Callers :
        /\ phase[p] \notin {"idle", "dead"} => report[p] = "nothing"
        /\ phase[p] \in {"opening", "reading", "staged"} => outcome[p] = "none"
        /\ phase[p] \in {"opening", "reading", "staged", "committing"} => ~landed[p]
        /\ phase[p] \in {"committing", "landed"} => outcome[p] = "unknown"
        /\ phase[p] \in {"staged", "committing", "landed"} => verdict[p] = "commit"
        /\ phase[p] = "landed" => request[p] \in Committed(db)
        /\ phase[p] = "settling" =>
              /\ verdict[p] # "pending"
              /\ outcome[p] = "none" => ~landed[p]
              /\ outcome[p] = "complete" => request[p] \in Committed(db)
              /\ verdict[p] = "commit" => outcome[p] = "complete"
              /\ verdict[p] \in {"absent", "refused"} => outcome[p] = "none"

\* Before the first commit the tables are the imported ones.
ImportedFirst == db.operations = <<>> => db.meta = Genesis

Inv ==
    /\ TypeOK
    /\ StoreVerifies
    /\ ImportedFirst
    /\ LockHeld
    /\ StagedFits
    /\ RequestFits
    /\ OutcomeFits
    /\ ReportsTruthful
    /\ NoForks

-----------------------------------------------------------------------------
\* A request is not the mark of having none.
LEMMA RequestOrNone ==
    ASSUME TypeOK, NEW p \in Callers, request[p] # NoRequest
    PROVE  request[p] \in Request
BY DEF TypeOK

LEMMA GenesisType ==
    Genesis \in Checkpoint /\ EmptyStore \in Tables
<1>1. Imported \in Seq(Transitions) /\ <<>> \in Seq([id: RequestIds, end: Nat])
      /\ <<>> \in Seq(Operation)
  BY StoreAssumption, EmptySeq
<1>2. Genesis \in Checkpoint
  BY <1>1 DEF Genesis, Checkpoint
<1> QED BY <1>1, <1>2 DEF EmptyStore, Tables

LEMMA ResultType ==
    ASSUME NEW r \in Request PROVE ResultOf(r) \in Checkpoint
<1>1. /\ r.id \in RequestIds /\ r.batch \in Seq(Transitions)
      /\ r.expected \in Checkpoint
  BY DEF Request
<1>2. /\ r.expected.receipts \in Seq(Transitions)
      /\ r.expected.log \in Seq([id: RequestIds, end: Nat])
  BY <1>1 DEF Checkpoint
<1>3. r.expected.receipts \o r.batch \in Seq(Transitions)
  BY <1>1, <1>2, ConcatProperties
<1> DEFINE end == Len(r.expected.receipts) + Len(r.batch)
           x == [id |-> r.id, end |-> end]
<1>4. x \in [id: RequestIds, end: Nat]
  <2>1. Len(r.expected.receipts \o r.batch) = end
    BY <1>1, <1>2, ConcatProperties
  <2>2. end \in Nat
    BY <1>3, <2>1, LenProperties
  <2> HIDE DEF end
  <2> QED BY <1>1, <2>2
<1> HIDE DEF x
<1>5. Append(r.expected.log, x) \in Seq([id: RequestIds, end: Nat])
  BY <1>2, <1>4, AppendProperties
<1> QED BY <1>3, <1>5 DEF ResultOf, Checkpoint, x

\* The type invariant: every step leaves every variable in its type.
LEMMA TypeStep ==
    ASSUME TypeOK, RequestFits, OutcomeFits, [Next]_vars
    PROVE  TypeOK'
<1> USE DEF TypeOK
<1>1. CASE UNCHANGED vars
  BY <1>1 DEF vars
<1> SUFFICES ASSUME NEW p \in Callers,
                    \/ Snapshot(p)
                    \/ \E id \in RequestIds, batch \in Batches : Retain(p, id, batch)
                    \/ \E k \in {"append", "lookup"} : Call(p, k)
                    \/ Progress(p)
                    \/ Crash(p) \/ Reopen(p)
             PROVE  TypeOK'
  BY <1>1 DEF Next, Progress
<1>2. CASE Snapshot(p)
  <2> DEFINE c == [receipts |-> db.receipts, log |-> Log(db.operations)]
  <2>1. db.receipts \in Seq(Transitions) /\ db.operations \in Seq(Operation)
    BY DEF Tables
  <2>2. Log(db.operations) \in Seq([id: RequestIds, end: Nat])
    BY <2>1, LogType
  <2>3. c \in Checkpoint
    BY <2>1, <2>2 DEF Checkpoint
  <2> HIDE DEF c
  <2>4. known' = [known EXCEPT ![p] = c]
    BY <1>2 DEF Snapshot, c
  <2>5. known' \in [Callers -> Checkpoint]
    BY <2>3, <2>4
  <2> QED BY <1>2, <2>5 DEF Snapshot
<1>3. ASSUME NEW id \in RequestIds, NEW batch \in Batches, Retain(p, id, batch)
      PROVE  TypeOK'
  <2> DEFINE r == [id |-> id, expected |-> known[p], batch |-> batch]
  <2>1. r \in Request
    BY StoreAssumption DEF Request
  <2> HIDE DEF r
  <2>2. request' = [request EXCEPT ![p] = r]
    BY <1>3 DEF Retain, r
  <2>3. request' \in [Callers -> Request \cup {NoRequest}]
    BY <2>1, <2>2
  <2>4. report' \in [Callers -> Reports]
    BY <1>3 DEF Retain, Reports
  <2> QED BY <1>3, <2>3, <2>4 DEF Retain
<1>4. ASSUME NEW k \in {"append", "lookup"}, Call(p, k)
      PROVE  TypeOK'
  BY <1>4 DEF Call, Goto, Phases, Outcomes, Verdicts, Reports
<1>5. CASE Begin(p)
  BY <1>5 DEF Begin, Goto, Phases
<1>6. ASSUME NEW v \in Verdicts, NEW o \in Outcomes, Conclude(p, v, o)
      PROVE  TypeOK'
  BY <1>6 DEF Conclude, Goto, Phases
<1>7. CASE Recall(p) \/ RefuseId(p) \/ FindNothing(p) \/ RefuseStale(p) \/ RefuseBatch(p)
  BY <1>6, <1>7 DEF Recall, RefuseId, FindNothing, RefuseStale, RefuseBatch, Verdicts, Outcomes
<1>8. CASE Stage(p)
  <2>1. phase[p] = "reading"
    BY <1>8 DEF Stage, Goto
  <2>2. request[p] \in Request
    BY <2>1, RequestOrNone DEF RequestFits
  <2>3. Extended(db, request[p]) \in Tables
    BY <2>2, ExtendedType
  <2>4. staged' \in [Callers -> Tables]
    BY <1>8, <2>3 DEF Stage
  <2> QED BY <1>8, <2>4 DEF Stage, Goto, Phases, Verdicts
<1>9. CASE StartCommit(p)
  BY <1>9 DEF StartCommit, Goto, Phases, Outcomes
<1>10. CASE Land(p)
  BY <1>10 DEF Land, Goto, Phases
<1>11. CASE Acknowledge(p)
  BY <1>11 DEF Acknowledge, Goto, Phases, Outcomes
<1>12. CASE Raise(p)
  BY <1>12 DEF Raise, Phases, Verdicts
<1>13. ASSUME NEW r \in Reports, NEW rest \in {"idle", "dead"}, Finish(p, r, rest),
              known' \in [Callers -> Checkpoint], hot' \in {"no", "hot"}
       PROVE  TypeOK'
  BY <1>13, GenesisType DEF Finish, Phases, Outcomes, Verdicts
<1>14. CASE Return(p)
  <2> DEFINE r == IF verdict[p] = "failed" THEN outcome[p] ELSE verdict[p]
  <2>1. phase[p] = "settling" /\ verdict[p] \in Verdicts /\ outcome[p] \in Outcomes
    BY <1>14 DEF Return
  <2>2. request[p] \in Request
    BY <2>1, RequestOrNone DEF RequestFits
  <2>3. known' \in [Callers -> Checkpoint]
    BY <1>14, <2>2, ResultType DEF Return
  <2>4. r \in Reports
    BY <2>1 DEF OutcomeFits, Verdicts, Outcomes, Reports
  <2> QED BY <1>13, <1>14, <2>3, <2>4 DEF Return
<1>15. CASE CleanupRaises(p)
  <2>1. outcome[p] \in Reports
    BY DEF Outcomes, Reports
  <2> QED BY <1>13, <1>15, <2>1 DEF CleanupRaises
<1>16. CASE Crash(p)
  <2>1. hot' \in {"no", "hot"} /\ known' = known /\ Finish(p, "lost", "dead")
    BY <1>16 DEF Crash
  <2> QED BY <1>13, <2>1 DEF Reports
<1>17. CASE Reopen(p)
  BY <1>17 DEF Reopen, Goto, Phases
<1> QED
  BY <1>2, <1>3, <1>4, <1>5, <1>7, <1>8, <1>9, <1>10, <1>11, <1>12, <1>14, <1>15, <1>16, <1>17
     DEF Progress

\* The journal keeps what was committed and takes the new request.
LEMMA CommittedGrows ==
    ASSUME NEW d \in Tables, NEW r \in Request
    PROVE  /\ Committed(d) \subseteq Committed(Extended(d, r))
           /\ r \in Committed(Extended(d, r))
           /\ Extended(d, r).operations # <<>>
<1> DEFINE e == Extended(d, r)
           o == [id |-> r.id, end |-> Len(d.receipts) + Len(r.batch), digest |-> r]
<1>1. d.operations \in Seq(Operation) /\ Len(d.operations) \in Nat
  BY LenProperties DEF Tables
<1>2. e.operations = Append(d.operations, o) /\ o \in Operation /\ o.digest = r
  BY ExtendedType
<1> HIDE DEF e, o
<1>3. /\ e.operations # <<>>
      /\ Len(e.operations) = Len(d.operations) + 1
      /\ \A i \in 1..Len(d.operations) : e.operations[i] = d.operations[i]
      /\ e.operations[Len(d.operations) + 1] = o
  BY <1>1, <1>2, AppendProperties
<1>4. /\ \A i \in 1..Len(d.operations) : i \in 1..Len(e.operations)
      /\ Len(d.operations) + 1 \in 1..Len(e.operations)
  BY <1>1, <1>3
<1>5. Committed(d) \subseteq Committed(e)
  BY <1>3, <1>4 DEF Committed
<1>6. r \in Committed(e)
  BY <1>2, <1>3, <1>4 DEF Committed
<1> QED BY <1>3, <1>5, <1>6 DEF e

\* The commit itself: the only step that changes the file.
LEMMA LandStep ==
    ASSUME Inv, NEW p \in Callers, Land(p)
    PROVE  /\ StoreVerifies' /\ ImportedFirst' /\ LockHeld' /\ StagedFits'
           /\ RequestFits' /\ OutcomeFits' /\ ReportsTruthful' /\ NoForks'
<1> DEFINE r == request[p]
           e == Extended(db, r)
<1>1. /\ phase[p] = "committing" /\ phase' = [phase EXCEPT ![p] = "landed"]
      /\ landed' = [landed EXCEPT ![p] = TRUE]
      /\ db' = staged[p]
      /\ UNCHANGED <<known, request, kind, staged, outcome, verdict, report>>
  BY DEF Land, Goto
<1>2. r \in Request
  BY <1>1, RequestOrNone DEF Inv, RequestFits
<1>3. Committable(db, r) /\ db' = e
  BY <1>1 DEF Inv, StagedFits
<1>4. db \in Tables /\ Verifies(db) /\ UniqueIds(db)
  BY DEF Inv, TypeOK, StoreVerifies, UniqueIds
<1>5. /\ Verifies(db') /\ UniqueIds(db')
      /\ History(db) \subseteq History(db')
      /\ Committed(db) \subseteq Committed(db') /\ r \in Committed(db')
      /\ db'.operations # <<>>
  BY <1>2, <1>3, <1>4, ExtendedVerifies, HistoryGrows, CommittedGrows
<1> HIDE DEF r, e
<1>6. StoreVerifies' /\ ImportedFirst'
  BY <1>5 DEF StoreVerifies, UniqueIds, ImportedFirst
\* Nobody else is past BEGIN IMMEDIATE.
<1>7. \A q \in Callers \ {p} : /\ phase[q] \notin {"staged", "committing"}
                               /\ ~(phase[q] = "reading" /\ kind[q] = "append")
  BY <1>1 DEF Inv, LockHeld
<1>8. \A q \in Callers : phase'[q] = IF q = p THEN "landed" ELSE phase[q]
  BY <1>1 DEF Inv, TypeOK
<1>9. LockHeld' /\ StagedFits'
  BY <1>1, <1>7, <1>8 DEF LockHeld, StagedFits
<1>10. RequestFits'
  BY <1>1, <1>8 DEF Inv, RequestFits
<1>11. \A q \in Callers : landed'[q] = IF q = p THEN TRUE ELSE landed[q]
  BY <1>1 DEF Inv, TypeOK
<1>12. OutcomeFits'
  BY <1>1, <1>5, <1>8, <1>11 DEF Inv, OutcomeFits, r
<1>13. ReportsTruthful'
  <2>1. report[p] = "nothing"
    BY <1>1 DEF Inv, OutcomeFits
  <2> QED BY <1>1, <1>5, <1>11, <2>1 DEF Inv, ReportsTruthful
<1>14. NoForks'
  BY <1>1, <1>5 DEF Inv, NoForks
<1> QED BY <1>6, <1>9, <1>10, <1>12, <1>13, <1>14

\* Every other step leaves the file as it is.
LEMMA QuietStep ==
    ASSUME Inv, TypeOK', NEW p \in Callers,
           \/ Snapshot(p)
           \/ \E id \in RequestIds, batch \in Batches : Retain(p, id, batch)
           \/ \E k \in {"append", "lookup"} : Call(p, k)
           \/ Begin(p) \/ Recall(p) \/ RefuseId(p) \/ FindNothing(p) \/ RefuseStale(p)
           \/ RefuseBatch(p) \/ Stage(p) \/ StartCommit(p) \/ Acknowledge(p)
           \/ Raise(p) \/ Return(p) \/ CleanupRaises(p) \/ Crash(p) \/ Reopen(p)
    PROVE  /\ StoreVerifies' /\ ImportedFirst' /\ LockHeld' /\ StagedFits'
           /\ RequestFits' /\ OutcomeFits' /\ ReportsTruthful' /\ NoForks'
<1> DEFINE Goal == /\ StoreVerifies' /\ ImportedFirst' /\ LockHeld' /\ StagedFits'
                   /\ RequestFits' /\ OutcomeFits' /\ ReportsTruthful' /\ NoForks'
<1> USE DEF Inv, Goto
<1>1. CASE Snapshot(p)
  <2>1. /\ db' = db /\ UNCHANGED <<writer, request, kind, phase, staged, outcome,
                                   verdict, report, landed>>
        /\ known' = [known EXCEPT ![p] = db.meta]
    BY <1>1 DEF Snapshot, StoreVerifies, Verifies
  <2>2. StoreVerifies' /\ ImportedFirst'
    BY <2>1 DEF StoreVerifies, ImportedFirst
  <2>3. LockHeld' /\ StagedFits' /\ RequestFits' /\ OutcomeFits' /\ ReportsTruthful'
    BY <2>1 DEF LockHeld, StagedFits, RequestFits, OutcomeFits, ReportsTruthful
  <2>4. NoForks'
    <3>1. db.meta \in History(db)
      BY MetaIsLast DEF History, TypeOK, StoreVerifies
    <3> QED BY <2>1, <3>1 DEF NoForks, TypeOK
  <2> QED BY <2>2, <2>3, <2>4
<1>2. ASSUME NEW id \in RequestIds, NEW batch \in Batches, Retain(p, id, batch)
      PROVE  Goal
  <2>1. batch # <<>> /\ Len(batch) <= MaxAppendRecords
    BY <1>2, EmptySeq, StoreAssumption DEF Retain
  <2>2. LockHeld' /\ StagedFits' /\ RequestFits'
    BY <1>2, <2>1 DEF Retain, TypeOK, LockHeld, StagedFits, RequestFits
  <2>3. OutcomeFits' /\ ReportsTruthful'
    BY <1>2 DEF Retain, TypeOK, OutcomeFits, ReportsTruthful
  <2> QED BY <1>2, <2>2, <2>3 DEF Retain, StoreVerifies, ImportedFirst, NoForks
<1>3. ASSUME NEW k \in {"append", "lookup"}, Call(p, k)
      PROVE  Goal
  <2>1. LockHeld' /\ StagedFits' /\ RequestFits'
    BY <1>3 DEF Call, TypeOK, LockHeld, StagedFits, RequestFits
  <2>2. OutcomeFits' /\ ReportsTruthful'
    BY <1>3 DEF Call, TypeOK, OutcomeFits, ReportsTruthful
  <2> QED BY <1>3, <2>1, <2>2 DEF Call, StoreVerifies, ImportedFirst, NoForks
<1>4. CASE Begin(p)
  <2>1. LockHeld' /\ StagedFits' /\ RequestFits'
    BY <1>4, StoreAssumption DEF Begin, TypeOK, LockHeld, StagedFits, RequestFits
  <2>2. OutcomeFits' /\ ReportsTruthful'
    BY <1>4 DEF Begin, TypeOK, OutcomeFits, ReportsTruthful
  <2> QED BY <1>4, <2>1, <2>2 DEF Begin, StoreVerifies, ImportedFirst, NoForks
<1>5. ASSUME NEW v \in {"commit", "absent", "refused"}, NEW o \in {"none", "complete"},
             Conclude(p, v, o),
             v = "commit" <=> o = "complete",
             v = "commit" => request[p] \in Committed(db)
      PROVE  Goal
  <2>1. LockHeld' /\ StagedFits' /\ RequestFits'
    BY <1>5 DEF Conclude, TypeOK, LockHeld, StagedFits, RequestFits
  <2>2. OutcomeFits' /\ ReportsTruthful'
    BY <1>5 DEF Conclude, TypeOK, OutcomeFits, ReportsTruthful
  <2> QED BY <1>5, <2>1, <2>2 DEF Conclude, StoreVerifies, ImportedFirst, NoForks
<1>6. CASE Recall(p)
  BY <1>5, <1>6 DEF Recall
<1>7. CASE RefuseId(p) \/ FindNothing(p) \/ RefuseStale(p) \/ RefuseBatch(p)
  BY <1>5, <1>7 DEF RefuseId, FindNothing, RefuseStale, RefuseBatch
<1>8. CASE Stage(p)
  <2>1. phase[p] = "reading" /\ kind[p] = "append"
    BY <1>8 DEF Stage, Fresh
  <2>2. Committable(db, request[p])
    BY <1>8, <2>1 DEF Stage, Fresh, Committable, RequestFits
  <2>3. LockHeld' /\ RequestFits'
    BY <1>8, <2>1 DEF Stage, TypeOK, LockHeld, RequestFits
  <2>4. StagedFits'
    BY <1>8, <2>2 DEF Stage, TypeOK, StagedFits
  <2>5. OutcomeFits' /\ ReportsTruthful'
    BY <1>8 DEF Stage, TypeOK, OutcomeFits, ReportsTruthful
  <2> QED BY <1>8, <2>3, <2>4, <2>5 DEF Stage, StoreVerifies, ImportedFirst, NoForks
<1>9. CASE StartCommit(p)
  <2>1. LockHeld' /\ StagedFits' /\ RequestFits'
    BY <1>9 DEF StartCommit, TypeOK, LockHeld, StagedFits, RequestFits
  <2>2. OutcomeFits' /\ ReportsTruthful'
    BY <1>9 DEF StartCommit, TypeOK, OutcomeFits, ReportsTruthful
  <2> QED BY <1>9, <2>1, <2>2 DEF StartCommit, StoreVerifies, ImportedFirst, NoForks
<1>10. CASE Acknowledge(p)
  <2>1. LockHeld' /\ StagedFits' /\ RequestFits'
    BY <1>10 DEF Acknowledge, TypeOK, LockHeld, StagedFits, RequestFits
  <2>2. OutcomeFits' /\ ReportsTruthful'
    BY <1>10 DEF Acknowledge, TypeOK, OutcomeFits, ReportsTruthful
  <2> QED BY <1>10, <2>1, <2>2 DEF Acknowledge, StoreVerifies, ImportedFirst, NoForks
<1>11. CASE Raise(p)
  <2>1. LockHeld' /\ StagedFits' /\ RequestFits'
    BY <1>11 DEF Raise, TypeOK, LockHeld, StagedFits, RequestFits
  <2>2. OutcomeFits' /\ ReportsTruthful'
    BY <1>11 DEF Raise, TypeOK, OutcomeFits, ReportsTruthful
  <2> QED BY <1>11, <2>1, <2>2 DEF Raise, StoreVerifies, ImportedFirst, NoForks
<1>12. ASSUME NEW r, NEW rest \in {"idle", "dead"}, Finish(p, r, rest),
              phase[p] # "idle",
              r \in {"refused", "absent", "none"} => ~landed[p],
              r \in {"commit", "complete"} => request[p] \in Committed(db),
              known' = known \/ \E c \in History(db) : known' = [known EXCEPT ![p] = c]
       PROVE  Goal
  <2>1. LockHeld' /\ StagedFits' /\ RequestFits'
    BY <1>12 DEF Finish, TypeOK, LockHeld, StagedFits, RequestFits
  <2>2. OutcomeFits' /\ ReportsTruthful'
    BY <1>12 DEF Finish, TypeOK, OutcomeFits, ReportsTruthful
  <2>3. NoForks'
    BY <1>12 DEF Finish, TypeOK, NoForks
  <2> QED BY <1>12, <2>1, <2>2, <2>3 DEF Finish, StoreVerifies, ImportedFirst
<1>13. CASE Return(p)
  <2> DEFINE r == IF verdict[p] = "failed" THEN outcome[p] ELSE verdict[p]
  <2>1. phase[p] = "settling" /\ Finish(p, r, "idle")
    BY <1>13 DEF Return
  <2>2. /\ r \in {"refused", "absent", "none"} => ~landed[p]
        /\ r \in {"commit", "complete"} => request[p] \in Committed(db)
    BY <2>1 DEF OutcomeFits, TypeOK, Verdicts, Outcomes
  <2>3. known' = known \/ \E c \in History(db) : known' = [known EXCEPT ![p] = c]
    <3>1. CASE verdict[p] = "commit"
      <4>1. request[p] \in Committed(db)
        BY <2>1, <3>1 DEF OutcomeFits
      <4>2. PICK i \in 1..Len(db.operations) : request[p] = db.operations[i].digest
        BY <4>1 DEF Committed
      <4>3. ResultOf(request[p]) = CheckpointBefore(db, i + 1)
        BY <4>2, ResultInHistory DEF TypeOK, StoreVerifies
      <4>4. ResultOf(request[p]) \in History(db)
        <5>1. Len(db.operations) \in Nat
          BY LenProperties DEF TypeOK, Tables
        <5>2. i + 1 \in 1..Len(db.operations) + 1
          BY <5>1
        <5> QED BY <4>3, <5>2 DEF History
      <4> QED BY <1>13, <3>1, <4>4 DEF Return
    <3>2. CASE verdict[p] # "commit"
      BY <1>13, <3>2 DEF Return, TypeOK
    <3> QED BY <3>1, <3>2
  <2> QED BY <1>12, <2>1, <2>2, <2>3
<1>14. CASE CleanupRaises(p)
  <2>1. phase[p] = "settling" /\ outcome[p] \in Outcomes
    BY <1>14 DEF CleanupRaises, TypeOK
  <2>2. /\ outcome[p] \in {"refused", "absent", "none"} => ~landed[p]
        /\ outcome[p] \in {"commit", "complete"} => request[p] \in Committed(db)
    BY <2>1 DEF OutcomeFits, Outcomes
  <2> QED BY <1>12, <1>14, <2>2 DEF CleanupRaises
<1>15. CASE Crash(p)
  BY <1>12, <1>15 DEF Crash
<1>16. CASE Reopen(p)
  <2>1. LockHeld' /\ StagedFits' /\ RequestFits'
    BY <1>16 DEF Reopen, TypeOK, LockHeld, StagedFits, RequestFits
  <2>2. OutcomeFits' /\ ReportsTruthful'
    BY <1>16 DEF Reopen, TypeOK, OutcomeFits, ReportsTruthful
  <2> QED BY <1>16, <2>1, <2>2 DEF Reopen, StoreVerifies, ImportedFirst, NoForks
<1> QED
  BY <1>1, <1>2, <1>3, <1>4, <1>6, <1>7, <1>8, <1>9, <1>10, <1>11, <1>13, <1>14, <1>15, <1>16

-----------------------------------------------------------------------------
LEMMA InitInv == Init => Inv
<1> SUFFICES ASSUME Init PROVE Inv
  OBVIOUS
<1>1. TypeOK
  BY GenesisType DEF Init, TypeOK, Phases, Outcomes, Verdicts, Reports
<1>2. db.operations = <<>> /\ db.receipts = Imported /\ db.meta = Genesis
  BY DEF Init, EmptyStore
<1>3. Len(db.operations) = 0
  BY <1>2, EmptySeq
<1>4. Log(db.operations) = <<>>
  <2>1. db.operations \in Seq(Operation)
    BY <1>1 DEF TypeOK, Tables
  <2> QED BY <2>1, <1>3, LogType, EmptySeq
<1>5. StoreVerifies
  <2>1. \A i \in 1..Len(db.operations) : FALSE
    BY <1>3
  <2>2. Start(db.operations, Len(db.operations) + 1) = Len(db.receipts)
    BY <1>2, <1>3 DEF Start
  <2>3. db.meta = [receipts |-> db.receipts, log |-> Log(db.operations)]
    BY <1>2, <1>4 DEF Genesis
  <2>4. Len(db.receipts) <= MaxRecords /\ Len(db.operations) <= MaxOperations
    BY <1>2, <1>3, StoreAssumption
  <2> QED BY <2>1, <2>2, <2>3, <2>4 DEF StoreVerifies, Verifies
<1>6. NoForks
  <2>1. db.meta \in History(db)
    BY <1>1, <1>3, <1>5, MetaIsLast DEF History, TypeOK, StoreVerifies
  <2> QED BY <1>2, <2>1 DEF NoForks, Init
<1>7. ImportedFirst /\ LockHeld /\ StagedFits /\ RequestFits /\ OutcomeFits /\ ReportsTruthful
  BY <1>2 DEF Init, ImportedFirst, LockHeld, StagedFits, RequestFits, OutcomeFits, ReportsTruthful
<1> QED BY <1>1, <1>5, <1>6, <1>7 DEF Inv

LEMMA InvStep == Inv /\ [Next]_vars => Inv'
<1> SUFFICES ASSUME Inv, [Next]_vars PROVE Inv'
  OBVIOUS
<1>1. TypeOK'
  BY TypeStep DEF Inv
<1>2. CASE UNCHANGED vars
  BY <1>1, <1>2 DEF vars, Inv, StoreVerifies, ImportedFirst, LockHeld, StagedFits,
                    RequestFits, OutcomeFits, ReportsTruthful, NoForks
<1>3. CASE Next
  <2>1. PICK p \in Callers :
            \/ Snapshot(p)
            \/ \E id \in RequestIds, batch \in Batches : Retain(p, id, batch)
            \/ \E k \in {"append", "lookup"} : Call(p, k)
            \/ Begin(p) \/ Recall(p) \/ RefuseId(p) \/ FindNothing(p) \/ RefuseStale(p)
            \/ RefuseBatch(p) \/ Stage(p) \/ StartCommit(p) \/ Acknowledge(p)
            \/ Raise(p) \/ Return(p) \/ CleanupRaises(p) \/ Crash(p) \/ Reopen(p)
            \/ Land(p)
    BY <1>3, Zenon DEF Next
  <2>2. CASE Land(p)
    BY <1>1, <2>2, LandStep DEF Inv
  <2>3. CASE ~Land(p)
    BY <1>1, <2>1, <2>3, QuietStep DEF Inv
  <2> QED BY <2>2, <2>3
<1> QED BY <1>2, <1>3

THEOREM Invariance == Spec => []Inv
BY InitInv, InvStep, PTL DEF Spec

(***************************************************************************)
(* The type invariant of the store.                                        *)
(***************************************************************************)
THEOREM StoreTypeCorrect == Spec => []TypeOK
<1>1. Inv => TypeOK
  BY DEF Inv
<1> QED BY <1>1, Invariance, PTL

(***************************************************************************)
(* Whatever callers append, wherever calls fail and processes die, the     *)
(* file stays one that _read accepts, with every request ID bound once.    *)
(***************************************************************************)
THEOREM StoreAlwaysVerifies == Spec => []StoreVerifies
<1>1. Inv => StoreVerifies
  BY DEF Inv
<1> QED BY <1>1, Invariance, PTL

(***************************************************************************)
(* What append and lookup report of a request, by result, exception type   *)
(* or outcome, is true of the file.                                        *)
(***************************************************************************)
THEOREM ReportsAlwaysTruthful == Spec => []ReportsTruthful
<1>1. Inv => ReportsTruthful
  BY DEF Inv
<1> QED BY <1>1, Invariance, PTL

(***************************************************************************)
(* Every checkpoint a caller read or was given is in the file's history.   *)
(***************************************************************************)
THEOREM HistoryNeverForks == Spec => []NoForks
<1>1. Inv => NoForks
  BY DEF Inv
<1> QED BY <1>1, Invariance, PTL

-----------------------------------------------------------------------------
(***************************************************************************)
(* Refinement.                                                             *)
(***************************************************************************)
DigestsOf(d) == [i \in 1..Len(d.operations) |-> d.operations[i].digest]

LEMMA DigestsType ==
    ASSUME NEW d \in Tables
    PROVE  /\ DigestsOf(d) \in Seq(Request)
           /\ Len(DigestsOf(d)) = Len(d.operations)
           /\ \A i \in 1..Len(d.operations) : DigestsOf(d)[i] = d.operations[i].digest
<1>1. /\ d.operations \in Seq(Operation) /\ Len(d.operations) \in Nat
      /\ \A i \in 1..Len(d.operations) : d.operations[i] \in Operation
  BY LenProperties, ElementOfSeq DEF Tables
<1>2. \A i \in 1..Len(d.operations) : d.operations[i].digest \in Request
  BY <1>1 DEF Operation
<1> QED BY <1>1, <1>2 DEF DigestsOf

LEMMA DigestsOfExtended ==
    ASSUME NEW d \in Tables, NEW r \in Request
    PROVE  DigestsOf(Extended(d, r)) = Append(DigestsOf(d), r)
<1> DEFINE e == Extended(d, r)
           o == [id |-> r.id, end |-> Len(d.receipts) + Len(r.batch), digest |-> r]
           n == Len(d.operations)
<1>1. d.operations \in Seq(Operation) /\ n \in Nat
  BY LenProperties DEF Tables
<1>2. e \in Tables /\ e.operations = Append(d.operations, o) /\ o \in Operation /\ o.digest = r
  BY ExtendedType
<1> HIDE DEF e, o
<1>3. /\ Len(e.operations) = n + 1 /\ e.operations[n + 1] = o
      /\ \A i \in 1..n : e.operations[i] = d.operations[i]
  BY <1>1, <1>2, AppendProperties
<1>4. /\ DigestsOf(d) \in Seq(Request) /\ Len(DigestsOf(d)) = n
      /\ \A i \in 1..n : DigestsOf(d)[i] = d.operations[i].digest
  BY DigestsType
<1>5. /\ DigestsOf(e) \in Seq(Request) /\ Len(DigestsOf(e)) = n + 1
      /\ \A i \in 1..n + 1 : DigestsOf(e)[i] = e.operations[i].digest
  BY <1>2, <1>3, DigestsType
<1>6. /\ Append(DigestsOf(d), r) \in Seq(Request) /\ Len(Append(DigestsOf(d), r)) = n + 1
      /\ \A i \in 1..n : Append(DigestsOf(d), r)[i] = DigestsOf(d)[i]
      /\ Append(DigestsOf(d), r)[n + 1] = r
  BY <1>4, AppendProperties
<1>7. \A i \in 1..n + 1 : DigestsOf(e)[i] = Append(DigestsOf(d), r)[i]
  <2> TAKE i \in 1..n + 1
  <2>1. CASE i \in 1..n
    BY <2>1, <1>3, <1>4, <1>5, <1>6
  <2>2. CASE i = n + 1
    BY <2>2, <1>2, <1>3, <1>5, <1>6
  <2>3. i \in 1..n \/ i = n + 1
    BY <1>1
  <2> QED BY <2>1, <2>2, <2>3
<1>8. DigestsOf(e) = Append(DigestsOf(d), r)
  BY <1>5, <1>6, <1>7, SeqEqual
<1> QED BY <1>8 DEF e

\* The tip of the journal is the stored checkpoint.
LEMMA TipIsMeta ==
    ASSUME Inv PROVE Abstract!Tip = db.meta
<1>1. /\ db \in Tables /\ Verifies(db) /\ Journal = DigestsOf(db)
      /\ db.operations \in Seq(Operation) /\ Len(db.operations) \in Nat
  BY LenProperties DEF Inv, TypeOK, Tables, StoreVerifies, Journal, DigestsOf
<1>2. /\ Journal \in Seq(Request) /\ Len(Journal) = Len(db.operations)
      /\ \A i \in 1..Len(db.operations) : Journal[i] = db.operations[i].digest
  BY <1>1, DigestsType
<1>3. CASE Journal = <<>>
  <2>1. db.operations = <<>>
    BY <1>1, <1>2, <1>3, EmptySeq
  <2> QED BY <1>3, <2>1 DEF Inv, ImportedFirst, Genesis, Abstract!Tip
<1>4. CASE Journal # <<>>
  <2> DEFINE n == Len(db.operations)
  <2>1. n \in 1..Len(db.operations)
    BY <1>1, <1>2, <1>4, EmptySeq
  <2>2. ResultOf(db.operations[n].digest) = db.meta
    BY <1>1, <2>1, ResultInHistory, MetaIsLast
  <2>3. Abstract!Tip = Abstract!Result(Journal[n])
    BY <1>2, <1>4 DEF Abstract!Tip
  <2>4. Abstract!Result(Journal[n]) = ResultOf(db.operations[n].digest)
    BY <1>2, <2>1 DEF Abstract!Result, ResultOf
  <2> QED BY <2>2, <2>3, <2>4
<1> QED BY <1>3, <1>4

LEMMA RefinesInit == Init => Abstract!Init
<1> SUFFICES ASSUME Init PROVE Abstract!Init
  OBVIOUS
<1>1. db \in Tables /\ db.operations = <<>>
  BY GenesisType DEF Init, EmptyStore
<1>2. Journal = <<>>
  <2>1. Journal = DigestsOf(db)
    BY DEF Journal, DigestsOf
  <2>2. Journal \in Seq(Request) /\ Len(Journal) = 0
    BY <1>1, <2>1, DigestsType, EmptySeq
  <2> QED BY <2>2, EmptySeq
<1>3. Told = {}
  BY DEF Init, Told
<1> QED BY <1>2, <1>3 DEF Init, Abstract!Init

LEMMA RefinesCommit ==
    ASSUME Inv, NEW p \in Callers, Land(p)
    PROVE  Abstract!Commit(p)
<1> DEFINE r == request[p]
<1>1. phase[p] = "committing" /\ db' = staged[p] /\ UNCHANGED <<request, report>>
  BY DEF Land, Goto
<1>2. r # NoRequest /\ r \in Request
  BY <1>1, RequestOrNone DEF Inv, RequestFits
<1>3. Committable(db, r) /\ db' = Extended(db, r)
  BY <1>1 DEF Inv, StagedFits
<1>4. db \in Tables /\ Verifies(db)
  BY DEF Inv, TypeOK, StoreVerifies
<1>5. Journal = DigestsOf(db) /\ Journal' = DigestsOf(db')
  BY DEF Journal, DigestsOf
<1> HIDE DEF r
<1>6. Journal' = Append(Journal, r)
  BY <1>2, <1>3, <1>4, <1>5, DigestsOfExtended
<1>7. r.expected = Abstract!Tip /\ Abstract!Tip.receipts = db.receipts
  BY <1>3, <1>4, TipIsMeta DEF Committable, Verifies
<1>8. \A i \in DOMAIN Journal : Journal[i].id # r.id
  <2> SUFFICES ASSUME NEW i \in 1..Len(db.operations) PROVE Journal[i].id # r.id
    BY DEF Journal
  <2>1. Journal[i] = Recomputed(db, i)
    BY <1>4 DEF Journal, Verifies
  <2>2. Recomputed(db, i).id = db.operations[i].id
    BY DEF Recomputed
  <2>3. db.operations[i].id # r.id
    BY <1>3 DEF Committable, UsedIds
  <2> QED BY <2>1, <2>2, <2>3
<1>9. r.batch # <<>> /\ Authorized(db.receipts, r.batch)
  BY <1>3 DEF Committable
<1>10. Told' = Told
  BY <1>1 DEF Told
<1> QED BY <1>1, <1>2, <1>6, <1>7, <1>8, <1>9, <1>10 DEF Abstract!Commit, r

\* Ending a call tells the caller of a committed request, or of none.
LEMMA RefinesFinish ==
    ASSUME Inv, NEW p \in Callers, NEW r, NEW rest, Finish(p, r, rest),
           r \in {"commit", "complete"} => request[p] \in Committed(db)
    PROVE  Abstract!Tell(p) \/ Abstract!Retry(p)
<1>1. UNCHANGED <<db, request>> /\ report' = [report EXCEPT ![p] = r]
  BY DEF Finish
<1>2. Journal' = Journal
  BY <1>1 DEF Journal
<1>3. Told' = IF r \in {"commit", "complete"} THEN Told \cup {p} ELSE Told \ {p}
  BY <1>1 DEF Told, Inv, TypeOK
<1>4. CASE r \in {"commit", "complete"}
  <2>1. PICK i \in 1..Len(db.operations) : request[p] = db.operations[i].digest
    BY <1>4 DEF Committed
  <2>2. \E j \in DOMAIN Journal : Journal[j] = request[p]
    BY <2>1 DEF Journal
  <2> QED BY <1>1, <1>2, <1>3, <1>4, <2>2 DEF Abstract!Tell
<1>5. CASE r \notin {"commit", "complete"}
  BY <1>1, <1>2, <1>3, <1>5 DEF Abstract!Retry
<1> QED BY <1>4, <1>5

LEMMA RefinesStep ==
    ASSUME Inv, [Next]_vars
    PROVE  [Abstract!Next]_<<Journal, request, Told>>
<1>1. ASSUME UNCHANGED <<db, request, report>>
      PROVE  UNCHANGED <<Journal, request, Told>>
  BY <1>1 DEF Journal, Told
<1>2. CASE UNCHANGED vars
  BY <1>1, <1>2 DEF vars
<1>3. ASSUME NEW p \in Callers, NEW id \in RequestIds, NEW batch \in Batches,
             Retain(p, id, batch)
      PROVE  Abstract!Ask(p)
  <2> DEFINE r == [id |-> id, expected |-> known[p], batch |-> batch]
  <2>1. r \in Abstract!Requests
    BY StoreAssumption DEF Inv, TypeOK, Checkpoint, Abstract!Requests, Abstract!Mark
  <2> HIDE DEF r
  <2>2. /\ request' = [request EXCEPT ![p] = r] /\ db' = db
        /\ report' = [report EXCEPT ![p] = "nothing"]
    BY <1>3 DEF Retain, r
  <2>3. request'[p] = r
    BY <2>2 DEF Inv, TypeOK
  <2>4. Journal' = Journal
    BY <2>2 DEF Journal
  <2>5. Told' = Told \ {p}
    BY <2>2 DEF Told, Inv, TypeOK
  <2> QED BY <2>1, <2>2, <2>3, <2>4, <2>5 DEF Abstract!Ask
<1>4. ASSUME NEW p \in Callers, NEW k \in {"append", "lookup"}, Call(p, k)
      PROVE  Abstract!Retry(p)
  <2>1. UNCHANGED <<db, request>> /\ report' = [report EXCEPT ![p] = "nothing"]
    BY <1>4 DEF Call
  <2>2. Journal' = Journal
    BY <2>1 DEF Journal
  <2>3. Told' = Told \ {p}
    BY <2>1 DEF Told, Inv, TypeOK
  <2> QED BY <2>1, <2>2, <2>3 DEF Abstract!Retry
<1>5. ASSUME NEW p \in Callers, Return(p) \/ CleanupRaises(p) \/ Crash(p)
      PROVE  Abstract!Tell(p) \/ Abstract!Retry(p)
  <2>1. CASE Return(p)
    <3> DEFINE r == IF verdict[p] = "failed" THEN outcome[p] ELSE verdict[p]
    <3>1. phase[p] = "settling" /\ Finish(p, r, "idle")
      BY <2>1 DEF Return
    <3>2. r \in {"commit", "complete"} => request[p] \in Committed(db)
      BY <3>1 DEF Inv, OutcomeFits, TypeOK, Verdicts, Outcomes
    <3> QED BY <3>1, <3>2, RefinesFinish
  <2>2. CASE CleanupRaises(p)
    <3>1. phase[p] = "settling" /\ Finish(p, outcome[p], "idle")
      BY <2>2 DEF CleanupRaises
    <3>2. outcome[p] \in {"commit", "complete"} => request[p] \in Committed(db)
      BY <3>1 DEF Inv, OutcomeFits, TypeOK, Outcomes
    <3> QED BY <3>1, <3>2, RefinesFinish
  <2>3. CASE Crash(p)
    BY <2>3, RefinesFinish DEF Crash
  <2> QED BY <1>5, <2>1, <2>2, <2>3
<1>6. ASSUME NEW p \in Callers,
             \/ Snapshot(p) \/ Begin(p) \/ Recall(p) \/ RefuseId(p) \/ FindNothing(p)
             \/ RefuseStale(p) \/ RefuseBatch(p) \/ Stage(p) \/ StartCommit(p)
             \/ Acknowledge(p) \/ Raise(p) \/ Reopen(p)
      PROVE  UNCHANGED <<db, request, report>>
  BY <1>6 DEF Snapshot, Begin, Recall, RefuseId, FindNothing, RefuseStale, RefuseBatch,
              Conclude, Stage, StartCommit, Acknowledge, Raise, Reopen
<1>7. CASE Next
  <2>1. PICK p \in Callers :
            \/ \E id \in RequestIds, batch \in Batches : Retain(p, id, batch)
            \/ \E k \in {"append", "lookup"} : Call(p, k)
            \/ Land(p)
            \/ Return(p) \/ CleanupRaises(p) \/ Crash(p)
            \/ UNCHANGED <<db, request, report>>
    BY <1>6, <1>7 DEF Next
  <2> QED
    BY <1>1, <1>3, <1>4, <1>5, <2>1, RefinesCommit DEF Abstract!Next
<1> QED BY <1>2, <1>7

(***************************************************************************)
(* SQLiteWorkflowStore implements an atomic compare-and-append log with    *)
(* exactly-once requests and truthful answers.                             *)
(***************************************************************************)
THEOREM StoreRefines == Spec => ImplementsCompareAndAppend
<1>1. Inv /\ [Next]_vars => [Abstract!Next]_<<Journal, request, Told>>
  BY RefinesStep
<1> QED
  BY <1>1, RefinesInit, Invariance, PTL DEF Spec, ImplementsCompareAndAppend, Abstract!Spec
=============================================================================
