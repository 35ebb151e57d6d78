-------------------------- MODULE LedgerStoreProofs --------------------------
(***************************************************************************)
(* Proofs about LedgerStore, for any number of producers, any events and   *)
(* batches and any limit on the length of a ledger.                        *)
(***************************************************************************)
EXTENDS LedgerStore, SequenceTheorems, TLAPS

-----------------------------------------------------------------------------
(***************************************************************************)
(* The inductive invariant.                                                *)
(***************************************************************************)
\* The histories a store may hold.
Ledgers == {es \in Seq(Events) : Len(es) <= MaxEntries /\ Unique(es)}

\* The tables are the chain of such a history; an unmarked file has none.
TablesFit ==
    /\ db = [marked |-> db.marked, rows |-> Chain(db.head),
             head |-> db.head, count |-> Len(db.head)]
    /\ db.marked \in BOOLEAN /\ db.head \in Ledgers
    /\ ~db.marked => db.head = <<>>

\* Whatever was cut out of the snapshot file, its entries are links of a chain.
FileFits ==
    /\ file \in Seq(Row)
    /\ \A i \in DOMAIN file :
           /\ file[i].sequence = Len(file[i].previous)
           /\ file[i].digest = Digest(file[i].previous, file[i].event)

\* The lock is held by the call that decides or commits.
LockHeld ==
    /\ writer \in Producers \cup {Nobody}
    /\ phase \in [Producers -> {"closed", "idle", "deciding", "committing", "landed"}]
    /\ \A p \in Producers : writer = p <=> phase[p] \in {"deciding", "committing"}

\* What a call works with.
WorkFits ==
    /\ work \in [Producers -> [kind: {"none", "append", "import"}, batch: Seq(Events),
                               expects: MaybeHead, base: MaybeHead]]
    /\ report \in [Producers -> {"nothing", "done", "refused", "failed"}]
    /\ \A p \in Producers : phase[p] = "closed" => work[p] = NoWork /\ report[p] = "nothing"
    /\ \A p \in Producers : work[p].kind = "import" =>
           work[p].expects = NoHead /\ Len(work[p].batch) <= MaxEntries

\* An open transaction extends the committed ledger to one that the store may hold.
StagedFits ==
    \A p \in Producers : phase[p] = "committing" =>
        /\ work[p].base = db.head /\ Staged(p) \in Ledgers
        /\ work[p].expects \in {NoHead, work[p].base}

\* A call that got through the COMMIT has its batch in the ledger, on the head it named.
LandedFits ==
    \A p \in Producers :
        /\ phase[p] = "landed" => work[p].base # NoHead
        /\ phase[p] = "idle" /\ report[p] = "done" => work[p].base # NoHead
        /\ phase[p] \in {"landed", "idle"} /\ work[p].base # NoHead =>
               /\ IsPrefix(Staged(p), db.head)
               /\ work[p].expects \in {NoHead, work[p].base}

\* Every ledger that was handed out is a prefix of the one there is.
SeenFits == seen \in [Producers -> Seq(Events)] /\ \A p \in Producers : IsPrefix(seen[p], db.head)

LedgerInv ==
    TablesFit /\ FileFits /\ LockHeld /\ WorkFits /\ StagedFits /\ LandedFits /\ SeenFits

-----------------------------------------------------------------------------
(***************************************************************************)
(* Prefixes.                                                               *)
(***************************************************************************)
LEMMA PrefixOfItself ==
    ASSUME NEW S, NEW s \in Seq(S)
    PROVE  IsPrefix(s, s)
BY DEF IsPrefix

LEMMA PrefixOfConcat ==
    ASSUME NEW S, NEW s \in Seq(S), NEW t \in Seq(S)
    PROVE  IsPrefix(s, s \o t)
<1>1. /\ s \o t \in Seq(S) /\ Len(s \o t) = Len(s) + Len(t)
      /\ \A i \in 1 .. Len(s) : (s \o t)[i] = s[i]
  BY ConcatProperties
<1>2. SubSeq(s, 1, Len(s)) = SubSeq(s \o t, 1, Len(s))
  BY <1>1
<1> QED BY <1>1, <1>2 DEF IsPrefix

\* What being a prefix says of the elements.
LEMMA PrefixElements ==
    ASSUME NEW S, NEW s \in Seq(S), NEW t \in Seq(S)
    PROVE  IsPrefix(s, t) <=> Len(s) <= Len(t) /\ \A i \in 1 .. Len(s) : s[i] = t[i]
<1>1. ASSUME IsPrefix(s, t) PROVE \A i \in 1 .. Len(s) : s[i] = t[i]
  <2> SUFFICES ASSUME NEW i \in 1 .. Len(s) PROVE s[i] = t[i]
    OBVIOUS
  <2>1. SubSeq(s, 1, Len(s))[i] = SubSeq(t, 1, Len(s))[i]
    BY <1>1 DEF IsPrefix
  <2> QED BY <2>1, <1>1 DEF IsPrefix
<1>2. ASSUME Len(s) <= Len(t), \A i \in 1 .. Len(s) : s[i] = t[i]
      PROVE  SubSeq(s, 1, Len(s)) = SubSeq(t, 1, Len(s))
  BY <1>2
<1> QED BY <1>1, <1>2 DEF IsPrefix

LEMMA PrefixTransitive ==
    ASSUME NEW S, NEW s \in Seq(S), NEW t \in Seq(S), NEW u \in Seq(S),
           IsPrefix(s, t), IsPrefix(t, u)
    PROVE  IsPrefix(s, u)
BY PrefixElements

(***************************************************************************)
(* Chains: rows and events determine each other, and the chain of a        *)
(* history that a store may hold passes EvidenceLedger.verify.             *)
(***************************************************************************)
LEMMA ChainType ==
    ASSUME NEW es \in Seq(Events)
    PROVE  /\ Chain(es) \in Seq(Row) /\ Len(Chain(es)) = Len(es)
           /\ DOMAIN Chain(es) = 1 .. Len(es)
           /\ \A i \in 1 .. Len(es) : Chain(es)[i] = Entry(SubSeq(es, 1, i - 1), es[i])
<1>1. \A i \in 1 .. Len(es) : Entry(SubSeq(es, 1, i - 1), es[i]) \in Row
  BY DEF Entry, Row, Digest
<1>2. Chain(es) = [i \in 1 .. Len(es) |-> Entry(SubSeq(es, 1, i - 1), es[i])]
  BY DEF Chain
<1> HIDE DEF Row, Entry
<1>3. Chain(es) \in Seq(Row) /\ Len(Chain(es)) = Len(es) /\ DOMAIN Chain(es) = 1 .. Len(es)
  BY <1>1, <1>2
<1> QED BY <1>2, <1>3

LEMMA ChainFields ==
    ASSUME NEW es \in Seq(Events), NEW i \in 1 .. Len(es)
    PROVE  /\ Chain(es)[i].sequence = i - 1 /\ Chain(es)[i].id = IdOf[es[i]]
           /\ Chain(es)[i].event = es[i] /\ Chain(es)[i].previous = SubSeq(es, 1, i - 1)
           /\ Chain(es)[i].digest = Digest(SubSeq(es, 1, i - 1), es[i])
<1>1. Chain(es)[i] = Entry(SubSeq(es, 1, i - 1), es[i])
  BY ChainType
<1>2. Len(SubSeq(es, 1, i - 1)) = i - 1
  OBVIOUS
<1> QED BY <1>1, <1>2 DEF Entry

LEMMA SnocPrefix ==
    ASSUME NEW es \in Seq(Events), NEW i \in 1 .. Len(es)
    PROVE  Append(SubSeq(es, 1, i - 1), es[i]) = SubSeq(es, 1, i)
OBVIOUS

LEMMA ChainHead ==
    ASSUME NEW es \in Seq(Events)
    PROVE  /\ HeadOf(Chain(es)) = es
           /\ Chain(es) = <<>> <=> es = <<>>
<1>1. CASE es = <<>>
  <2>1. Chain(es) \in Seq(Row) /\ Len(Chain(es)) = 0
    BY <1>1, ChainType
  <2>2. Chain(es) = <<>>
    BY <2>1, EmptySeq
  <2> QED BY <1>1, <2>2 DEF HeadOf
<1>2. CASE es # <<>>
  <2>1. Len(es) \in 1 .. Len(es) /\ Chain(es) # <<>>
    BY <1>2, ChainType
  <2>2. HeadOf(Chain(es)) = Append(SubSeq(es, 1, Len(es) - 1), es[Len(es)])
    BY <2>1, ChainType, ChainFields DEF HeadOf, Digest
  <2>3. HeadOf(Chain(es)) = SubSeq(es, 1, Len(es))
    BY <2>1, <2>2, SnocPrefix
  <2> QED BY <1>2, <2>1, <2>3
<1> QED BY <1>1, <1>2

LEMMA ChainPrefix ==
    ASSUME NEW es \in Seq(Events), NEW i \in 1 .. Len(es)
    PROVE  SubSeq(Chain(es), 1, i - 1) = Chain(SubSeq(es, 1, i - 1))
<1> DEFINE fs == SubSeq(es, 1, i - 1)
<1>1. fs \in Seq(Events) /\ Len(fs) = i - 1 /\ \A j \in 1 .. i - 1 : fs[j] = es[j]
  OBVIOUS
<1>2. \A j \in 1 .. i - 1 : SubSeq(fs, 1, j - 1) = SubSeq(es, 1, j - 1)
  OBVIOUS
<1>3. /\ SubSeq(Chain(es), 1, i - 1) \in Seq(Row) /\ Len(SubSeq(Chain(es), 1, i - 1)) = i - 1
      /\ \A j \in 1 .. i - 1 : SubSeq(Chain(es), 1, i - 1)[j] = Chain(es)[j]
  BY ChainType, SubSeqProperties
<1> HIDE DEF fs
<1>4. \A j \in 1 .. i - 1 : Chain(fs)[j] = Chain(es)[j]
  <2> SUFFICES ASSUME NEW j \in 1 .. i - 1 PROVE Chain(fs)[j] = Chain(es)[j]
    OBVIOUS
  <2>1. Chain(fs)[j] = Entry(SubSeq(fs, 1, j - 1), fs[j])
    BY <1>1, ChainType
  <2>2. Chain(es)[j] = Entry(SubSeq(es, 1, j - 1), es[j])
    BY ChainType
  <2> QED BY <1>1, <1>2, <2>1, <2>2
<1>5. Chain(fs) \in Seq(Row) /\ Len(Chain(fs)) = i - 1
  BY <1>1, ChainType
<1>6. SubSeq(Chain(es), 1, i - 1) = Chain(fs)
  BY <1>3, <1>4, <1>5, SeqEqual
<1> QED BY <1>6 DEF fs

LEMMA ChainVerifies ==
    ASSUME NEW es \in Seq(Events), es \in Ledgers
    PROVE  Verify(Chain(es))
<1>1. /\ Len(es) <= MaxEntries
      /\ \A i, j \in 1 .. Len(es) : IdOf[es[i]] = IdOf[es[j]] => i = j
  BY DEF Ledgers, Unique
<1>2. ASSUME NEW i \in 1 .. Len(es)
      PROVE  /\ Chain(es)[i].sequence = i - 1
             /\ Chain(es)[i].id = IdOf[es[i]] /\ Chain(es)[i].event = es[i]
             /\ Chain(es)[i].previous = SubSeq(es, 1, i - 1)
             /\ Chain(es)[i].digest = Digest(Chain(es)[i].previous, Chain(es)[i].event)
  BY ChainFields
<1>3. ASSUME NEW i \in 1 .. Len(es)
      PROVE  HeadOf(SubSeq(Chain(es), 1, i - 1)) = SubSeq(es, 1, i - 1)
  <2>1. SubSeq(es, 1, i - 1) \in Seq(Events)
    OBVIOUS
  <2> QED BY <2>1, ChainPrefix, ChainHead
<1>4. \A i, j \in 1 .. Len(es) : Chain(es)[i].id = Chain(es)[j].id => i = j
  BY <1>1, <1>2
<1>5. Len(Chain(es)) = Len(es) /\ DOMAIN Chain(es) = 1 .. Len(es)
  BY ChainType
<1>6. ASSUME NEW i \in DOMAIN Chain(es)
      PROVE  /\ Chain(es)[i].sequence = i - 1 /\ Chain(es)[i].id = IdOf[Chain(es)[i].event]
             /\ Chain(es)[i].previous = HeadOf(SubSeq(Chain(es), 1, i - 1))
             /\ Chain(es)[i].digest = Digest(Chain(es)[i].previous, Chain(es)[i].event)
  BY <1>2, <1>3, <1>5
<1> QED BY <1>1, <1>4, <1>5, <1>6 DEF Verify

(***************************************************************************)
(* What the tables of a store are, and what they make of a call.           *)
(***************************************************************************)
LEMMA TablesOf ==
    ASSUME NEW es \in Ledgers
    PROVE  Tables(Chain(es)) =
               [marked |-> TRUE, rows |-> Chain(es), head |-> es, count |-> Len(es)]
BY ChainHead, ChainType DEF Tables, Ledgers

\* The tables are whole: they read, and the head is that of the rows.
LEMMA TablesRead ==
    ASSUME TablesFit
    PROVE  /\ db.head \in Seq(Events) /\ db.head \in Ledgers
           /\ db.rows = Chain(db.head) /\ db.rows \in Seq(Row)
           /\ db.head = HeadOf(db.rows) /\ db.count = Len(db.rows)
           /\ Len(db.rows) = Len(db.head) /\ (db.rows = <<>> <=> db.head = <<>>)
           /\ db.marked => Reads(db)
<1>1. db.head \in Seq(Events) /\ db.head \in Ledgers /\ db.rows = Chain(db.head)
      /\ db.count = Len(db.head)
  BY DEF TablesFit, Ledgers
<1>2. /\ Chain(db.head) \in Seq(Row) /\ Len(Chain(db.head)) = Len(db.head)
      /\ HeadOf(Chain(db.head)) = db.head /\ (Chain(db.head) = <<>> <=> db.head = <<>>)
  BY <1>1, ChainType, ChainHead
<1>3. Verify(Chain(db.head))
  BY <1>1, ChainVerifies
<1> QED BY <1>1, <1>2, <1>3 DEF Reads

\* A snapshot file that verifies is as long as the history its last entry commits to.
LEMMA FileHead ==
    ASSUME MaxEntries \in Nat, FileFits, Verify(file)
    PROVE  HeadOf(file) \in Seq(Events) /\ Len(HeadOf(file)) <= MaxEntries
<1>1. CASE file = <<>>
  BY <1>1 DEF HeadOf
<1>2. CASE file # <<>>
  <2>1. Len(file) \in 1 .. Len(file) /\ Len(file) \in DOMAIN file /\ file[Len(file)] \in Row
    BY <1>2 DEF FileFits
  <2> DEFINE last == file[Len(file)]
  <2>2. last.previous \in Seq(Events) /\ last.event \in Events
    BY <2>1 DEF Row
  <2>3. last.digest = Append(last.previous, last.event) /\ Len(last.previous) = last.sequence
    BY <2>1 DEF FileFits, Digest
  <2>4. last.sequence = Len(file) - 1 /\ Len(file) <= MaxEntries
    BY <2>1 DEF Verify
  <2>5. HeadOf(file) = last.digest
    BY <1>2 DEF HeadOf
  <2> QED BY <2>1, <2>2, <2>3, <2>4, <2>5
<1> QED BY <1>1, <1>2

\* What the builder writes, also with its first entry cut out, is made of links.
LEMMA BuiltFits ==
    ASSUME LedgerAssumption,
           file \in Built \cup {Tail(b) : b \in Built \ {<<>>}}
    PROVE  FileFits
<1>1. ASSUME NEW es \in BuildOrders PROVE es \in Seq(Events)
  BY DEF BuildOrders, BoundedSeq, SeqOf
<1>2. ASSUME NEW b \in Built
      PROVE  /\ b \in Seq(Row)
             /\ \A i \in DOMAIN b : /\ b[i].sequence = Len(b[i].previous)
                                    /\ b[i].digest = Digest(b[i].previous, b[i].event)
  <2>1. PICK es \in Seq(Events) : b = Chain(es)
    BY <1>1 DEF Built
  <2>2. b \in Seq(Row) /\ DOMAIN b = 1 .. Len(es)
    BY <2>1, ChainType
  <2>3. \A i \in 1 .. Len(es) : Len(SubSeq(es, 1, i - 1)) = i - 1
    OBVIOUS
  <2> SUFFICES ASSUME NEW i \in 1 .. Len(es)
               PROVE  /\ b[i].sequence = Len(b[i].previous)
                      /\ b[i].digest = Digest(b[i].previous, b[i].event)
    BY <2>2
  <2>4. /\ b[i].sequence = i - 1 /\ b[i].event = es[i] /\ b[i].previous = SubSeq(es, 1, i - 1)
        /\ b[i].digest = Digest(SubSeq(es, 1, i - 1), es[i])
    BY <2>1, ChainFields
  <2> QED BY <2>3, <2>4
<1>3. ASSUME NEW b \in Built, b # <<>>
      PROVE  /\ Tail(b) \in Seq(Row)
             /\ \A i \in DOMAIN Tail(b) : i + 1 \in DOMAIN b /\ Tail(b)[i] = b[i + 1]
  <2>1. b \in Seq(Row)
    BY <1>2
  <2> QED BY <2>1, <1>3, HeadTailProperties
<1>4. CASE file \in Built
  BY <1>2, <1>4 DEF FileFits
<1>5. ASSUME NEW b \in Built \ {<<>>}, file = Tail(b) PROVE FileFits
  BY <1>2, <1>3, <1>5 DEF FileFits
<1> QED BY <1>4, <1>5


LEMMA EmptyLedger ==
    ASSUME LedgerAssumption
    PROVE  /\ <<>> \in Seq(Events) /\ <<>> \in Ledgers /\ Chain(<<>>) = <<>>
           /\ \A t \in Seq(Events) : IsPrefix(<<>>, t)
<1>1. <<>> \in Seq(Events) /\ Len(<<>>) = 0
  BY EmptySeq
<1>2. <<>> \in Ledgers
  BY <1>1 DEF LedgerAssumption, Ledgers, Unique
<1>3. Chain(<<>>) = <<>>
  BY <1>1, ChainHead
<1>4. ASSUME NEW t \in Seq(Events) PROVE IsPrefix(<<>>, t)
  <2>1. SubSeq(t, 1, 0) = <<>> /\ SubSeq(<<>>, 1, 0) = <<>>
    BY <1>1, SubSeqEmpty
  <2> QED BY <1>1, <2>1 DEF IsPrefix
<1> QED BY <1>1, <1>2, <1>3, <1>4

\* Only COMMIT changes the ledger, and it makes it longer.
LEMMA LandExtends ==
    ASSUME LedgerAssumption, LedgerInv, NEW p \in Producers, Land(p)
    PROVE  /\ TablesFit' /\ db'.head = Staged(p) /\ Staged(p)' = Staged(p)
           /\ \A s \in Seq(Events) : IsPrefix(s, db.head) => IsPrefix(s, db'.head)
<1>1. /\ work[p].base = db.head /\ Staged(p) \in Ledgers
      /\ work[p].expects \in {NoHead, work[p].base}
  BY DEF Land, Goto, LedgerInv, StagedFits
<1>2. db' = Tables(Chain(Staged(p))) /\ work' = work
  BY DEF Land
<1>3. db' = [marked |-> TRUE, rows |-> Chain(Staged(p)), head |-> Staged(p),
             count |-> Len(Staged(p))]
  BY <1>1, <1>2, TablesOf
<1>4. Staged(p)' = Staged(p)
  BY <1>2 DEF Staged
<1>5. /\ db.head \in Seq(Events) /\ work[p].batch \in Seq(Events)
      /\ Staged(p) = db.head \o work[p].batch
  BY <1>1, TablesRead DEF LedgerInv, WorkFits, Staged
<1>6. ASSUME NEW s \in Seq(Events), IsPrefix(s, db.head) PROVE IsPrefix(s, Staged(p))
  <2>1. IsPrefix(db.head, Staged(p)) /\ Staged(p) \in Seq(Events)
    BY <1>5, PrefixOfConcat
  <2> QED BY <2>1, <1>5, <1>6, PrefixTransitive
<1>7. TablesFit'
  BY <1>1, <1>3 DEF TablesFit
<1> QED BY <1>3, <1>4, <1>6, <1>7

-----------------------------------------------------------------------------
(***************************************************************************)
(* The invariant is inductive.                                             *)
(***************************************************************************)
LEMMA LedgerInit ==
    ASSUME LedgerAssumption, Init
    PROVE  LedgerInv
<1>1. TablesFit
  <2>1. db = [marked |-> FALSE, rows |-> <<>>, head |-> <<>>, count |-> 0]
    BY DEF Init, Tables, HeadOf
  <2>2. Chain(<<>>) = <<>> /\ <<>> \in Ledgers /\ Len(<<>>) = 0
    BY EmptyLedger
  <2> QED BY <2>1, <2>2 DEF TablesFit
<1>2. FileFits
  BY BuiltFits DEF Init
<1>3. LockHeld
  BY DEF Init, LedgerAssumption, LockHeld
<1>4. WorkFits
  BY EmptyLedger DEF Init, WorkFits, NoWork, MaybeHead
<1>5. StagedFits /\ LandedFits
  BY DEF Init, StagedFits, LandedFits
<1>6. SeenFits
  <2>1. db.head \in Seq(Events)
    BY <1>1, TablesRead
  <2> QED BY <2>1, EmptyLedger DEF Init, SeenFits
<1> QED BY <1>1, <1>2, <1>3, <1>4, <1>5, <1>6 DEF LedgerInv

LEMMA OpenStep ==
    ASSUME LedgerAssumption, LedgerInv, NEW p \in Producers, NEW create \in BOOLEAN,
           Open(p, create)
    PROVE  LedgerInv'
<1>1. TablesFit' /\ db'.head = db.head
  <2>1. CASE db.marked
    BY <2>1 DEF Open, LedgerInv, TablesFit
  <2>2. CASE ~db.marked
    <3>1. db.head = <<>> /\ db' = Tables(<<>>)
      BY <2>2 DEF Open, LedgerInv, TablesFit
    <3>2. db' = [marked |-> TRUE, rows |-> Chain(<<>>), head |-> <<>>, count |-> Len(<<>>)]
      BY <3>1, EmptyLedger, TablesOf
    <3>3. db'.head = <<>> /\ db'.marked = TRUE
      BY <3>2
    <3> QED BY <3>1, <3>2, <3>3, EmptyLedger DEF TablesFit
  <2> QED BY <2>1, <2>2
<1>2. FileFits'
  BY DEF Open, LedgerInv, FileFits
<1>3. LockHeld'
  BY DEF Open, Goto, LockFree, LedgerInv, LockHeld
<1>4. WorkFits'
  BY DEF Open, Goto, LedgerInv, LockHeld, WorkFits
<1>5. StagedFits'
  BY <1>1 DEF Open, Goto, LedgerInv, LockHeld, StagedFits, Staged
<1>6. LandedFits'
  BY <1>1 DEF Open, Goto, LedgerInv, LockHeld, WorkFits, LandedFits, Staged, NoWork
<1>7. SeenFits'
  BY <1>1 DEF Open, LedgerInv, SeenFits
<1> QED BY <1>1, <1>2, <1>3, <1>4, <1>5, <1>6, <1>7 DEF LedgerInv

LEMMA SnapshotStep ==
    ASSUME LedgerInv, NEW p \in Producers, Snapshot(p)
    PROVE  LedgerInv'
<1>1. TablesFit' /\ FileFits' /\ LockHeld' /\ WorkFits'
  BY DEF Snapshot, LedgerInv, TablesFit, FileFits, LockHeld, WorkFits
<1>2. StagedFits' /\ LandedFits'
  BY DEF Snapshot, LedgerInv, StagedFits, LandedFits, Staged
<1>3. SeenFits'
  <2>1. HeadOf(db.rows) = db.head /\ db.head \in Seq(Events) /\ IsPrefix(db.head, db.head)
    BY TablesRead, PrefixOfItself DEF LedgerInv
  <2>2. seen' = [seen EXCEPT ![p] = db.head] /\ db' = db
    BY <2>1 DEF Snapshot
  <2> QED BY <2>1, <2>2 DEF LedgerInv, SeenFits
<1> QED BY <1>1, <1>2, <1>3 DEF LedgerInv

LEMMA BeginStep ==
    ASSUME LedgerAssumption, LedgerInv, NEW p \in Producers,
           NEW kind \in {"append", "import"}, NEW batch \in Seq(Events),
           NEW expects \in MaybeHead, Begin(p, kind, batch, expects),
           kind = "import" => expects = NoHead /\ Len(batch) <= MaxEntries
    PROVE  LedgerInv'
<1>1. TablesFit' /\ FileFits' /\ SeenFits'
  BY DEF Begin, LedgerInv, TablesFit, FileFits, SeenFits
<1>2. LockHeld'
  BY DEF Begin, Goto, LockFree, LedgerAssumption, LedgerInv, LockHeld
<1>3. WorkFits'
  BY DEF Begin, Goto, LedgerInv, LockHeld, WorkFits, MaybeHead
<1>4. StagedFits'
  BY DEF Begin, Goto, LockFree, LedgerAssumption, LedgerInv, LockHeld, StagedFits
<1>5. LandedFits'
  BY DEF Begin, Goto, LedgerInv, LockHeld, WorkFits, LandedFits, Staged
<1> QED BY <1>1, <1>2, <1>3, <1>4, <1>5 DEF LedgerInv

LEMMA CallStep ==
    ASSUME LedgerAssumption, LedgerInv, NEW p \in Producers,
           CallImport(p) \/ \E b \in Batches : CallAppend(p, b)
    PROVE  LedgerInv'
<1>1. ASSUME NEW b \in Batches, CallAppend(p, b) PROVE LedgerInv'
  <2>1. PICK head \in {NoHead, seen[p]} : Begin(p, "append", b, head)
    BY <1>1 DEF CallAppend
  <2>2. b \in Seq(Events) /\ head \in MaybeHead
    BY DEF LedgerAssumption, LedgerInv, SeenFits, MaybeHead
  <2> QED BY <2>1, <2>2, BeginStep
<1>2. ASSUME CallImport(p) PROVE LedgerInv'
  <2>1. HeadOf(file) \in Seq(Events) /\ Len(HeadOf(file)) <= MaxEntries
    BY <1>2, FileHead DEF CallImport, LedgerAssumption, LedgerInv
  <2>2. NoHead \in MaybeHead /\ Begin(p, "import", HeadOf(file), NoHead)
    BY <1>2 DEF CallImport, MaybeHead
  <2> QED BY <2>1, <2>2, BeginStep
<1> QED BY <1>1, <1>2


LEMMA GiveUpStep ==
    ASSUME LedgerAssumption, LedgerInv, NEW p \in Producers,
           NEW how \in {"refused", "failed"},
           phase[p] \in {"deciding", "committing"}, GiveUp(p, how)
    PROVE  LedgerInv'
<1>1. TablesFit' /\ FileFits' /\ SeenFits'
  BY DEF GiveUp, LedgerInv, TablesFit, FileFits, SeenFits
<1>2. LockHeld'
  BY DEF GiveUp, LedgerAssumption, LedgerInv, LockHeld
<1>3. WorkFits'
  BY EmptyLedger DEF GiveUp, LedgerInv, LockHeld, WorkFits, NoWork, MaybeHead
<1>4. StagedFits'
  BY DEF GiveUp, LedgerInv, LockHeld, StagedFits, Staged
<1>5. LandedFits'
  BY DEF GiveUp, LedgerInv, LockHeld, WorkFits, LandedFits, Staged, NoWork
<1> QED BY <1>1, <1>2, <1>3, <1>4, <1>5 DEF LedgerInv

LEMMA StageStep ==
    ASSUME LedgerAssumption, LedgerInv, NEW p \in Producers, Stage(p)
    PROVE  LedgerInv'
<1>1. TablesFit' /\ FileFits' /\ SeenFits' /\ db' = db
  BY DEF Stage, LedgerInv, TablesFit, FileFits, SeenFits
<1>2. LockHeld'
  BY DEF Stage, LedgerInv, LockHeld
<1>3. /\ HeadOf(db.rows) = db.head /\ db.head \in Seq(Events)
      /\ Len(db.rows) = Len(db.head) /\ Len(db.head) <= MaxEntries
      /\ db.rows = <<>> => db.head = <<>>
  BY TablesRead DEF LedgerInv, Ledgers
<1>4. work' = [work EXCEPT ![p].base = db.head]
  BY <1>3 DEF Stage
<1>5. WorkFits'
  <2>1. work' \in [Producers -> [kind: {"none", "append", "import"}, batch: Seq(Events),
                                 expects: MaybeHead, base: MaybeHead]]
    <3> DEFINE Works == [kind: {"none", "append", "import"}, batch: Seq(Events),
                         expects: MaybeHead, base: MaybeHead]
    <3>1. work \in [Producers -> Works] /\ db.head \in MaybeHead
      BY <1>3 DEF LedgerInv, WorkFits, MaybeHead
    <3>2. [work[p] EXCEPT !.base = db.head] \in Works
      BY <3>1
    <3>3. work' = [work EXCEPT ![p] = [work[p] EXCEPT !.base = db.head]]
      BY <1>4
    <3> HIDE DEF Works
    <3>4. work' \in [Producers -> Works]
      BY <3>1, <3>2, <3>3
    <3> QED BY <3>4 DEF Works
  <2>2. \A q \in Producers : /\ work'[q].kind = work[q].kind /\ work'[q].batch = work[q].batch
                             /\ work'[q].expects = work[q].expects
                             /\ phase'[q] = "closed" => work'[q] = work[q]
    BY <1>4 DEF Stage, LedgerInv, LockHeld, WorkFits
  <2>3. \A q \in Producers : phase'[q] = "closed" => phase[q] = "closed"
    BY DEF Stage, LedgerInv, LockHeld
  <2> QED BY <2>1, <2>2, <2>3 DEF Stage, LedgerInv, WorkFits
<1>6. /\ work[p].batch \in Seq(Events) /\ Unique(db.head \o work[p].batch)
      /\ Len(db.head) + Len(work[p].batch) <= MaxEntries
      /\ work[p].expects \in {NoHead, db.head}
  <2>1. work[p].batch \in Seq(Events) /\ Unique(db.head \o work[p].batch)
    BY <1>3 DEF Stage, Fresh, LedgerInv, WorkFits
  <2>2. CASE work[p].kind = "import"
    <3>1. db.head = <<>> /\ Len(db.head) = 0
      BY <1>3, <2>2, EmptyLedger DEF Stage, Accepts
    <3>2. work[p].expects = NoHead /\ Len(work[p].batch) <= MaxEntries
      BY <2>2 DEF LedgerInv, WorkFits
    <3> QED BY <2>1, <3>1, <3>2
  <2>3. CASE work[p].kind # "import"
    BY <1>3, <2>1, <2>3 DEF Stage, Accepts, HeadAgrees
  <2> QED BY <2>1, <2>2, <2>3
<1>7. db.head \o work[p].batch \in Ledgers
  <2>1. /\ db.head \o work[p].batch \in Seq(Events)
        /\ Len(db.head \o work[p].batch) = Len(db.head) + Len(work[p].batch)
    BY <1>3, <1>6, ConcatProperties
  <2> QED BY <1>6, <2>1 DEF Ledgers
<1>8. StagedFits'
  <2>1. work'[p].base = db.head /\ work'[p].batch = work[p].batch
        /\ work'[p].expects = work[p].expects
    BY <1>4 DEF LedgerInv, WorkFits
  <2>2. \A q \in Producers : phase'[q] = "committing" => q = p
    BY DEF Stage, LedgerInv, LockHeld
  <2> QED BY <1>1, <1>6, <1>7, <2>1, <2>2 DEF StagedFits, Staged
<1>9. LandedFits'
  BY <1>1, <1>4 DEF Stage, LedgerInv, LockHeld, WorkFits, LandedFits, Staged
<1> QED BY <1>1, <1>2, <1>5, <1>8, <1>9 DEF LedgerInv

LEMMA LandStep ==
    ASSUME LedgerAssumption, LedgerInv, NEW p \in Producers, Land(p)
    PROVE  LedgerInv'
<1>1. /\ TablesFit' /\ db'.head = Staged(p) /\ Staged(p)' = Staged(p)
      /\ \A s \in Seq(Events) : IsPrefix(s, db.head) => IsPrefix(s, db'.head)
  BY LandExtends
<1>2. FileFits' /\ WorkFits' /\ work' = work /\ report' = report /\ seen' = seen
  BY DEF Land, Goto, LedgerInv, LockHeld, FileFits, WorkFits
<1>3. LockHeld'
  BY DEF Land, Goto, LedgerAssumption, LedgerInv, LockHeld
<1>4. StagedFits'
  BY <1>2 DEF Land, Goto, LedgerInv, LockHeld, StagedFits
<1>5. LandedFits'
  <2> SUFFICES ASSUME NEW q \in Producers
               PROVE  /\ phase'[q] = "landed" => work[q].base # NoHead
                      /\ phase'[q] = "idle" /\ report[q] = "done" => work[q].base # NoHead
                      /\ phase'[q] \in {"landed", "idle"} /\ work[q].base # NoHead =>
                             /\ IsPrefix(work[q].base \o work[q].batch, db'.head)
                             /\ work[q].expects \in {NoHead, work[q].base}
    BY <1>2 DEF LandedFits, Staged
  <2>1. CASE q = p
    <3>1. /\ phase[p] = "committing" /\ phase'[p] = "landed"
          /\ work[p].base = db.head /\ work[p].expects \in {NoHead, work[p].base}
          /\ Staged(p) \in Seq(Events)
      BY DEF Land, Goto, LedgerInv, LockHeld, StagedFits, Ledgers
    <3>2. db.head \in Seq(Events) /\ db.head # NoHead
      BY TablesRead DEF LedgerInv, LedgerAssumption
    <3>3. IsPrefix(Staged(p), db'.head)
      BY <1>1, <3>1, PrefixOfItself
    <3> QED BY <2>1, <3>1, <3>2, <3>3 DEF Staged
  <2>2. CASE q # p
    <3>1. phase'[q] = phase[q]
      BY <2>2 DEF Land, Goto, LedgerInv, LockHeld
    <3>2. work[q].base # NoHead => work[q].base \o work[q].batch \in Seq(Events)
      BY DEF LedgerInv, WorkFits, MaybeHead
    <3> QED BY <1>1, <3>1, <3>2 DEF LedgerInv, LandedFits, Staged
  <2> QED BY <2>1, <2>2
<1>6. SeenFits'
  BY <1>1, <1>2 DEF LedgerInv, SeenFits
<1> QED BY <1>1, <1>2, <1>3, <1>4, <1>5, <1>6 DEF LedgerInv

LEMMA ReturnStep ==
    ASSUME LedgerInv, NEW p \in Producers, Return(p)
    PROVE  LedgerInv'
<1>1. TablesFit' /\ FileFits' /\ WorkFits' /\ LockHeld'
  BY DEF Return, Goto, LedgerInv, TablesFit, FileFits, LockHeld, WorkFits
<1>2. StagedFits' /\ LandedFits'
  BY DEF Return, Goto, LedgerInv, LockHeld, WorkFits, StagedFits, LandedFits, Staged
<1>3. SeenFits'
  <2>1. /\ Staged(p) \in Seq(Events) /\ IsPrefix(Staged(p), db.head)
    BY DEF Return, Goto, LedgerInv, LandedFits, WorkFits, MaybeHead, Staged
  <2> QED BY <2>1 DEF Return, LedgerInv, SeenFits
<1> QED BY <1>1, <1>2, <1>3 DEF LedgerInv

LEMMA FailLateStep ==
    ASSUME LedgerInv, NEW p \in Producers, FailLate(p)
    PROVE  LedgerInv'
<1>1. TablesFit' /\ FileFits' /\ WorkFits' /\ LockHeld' /\ SeenFits'
  BY DEF FailLate, Goto, LedgerInv, TablesFit, FileFits, LockHeld, WorkFits, SeenFits
<1>2. StagedFits' /\ LandedFits'
  BY DEF FailLate, Goto, LedgerInv, LockHeld, WorkFits, StagedFits, LandedFits, Staged
<1> QED BY <1>1, <1>2 DEF LedgerInv

LEMMA ExportStep ==
    ASSUME LedgerInv, NEW p \in Producers, Export(p)
    PROVE  LedgerInv'
<1>1. TablesFit' /\ WorkFits' /\ LockHeld' /\ SeenFits'
  BY DEF Export, LedgerInv, TablesFit, LockHeld, WorkFits, SeenFits
<1>2. StagedFits' /\ LandedFits'
  BY DEF Export, LedgerInv, StagedFits, LandedFits, Staged
<1>3. FileFits'
  <2>1. /\ db.rows \in Seq(Row) /\ db.rows = Chain(db.head) /\ db.head \in Seq(Events)
        /\ DOMAIN db.rows = 1 .. Len(db.head)
    BY TablesRead, ChainType DEF LedgerInv
  <2>2. ASSUME NEW i \in 1 .. Len(db.head)
        PROVE  /\ db.rows[i].sequence = Len(db.rows[i].previous)
               /\ db.rows[i].digest = Digest(db.rows[i].previous, db.rows[i].event)
    <3>1. Len(SubSeq(db.head, 1, i - 1)) = i - 1
      BY <2>1
    <3>2. /\ Chain(db.head)[i].sequence = i - 1 /\ Chain(db.head)[i].event = db.head[i]
          /\ Chain(db.head)[i].previous = SubSeq(db.head, 1, i - 1)
          /\ Chain(db.head)[i].digest = Digest(SubSeq(db.head, 1, i - 1), db.head[i])
      BY <2>1, ChainFields
    <3> QED BY <2>1, <3>1, <3>2
  <2> QED BY <2>1, <2>2 DEF Export, FileFits
<1> QED BY <1>1, <1>2, <1>3 DEF LedgerInv

LEMMA LedgerNext ==
    ASSUME LedgerAssumption, LedgerInv, [Next]_vars
    PROVE  LedgerInv'
<1>1. CASE UNCHANGED vars
  BY <1>1 DEF vars, LedgerInv, TablesFit, FileFits, LockHeld, WorkFits, StagedFits,
              LandedFits, SeenFits, Staged
<1>2. ASSUME NEW p \in Producers, Refuse(p) \/ Fail(p) PROVE LedgerInv'
  BY <1>2, GiveUpStep DEF Refuse, Fail
<1> QED BY <1>1, <1>2, OpenStep, SnapshotStep, CallStep, StageStep, LandStep, ReturnStep,
           FailLateStep, ExportStep DEF Next

LEMMA LedgerInvSound ==
    ASSUME LedgerAssumption, LedgerInv
    PROVE  LedgerSound
<1>1. /\ db.head \in Seq(Events) /\ db.rows \in Seq(Row) /\ db.count = Len(db.rows)
      /\ db.head = HeadOf(db.rows) /\ (db.marked => Reads(db))
  BY TablesRead DEF LedgerInv
<1>2. TypeOK
  BY <1>1 DEF LedgerInv, TablesFit, FileFits, LockHeld, WorkFits, SeenFits, TypeOK
<1>3. LedgerVerifies /\ NoForks /\ WholeBatchOnExpectedHead
  BY <1>1 DEF LedgerInv, SeenFits, LandedFits, LedgerVerifies, NoForks,
              WholeBatchOnExpectedHead
<1> QED BY <1>2, <1>3 DEF LedgerSound

-----------------------------------------------------------------------------
(***************************************************************************)
(* Whatever producers append or import, from whatever file, and wherever   *)
(* they fail, the store can be read, every ledger that was handed out is a *)
(* prefix of the one there is, and a batch is there as a whole, on the     *)
(* head its caller named (SQLiteLedger.append and import_snapshot).        *)
(***************************************************************************)
THEOREM LedgerIsSound ==
    ASSUME LedgerAssumption
    PROVE  Spec => []LedgerSound
<1>1. Init => LedgerInv
  BY LedgerInit
<1>2. LedgerInv /\ [Next]_vars => LedgerInv'
  BY LedgerNext
<1>3. LedgerInv => LedgerSound
  BY LedgerInvSound
<1> QED BY <1>1, <1>2, <1>3, PTL DEF Spec

(***************************************************************************)
(* A committed ledger only grows: no step of any producer removes, edits   *)
(* or reorders what is in it (there is no UPDATE or DELETE of an entry).   *)
(***************************************************************************)
THEOREM LedgerOnlyGrows ==
    ASSUME LedgerAssumption
    PROVE  Spec => [][IsPrefix(HeadOf(db.rows), HeadOf(db'.rows))]_vars
<1>1. Init => LedgerInv
  BY LedgerInit
<1>2. LedgerInv /\ [Next]_vars => LedgerInv'
  BY LedgerNext
<1>3. ASSUME LedgerInv, LedgerInv', [Next]_vars
      PROVE  IsPrefix(HeadOf(db.rows), HeadOf(db'.rows))
  <2>1. /\ db.head \in Seq(Events) /\ db.head = HeadOf(db.rows)
        /\ IsPrefix(db.head, db.head)
    BY <1>3, TablesRead, PrefixOfItself DEF LedgerInv
  <2>2. db'.head = HeadOf(db'.rows)
    <3>1. TablesFit'
      BY <1>3 DEF LedgerInv
    <3>2. db'.head \in Seq(Events) /\ db'.rows = Chain(db'.head)
      BY <3>1 DEF TablesFit, Ledgers
    <3> QED BY <3>2, ChainHead
  <2>3. ASSUME NEW p \in Producers, NEW create \in BOOLEAN, Open(p, create)
        PROVE  db'.head = db.head
    BY <1>3, <2>3 DEF Open, Tables, HeadOf, LedgerInv, TablesFit
  <2>4. ASSUME NEW p \in Producers, Land(p) PROVE IsPrefix(db.head, db'.head)
    BY <1>3, <2>1, <2>4, LandExtends
  <2>5. CASE UNCHANGED db
    BY <2>1, <2>5
  <2> QED BY <1>3, <2>1, <2>2, <2>3, <2>4, <2>5
          DEF Next, vars, Snapshot, CallAppend, CallImport, Begin, Refuse, Stage, Return,
              Fail, FailLate, GiveUp, Export
<1> QED BY <1>1, <1>2, <1>3, PTL DEF Spec

=============================================================================
