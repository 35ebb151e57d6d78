----------------------------- MODULE LedgerStore -----------------------------
(***************************************************************************)
(* The evidence ledger (ledger.py) and its SQLite store (storage.py):      *)
(* producers append batches of events under BEGIN IMMEDIATE, with or       *)
(* without the head they expect, import a portable snapshot into an empty  *)
(* store, and export one.  Every connection is writable, so that a reader  *)
(* too rolls back what a dead writer left; an error carries no outcome.    *)
(*                                                                         *)
(* A digest is the chain of events it commits to: hashing is injective.    *)
(***************************************************************************)
EXTENDS Naturals, Sequences, FiniteSets, SequencesExt

CONSTANTS
    Producers,      \* processes that use the store
    Events,
    IdOf,           \* event -> its event_id
    TimeOf,         \* event -> its ingestion time
    Batches,        \* what producers append: sequences of events
    MaxEntries,     \* MAX_LEDGER_ENTRIES
    NoHead,         \* no expected head is given
    Nobody

LedgerAssumption ==
    /\ Batches \subseteq Seq(Events) /\ MaxEntries \in Nat
    /\ DOMAIN IdOf = Events /\ TimeOf \in [Events -> Nat]
    /\ NoHead \notin Seq(Events) /\ Nobody \notin Producers

VARIABLES
    db,         \* the committed tables: entries and meta; an unmarked file has none
    writer,     \* holder of the write lock
    file,       \* the entries of the portable snapshot
    phase,      \* per producer: where its call stands
    work,       \* per producer: the call it makes, or the last one that committed
    seen,       \* per producer: the last ledger it was given
    report      \* per producer: how its last call ended

vars == <<db, writer, file, phase, work, seen, report>>

-----------------------------------------------------------------------------
(***************************************************************************)
(* Chains.                                                                 *)
(***************************************************************************)
\* The digest of a chain whose last entry carries e on top of `previous`.
Digest(previous, e) == Append(previous, e)

\* One row more, as append and build_ledger make it.
Entry(previous, e) ==
    [sequence |-> Len(previous), id |-> IdOf[e], event |-> e,
     previous |-> previous, digest |-> Digest(previous, e)]

\* The rows of a chain of events.
Chain(events) == [i \in DOMAIN events |-> Entry(SubSeq(events, 1, i - 1), events[i])]

HeadOf(rows) == IF rows = <<>> THEN <<>> ELSE rows[Len(rows)].digest

\* EvidenceLedger.verify
Verify(rows) ==
    /\ Len(rows) <= MaxEntries
    /\ \A i \in DOMAIN rows :
           /\ rows[i].sequence = i - 1 /\ rows[i].id = IdOf[rows[i].event]
           /\ rows[i].previous = HeadOf(SubSeq(rows, 1, i - 1))
           /\ rows[i].digest = Digest(rows[i].previous, rows[i].event)
    /\ \A i, j \in DOMAIN rows : rows[i].id = rows[j].id => i = j

\* SQLiteLedger._read accepts the tables.
Reads(d) == d.marked /\ Verify(d.rows) /\ d.head = HeadOf(d.rows) /\ d.count = Len(d.rows)

Tables(rows) == [marked |-> TRUE, rows |-> rows, head |-> HeadOf(rows), count |-> Len(rows)]

\* No event ID twice.
Unique(events) ==
    \A i, j \in DOMAIN events : IdOf[events[i]] = IdOf[events[j]] => i = j

\* build_ledger sorts by ingestion time, then by event ID.
Earlier(e, f) == TimeOf[e] < TimeOf[f] \/ (TimeOf[e] = TimeOf[f] /\ IdOf[e] < IdOf[f])

\* The orders in which it admits events.
BuildOrders ==
    {es \in BoundedSeq(Events, MaxEntries) :
        Unique(es) /\ \A i, j \in DOMAIN es : i < j => Earlier(es[i], es[j])}

-----------------------------------------------------------------------------
NoWork == [kind |-> "none", batch |-> <<>>, expects |-> NoHead, base |-> NoHead]

Built == {Chain(es) : es \in BuildOrders}

\* The file was built from events, and somebody may have cut its first entry out.
Init ==
    /\ db = [Tables(<<>>) EXCEPT !.marked = FALSE]
    /\ writer = Nobody
    /\ file \in Built \cup {Tail(b) : b \in Built \ {<<>>}}
    /\ phase = [p \in Producers |-> "closed"]
    /\ work = [p \in Producers |-> NoWork]
    /\ seen = [p \in Producers |-> <<>>]
    /\ report = [p \in Producers |-> "nothing"]

Goto(p, from, to) == phase[p] = from /\ phase' = [phase EXCEPT ![p] = to]

\* Mutant: a plain BEGIN.
LockFreeAssumed == TRUE

\* BEGIN IMMEDIATE can have the write lock.
LockFree == writer = Nobody

\* SQLiteLedger(path, create=...): an unmarked file becomes an empty store.
Open(p, create) ==
    /\ LockFree /\ Goto(p, "closed", "idle")
    /\ IF db.marked THEN Reads(db) /\ UNCHANGED db ELSE create /\ db' = Tables(<<>>)
    /\ UNCHANGED <<writer, file, work, seen, report>>

\* snapshot(): BEGIN, read, verify.
Snapshot(p) ==
    /\ phase[p] = "idle" /\ Reads(db)
    /\ seen' = [seen EXCEPT ![p] = HeadOf(db.rows)]
    /\ UNCHANGED <<db, writer, file, phase, work, report>>

\* A call prepares its batch and takes the write lock.
Begin(p, kind, batch, expects) ==
    /\ LockFree /\ Goto(p, "idle", "deciding")
    /\ writer' = p
    /\ work' = [work EXCEPT ![p] =
                   [kind |-> kind, batch |-> batch, expects |-> expects, base |-> NoHead]]
    /\ report' = [report EXCEPT ![p] = "nothing"]
    /\ UNCHANGED <<db, file, seen>>

\* append(events), or append(events, expected_head=...) with the last head seen.
CallAppend(p, b) == \E head \in {NoHead, seen[p]} : Begin(p, "append", b, head)

\* load_ledger and import_snapshot: a file that does not verify is refused at once.
CallImport(p) == Verify(file) /\ Begin(p, "import", HeadOf(file), NoHead)

\* Mutant: an expected head that is anywhere in the ledger will do.
HeadAgreesAnywhere(p) == work[p].expects \in {NoHead, <<>>} \cup {db.rows[i].digest : i \in DOMAIN db.rows}

HeadAgrees(p) == work[p].expects \in {NoHead, HeadOf(db.rows)}

\* The checks in front of the INSERTs; an import wants an empty store.
Accepts(p) ==
    /\ Reads(db)
    /\ IF work[p].kind = "import" THEN db.rows = <<>>
       ELSE HeadAgrees(p) /\ Len(db.rows) + Len(work[p].batch) <= MaxEntries

\* The call of p ends without effect: rolled back, the lock given up.
GiveUp(p, how) ==
    /\ phase' = [phase EXCEPT ![p] = "idle"]
    /\ writer' = IF writer = p THEN Nobody ELSE writer
    /\ work' = [work EXCEPT ![p] = NoWork]
    /\ report' = [report EXCEPT ![p] = how]
    /\ UNCHANGED <<db, file, seen>>

\* ValidationError: rolled back.
Refuse(p) == phase[p] = "deciding" /\ ~Accepts(p) /\ GiveUp(p, "refused")

\* Mutant: event_id is not UNIQUE.
FreshAssumed(rows, events) == TRUE

\* The UNIQUE constraint on event_id, row after row.
Fresh(rows, events) == Unique(HeadOf(rows) \o events)

\* Every INSERT and the UPDATE of ledger_meta succeeded in the open transaction.
Stage(p) ==
    /\ phase[p] = "deciding" /\ Accepts(p) /\ Fresh(db.rows, work[p].batch)
    /\ phase' = [phase EXCEPT ![p] = "committing"]
    /\ work' = [work EXCEPT ![p].base = HeadOf(db.rows)]
    /\ UNCHANGED <<db, writer, file, seen, report>>

\* What the transaction of p leaves, and what its caller is given.
Staged(p) == work[p].base \o work[p].batch

\* COMMIT becomes durable; the call may still fail before its caller knows.
Land(p) ==
    /\ Goto(p, "committing", "landed")
    /\ db' = Tables(Chain(Staged(p)))
    /\ writer' = Nobody
    /\ UNCHANGED <<file, work, seen, report>>

Return(p) ==
    /\ Goto(p, "landed", "idle")
    /\ seen' = [seen EXCEPT ![p] = Staged(p)]
    /\ report' = [report EXCEPT ![p] = "done"]
    /\ UNCHANGED <<db, writer, file, work>>

\* A database error (a duplicate event ID, I/O, a COMMIT without effect) or the
\* death of the process: the caller knows nothing.
Fail(p) == phase[p] \in {"deciding", "committing"} /\ GiveUp(p, "failed")

\* The same after the COMMIT took effect: the caller is told no more than by Fail.
FailLate(p) ==
    /\ Goto(p, "landed", "idle")
    /\ report' = [report EXCEPT ![p] = "failed"]
    /\ UNCHANGED <<db, writer, file, work, seen>>

\* write_ledger: the whole verified snapshot replaces the file atomically.
Export(p) ==
    /\ phase[p] = "idle" /\ Reads(db)
    /\ file' = db.rows
    /\ UNCHANGED <<db, writer, phase, work, seen, report>>

Next ==
    \E p \in Producers :
        \/ \E create \in BOOLEAN : Open(p, create)
        \/ Snapshot(p)
        \/ \E b \in Batches : CallAppend(p, b)
        \/ CallImport(p)
        \/ Refuse(p)
        \/ Stage(p)
        \/ Land(p)
        \/ Return(p)
        \/ Fail(p)
        \/ FailLate(p)
        \/ Export(p)

Spec == Init /\ [][Next]_vars

-----------------------------------------------------------------------------
(***************************************************************************)
(* Type invariant.                                                         *)
(***************************************************************************)
Row == [sequence: Nat, id: {IdOf[e] : e \in Events}, event: Events,
        previous: Seq(Events), digest: Seq(Events)]

MaybeHead == Seq(Events) \cup {NoHead}

TypeOK ==
    /\ db.rows \in Seq(Row) /\ db.head \in Seq(Events) /\ db.count = Len(db.rows)
    /\ db.marked \in BOOLEAN
    /\ writer \in Producers \cup {Nobody}
    /\ file \in Seq(Row)
    /\ phase \in [Producers -> {"closed", "idle", "deciding", "committing", "landed"}]
    /\ work \in [Producers -> [kind: {"none", "append", "import"}, batch: Seq(Events),
                               expects: MaybeHead, base: MaybeHead]]
    /\ seen \in [Producers -> Seq(Events)]
    /\ report \in [Producers -> {"nothing", "done", "refused", "failed"}]
    /\ \A p \in Producers : writer = p <=> phase[p] \in {"deciding", "committing"}

(***************************************************************************)
(* Whatever producers, imports of edited files, failures and retries do,   *)
(* the store can be read: its chain verifies, its head and its count are   *)
(* those of its rows, and no event ID is in it twice.                      *)
(***************************************************************************)
LedgerVerifies == db.marked => Reads(db)

(***************************************************************************)
(* Nobody was ever given a ledger that is not a prefix of the one there    *)
(* is: an append or an import that succeeded is never overwritten.         *)
(***************************************************************************)
NoForks == \A p \in Producers : IsPrefix(seen[p], HeadOf(db.rows))

(***************************************************************************)
(* A call that returned, or failed after its COMMIT, has its whole batch   *)
(* in the ledger in one piece, on top of the head it named if it named     *)
(* one; a refused call has left nothing.                                   *)
(***************************************************************************)
WholeBatchOnExpectedHead ==
    \A p \in Producers : phase[p] = "idle" =>
        /\ report[p] = "done" => work[p].base # NoHead
        /\ work[p].base # NoHead =>
               /\ IsPrefix(Staged(p), HeadOf(db.rows))
               /\ work[p].expects \in {NoHead, work[p].base}

(***************************************************************************)
(* All of it: the database can be read, producers are told of one history  *)
(* only, and a batch is there as a whole, on the head it named.            *)
(***************************************************************************)
LedgerSound == TypeOK /\ LedgerVerifies /\ NoForks /\ WholeBatchOnExpectedHead
=============================================================================
