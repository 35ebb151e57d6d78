---------------------------- MODULE WorkflowStore ----------------------------
(***************************************************************************)
(* SQLiteWorkflowStore (workflow_storage.py): a workflow bundle in one     *)
(* SQLite file, appended to by independent processes under compare-and-    *)
(* append with durable request identity.                                   *)
(*                                                                         *)
(* A caller reads a checkpoint, retains a request (ID, expected checkpoint *)
(* and batch of transitions) in a recovery record of its own, and calls    *)
(* append or lookup.  A call opens a connection, takes the write lock      *)
(* (append) or a read snapshot (lookup), verifies the tables, decides,     *)
(* commits and cleans up.  Any of these steps may raise, and the process   *)
(* may die between any two of them.                                        *)
(*                                                                         *)
(* Digests are symbolic: a checkpoint is the content its two heads commit  *)
(* to, and a request digest is the request.                                *)
(***************************************************************************)
EXTENDS Naturals, Sequences

CONSTANTS
    Callers,            \* processes (store objects) with their recovery records
    RequestIds,
    Transitions,        \* the values receipts carry
    Batches,            \* the command tuples callers append
    Imported,           \* receipts of the initial bundle
    Authorized(_, _),   \* bundle.append(batch) succeeds on these receipts
    MaxRecords,         \* limits.max_records
    MaxAppendRecords,   \* limits.max_append_records
    MaxOperations,      \* limits.max_operations
    NoCaller            \* nobody holds the write lock

ASSUME StoreAssumption ==
    /\ Batches \subseteq Seq(Transitions)
    /\ Imported \in Seq(Transitions)
    /\ Len(Imported) <= MaxRecords
    /\ MaxRecords \in Nat /\ MaxAppendRecords \in Nat /\ MaxOperations \in Nat
    /\ NoCaller \notin Callers

VARIABLES
    db,         \* the committed tables of the file
    hot,        \* "hot" while a rollback journal of a dead writer is left, else "no"
    writer,     \* the caller whose transaction holds SQLite's write lock
    known,      \* per caller: the last checkpoint it learned
    request,    \* per caller: the request in its recovery record, if any
    kind,       \* per caller: the call under way, if any
    phase,      \* per caller: where the call stands
    staged,     \* per caller: the tables as its open transaction would leave them
    outcome,    \* per caller: _Transaction.outcome
    verdict,    \* per caller: what the body came to: a result, absence or an error
    report,     \* per caller: how its last call ended, as the caller saw it
    landed      \* history, per caller: this attempt's COMMIT became durable

vars == <<db, hot, writer, known, request, kind, phase, staged, outcome, verdict, report, landed>>

-----------------------------------------------------------------------------
(***************************************************************************)
(* The tables and what is computed from them.                              *)
(***************************************************************************)
\* The content a checkpoint's workflow_head and operation_head commit to.
Checkpoint == [receipts: Seq(Transitions), log: Seq([id: RequestIds, end: Nat])]

Genesis == [receipts |-> Imported, log |-> <<>>]

\* A request, which is also its own digest.
Request == [id: RequestIds, expected: Checkpoint, batch: Seq(Transitions)]

NoRequest == [id |-> "none"]

\* A row of workflow_operations: the bound receipt range ends at `end`.
Operation == [id: RequestIds, end: Nat, digest: Request]

Tables == [receipts: Seq(Transitions), operations: Seq(Operation), meta: Checkpoint]

EmptyStore == [receipts |-> Imported, operations |-> <<>>, meta |-> Genesis]

Log(operations) ==
    [i \in 1..Len(operations) |-> [id |-> operations[i].id, end |-> operations[i].end]]

\* Where the receipt range of operation i starts and what _read finds in it.
Start(operations, i) == IF i = 1 THEN Len(Imported) ELSE operations[i - 1].end

CheckpointBefore(d, i) ==
    [receipts |-> SubSeq(d.receipts, 1, Start(d.operations, i)),
     log |-> SubSeq(Log(d.operations), 1, i - 1)]

Recomputed(d, i) ==
    [id |-> d.operations[i].id,
     expected |-> CheckpointBefore(d, i),
     batch |-> SubSeq(d.receipts, Start(d.operations, i) + 1, d.operations[i].end)]

\* _read accepts the tables: consecutive nonempty disjoint ranges, digests
\* recomputed from the receipts they bind, a bundle that still replays, and the
\* stored checkpoint all agree, within the limits.  Every call raises on tables
\* it does not accept.
Verifies(d) ==
    /\ \A i \in 1..Len(d.operations) :
           /\ d.operations[i].end \in (Start(d.operations, i) + 1)..Len(d.receipts)
           /\ d.operations[i].digest = Recomputed(d, i)
           /\ Len(Recomputed(d, i).batch) <= MaxAppendRecords
           /\ Authorized(Recomputed(d, i).expected.receipts, Recomputed(d, i).batch)
    /\ Start(d.operations, Len(d.operations) + 1) = Len(d.receipts)
    /\ d.meta = [receipts |-> d.receipts, log |-> Log(d.operations)]
    /\ Len(d.receipts) <= MaxRecords /\ Len(d.operations) <= MaxOperations

Committed(d) == {d.operations[i].digest : i \in 1..Len(d.operations)}

UsedIds(d) == {d.operations[i].id : i \in 1..Len(d.operations)}

\* Mutant: the UPDATE of workflow_meta is forgotten.
ExtendedWithoutMeta(d, r) ==
    LET receipts == d.receipts \o r.batch
    IN  [receipts |-> receipts, meta |-> d.meta,
         operations |-> Append(d.operations,
                               [id |-> r.id, end |-> Len(receipts), digest |-> r])]

\* The tables after the INSERTs and the UPDATE of an append.
Extended(d, r) ==
    LET receipts == d.receipts \o r.batch
        operations == Append(d.operations, [id |-> r.id, end |-> Len(receipts), digest |-> r])
    IN  [receipts |-> receipts, operations |-> operations,
         meta |-> [receipts |-> receipts, log |-> Log(operations)]]

\* The checkpoint in the WorkflowCommit a caller gets back for its request.
ResultOf(r) ==
    [receipts |-> r.expected.receipts \o r.batch,
     log |-> Append(r.expected.log,
                    [id |-> r.id, end |-> Len(r.expected.receipts) + Len(r.batch)])]

Phases == {"idle", "opening", "reading", "staged", "committing", "landed", "settling", "dead"}
Outcomes == {"none", "unknown", "complete"}
Verdicts == {"pending", "commit", "absent", "refused", "failed"}
Reports == {"nothing", "commit", "absent", "refused", "lost"} \cup Outcomes

Init ==
    /\ db = EmptyStore
    /\ hot = "no"
    /\ writer = NoCaller
    /\ known = [p \in Callers |-> Genesis]
    /\ request = [p \in Callers |-> NoRequest]
    /\ kind = [p \in Callers |-> "none"]
    /\ phase = [p \in Callers |-> "idle"]
    /\ staged = [p \in Callers |-> EmptyStore]
    /\ outcome = [p \in Callers |-> "none"]
    /\ verdict = [p \in Callers |-> "pending"]
    /\ report = [p \in Callers |-> "nothing"]
    /\ landed = [p \in Callers |-> FALSE]

Goto(p, from, to) == phase[p] = from /\ phase' = [phase EXCEPT ![p] = to]

-----------------------------------------------------------------------------
(***************************************************************************)
(* Between calls.                                                          *)
(***************************************************************************)
\* snapshot(): a consistent read, stale as soon as somebody else commits.
Snapshot(p) ==
    /\ phase[p] = "idle" /\ hot = "no"
    /\ known' = [known EXCEPT ![p] = [receipts |-> db.receipts, log |-> Log(db.operations)]]
    /\ UNCHANGED <<db, hot, writer, request, kind, phase, staged, outcome, verdict, report, landed>>

\* The caller decides on a request and retains it; _prepare refuses a batch
\* that is empty or too long before any connection is opened.
Retain(p, id, batch) ==
    /\ phase[p] = "idle"
    /\ Len(batch) \in 1..MaxAppendRecords
    /\ request' = [request EXCEPT ![p] =
           [id |-> id, expected |-> known[p], batch |-> batch]]
    /\ report' = [report EXCEPT ![p] = "nothing"]
    /\ UNCHANGED <<db, hot, writer, known, kind, phase, staged, outcome, verdict, landed>>

\* append(...) or lookup(...) of the retained request, for the first time or again.
Call(p, k) ==
    /\ request[p] # NoRequest
    /\ Goto(p, "idle", "opening")
    /\ kind' = [kind EXCEPT ![p] = k]
    /\ outcome' = [outcome EXCEPT ![p] = "none"]
    /\ verdict' = [verdict EXCEPT ![p] = "pending"]
    /\ report' = [report EXCEPT ![p] = "nothing"]
    /\ landed' = [landed EXCEPT ![p] = FALSE]
    /\ UNCHANGED <<db, hot, writer, known, request, staged>>

-----------------------------------------------------------------------------
(***************************************************************************)
(* _run: the transaction of one call.                                      *)
(***************************************************************************)
\* Mutant: every transaction is a plain BEGIN.
BeginDeferred(p) ==
    /\ Goto(p, "opening", "reading")
    /\ hot' = "no"
    /\ UNCHANGED <<db, writer, known, request, kind, staged, outcome, verdict, report, landed>>

\* BEGIN IMMEDIATE on a writable connection takes the write lock and rolls a
\* hot journal back; a plain BEGIN on a read-only one can only fail on it.
Begin(p) ==
    /\ Goto(p, "opening", "reading")
    /\ IF kind[p] = "append" THEN writer = NoCaller /\ writer' = p
                             ELSE hot = "no" /\ writer' = writer
    /\ hot' = "no"
    /\ UNCHANGED <<db, known, request, kind, staged, outcome, verdict, report, landed>>

\* The body returns or raises without having written a row.
Conclude(p, v, o) ==
    /\ Goto(p, "reading", "settling")
    /\ verdict' = [verdict EXCEPT ![p] = v]
    /\ outcome' = [outcome EXCEPT ![p] = o]
    /\ UNCHANGED <<db, hot, writer, known, request, kind, staged, report, landed>>

\* The retained ID and digest are already in the journal: the historical commit.
Recall(p) ==
    /\ request[p] \in Committed(db)
    /\ Conclude(p, "commit", "complete")

\* The ID is there with another digest.
RefuseId(p) ==
    /\ request[p].id \in UsedIds(db)
    /\ request[p] \notin Committed(db)
    /\ Conclude(p, "refused", "none")

\* lookup finds no such ID.
FindNothing(p) ==
    /\ kind[p] = "lookup"
    /\ request[p].id \notin UsedIds(db)
    /\ Conclude(p, "absent", "none")

Fresh(p) == kind[p] = "append" /\ request[p].id \notin UsedIds(db)

\* The expected checkpoint is not the current one.
RefuseStale(p) ==
    /\ Fresh(p)
    /\ request[p].expected # db.meta
    /\ Conclude(p, "refused", "none")

\* Mutant: the record limit forgets the length of the batch.
WithinLimitsBefore(r) ==
    /\ Len(r.expected.receipts) < MaxRecords
    /\ Len(r.expected.log) < MaxOperations

WithinLimits(r) ==
    /\ Len(r.expected.receipts) + Len(r.batch) <= MaxRecords
    /\ Len(r.expected.log) < MaxOperations

\* A limit or the authority replay of the whole batch says no.
RefuseBatch(p) ==
    /\ Fresh(p)
    /\ request[p].expected = db.meta
    /\ ~(WithinLimits(request[p]) /\ Authorized(db.receipts, request[p].batch))
    /\ Conclude(p, "refused", "none")

\* Mutant: the rows are inserted whatever checkpoint the caller expected.
StageBlindly(p) ==
    /\ Fresh(p)
    /\ WithinLimits(request[p]) /\ Authorized(db.receipts, request[p].batch)
    /\ Goto(p, "reading", "staged")
    /\ staged' = [staged EXCEPT ![p] = Extended(db, request[p])]
    /\ verdict' = [verdict EXCEPT ![p] = "commit"]
    /\ UNCHANGED <<db, hot, writer, known, request, kind, outcome, report, landed>>

\* Every check passed: the rows are inserted in the open transaction.
Stage(p) ==
    /\ Fresh(p)
    /\ request[p].expected = db.meta
    /\ WithinLimits(request[p]) /\ Authorized(db.receipts, request[p].batch)
    /\ Goto(p, "reading", "staged")
    /\ staged' = [staged EXCEPT ![p] = Extended(db, request[p])]
    /\ verdict' = [verdict EXCEPT ![p] = "commit"]
    /\ UNCHANGED <<db, hot, writer, known, request, kind, outcome, report, landed>>

\* Mutant: the outcome stays "none" until COMMIT returns.
StartCommitQuietly(p) ==
    /\ Goto(p, "staged", "committing")
    /\ UNCHANGED <<db, hot, writer, known, request, kind, staged, outcome, verdict, report, landed>>

\* outcome = "unknown", then COMMIT is attempted.
StartCommit(p) ==
    /\ Goto(p, "staged", "committing")
    /\ outcome' = [outcome EXCEPT ![p] = "unknown"]
    /\ UNCHANGED <<db, hot, writer, known, request, kind, staged, verdict, report, landed>>

\* COMMIT becomes durable and gives up the lock; nobody has been told yet.
Land(p) ==
    /\ Goto(p, "committing", "landed")
    /\ db' = staged[p]
    /\ writer' = NoCaller
    /\ landed' = [landed EXCEPT ![p] = TRUE]
    /\ UNCHANGED <<hot, known, request, kind, staged, outcome, verdict, report>>

\* Mutant: the body's verdict is recorded as the outcome.
AcknowledgeVerdict(p) ==
    /\ Goto(p, "landed", "settling")
    /\ outcome' = [outcome EXCEPT ![p] = verdict[p]]
    /\ UNCHANGED <<db, hot, writer, known, request, kind, staged, verdict, report, landed>>

\* connection.commit() returned.
Acknowledge(p) ==
    /\ Goto(p, "landed", "settling")
    /\ outcome' = [outcome EXCEPT ![p] = "complete"]
    /\ UNCHANGED <<db, hot, writer, known, request, kind, staged, verdict, report, landed>>

\* Mutant: the wait for the write lock never times out.
RaiseOnceOpen(p) ==
    /\ phase[p] \in {"reading", "staged", "committing", "landed"}
    /\ phase' = [phase EXCEPT ![p] = "settling"]
    /\ verdict' = [verdict EXCEPT ![p] = "failed"]
    /\ UNCHANGED <<db, hot, writer, known, request, kind, staged, outcome, report, landed>>

\* An exception that is no ValidationError, at any step from opening to COMMIT:
\* a busy timeout, an I/O error, a COMMIT that raises with or without effect.
Raise(p) ==
    /\ phase[p] \in {"opening", "reading", "staged", "committing", "landed"}
    /\ phase' = [phase EXCEPT ![p] = "settling"]
    /\ verdict' = [verdict EXCEPT ![p] = "failed"]
    /\ UNCHANGED <<db, hot, writer, known, request, kind, staged, outcome, report, landed>>

(***************************************************************************)
(* The end of a call.  rollback() and close() end the transaction, and the *)
(* caller sees a result, a ValidationError with outcome none as it was     *)
(* raised, or a failure that carries the outcome.                          *)
(***************************************************************************)
Finish(p, r, rest) ==
    /\ phase' = [phase EXCEPT ![p] = rest]
    /\ writer' = IF writer = p THEN NoCaller ELSE writer
    /\ kind' = [kind EXCEPT ![p] = "none"]
    /\ staged' = [staged EXCEPT ![p] = EmptyStore]
    /\ outcome' = [outcome EXCEPT ![p] = "none"]
    /\ verdict' = [verdict EXCEPT ![p] = "pending"]
    /\ report' = [report EXCEPT ![p] = r]
    /\ UNCHANGED <<db, request, landed>>

Return(p) ==
    /\ phase[p] = "settling"
    /\ Finish(p, IF verdict[p] = "failed" THEN outcome[p] ELSE verdict[p], "idle")
    /\ UNCHANGED hot
    /\ known' = [known EXCEPT ![p] =
           IF verdict[p] = "commit" THEN ResultOf(request[p]) ELSE @]

\* A cleanup that raises replaces a result, and an interrupt an earlier error.
CleanupRaises(p) ==
    /\ phase[p] = "settling"
    /\ Finish(p, outcome[p], "idle")
    /\ UNCHANGED <<hot, known>>

\* The process dies; the recovery record and the last checkpoint were retained
\* elsewhere.  SQLite rolls an unfinished transaction back, but a death inside
\* COMMIT may leave a hot rollback journal, which only a writable connection can
\* roll back.
Crash(p) ==
    /\ phase[p] \notin {"idle", "dead"}
    /\ Finish(p, "lost", "dead")
    /\ hot' \in IF phase[p] = "committing" THEN {hot, "hot"} ELSE {hot}
    /\ UNCHANGED known

\* SQLiteWorkflowStore(...) in a new process: its constructor reads the store.
Reopen(p) ==
    /\ hot = "no"
    /\ Goto(p, "dead", "idle")
    /\ UNCHANGED <<db, hot, writer, known, request, kind, staged, outcome, verdict, report, landed>>

-----------------------------------------------------------------------------
Progress(p) ==
    \/ Begin(p) \/ Recall(p) \/ RefuseId(p) \/ FindNothing(p) \/ RefuseStale(p)
    \/ RefuseBatch(p) \/ Stage(p) \/ StartCommit(p) \/ Land(p) \/ Acknowledge(p)
    \/ Raise(p) \/ Return(p) \/ CleanupRaises(p)

Next == \E p \in Callers :
    \/ Snapshot(p)
    \/ \E id \in RequestIds, batch \in Batches : Retain(p, id, batch)
    \/ \E k \in {"append", "lookup"} : Call(p, k)
    \/ Begin(p)
    \/ Recall(p)
    \/ RefuseId(p)
    \/ FindNothing(p)
    \/ RefuseStale(p)
    \/ RefuseBatch(p)
    \/ Stage(p)
    \/ StartCommit(p)
    \/ Land(p)
    \/ Acknowledge(p)
    \/ Raise(p)
    \/ Return(p)
    \/ CleanupRaises(p)
    \/ Crash(p)
    \/ Reopen(p)

Spec == Init /\ [][Next]_vars

\* A process that is inside a call keeps running: SQLite's busy timeout bounds
\* the wait for the lock, and every other step is local.
FairSpec == Spec /\ \A p \in Callers : WF_vars(Progress(p))

-----------------------------------------------------------------------------
(***************************************************************************)
(* Type invariant.                                                         *)
(***************************************************************************)
TypeOK ==
    /\ db \in Tables
    /\ hot \in {"no", "hot"}
    /\ writer \in Callers \cup {NoCaller}
    /\ known \in [Callers -> Checkpoint]
    /\ request \in [Callers -> Request \cup {NoRequest}]
    /\ kind \in [Callers -> {"none", "append", "lookup"}]
    /\ phase \in [Callers -> Phases]
    /\ staged \in [Callers -> Tables]
    /\ outcome \in [Callers -> Outcomes]
    /\ verdict \in [Callers -> Verdicts]
    /\ report \in [Callers -> Reports]
    /\ landed \in [Callers -> BOOLEAN]

(***************************************************************************)
(* No interleaving of appends, failures and crashes leaves a file that     *)
(* _read rejects: the receipt ranges, the recomputed request digests, the  *)
(* authority replay and the stored checkpoint still agree, and no request  *)
(* ID was bound twice.                                                     *)
(***************************************************************************)
StoreVerifies ==
    /\ Verifies(db)
    /\ \A i, j \in 1..Len(db.operations) :
           db.operations[i].id = db.operations[j].id => i = j

(***************************************************************************)
(* A caller acts on what it was told.  Refusal, absence and outcome none   *)
(* mean that this attempt left nothing behind, so that it is safe to drop  *)
(* or to change the request; a commit and outcome complete mean that the   *)
(* retained request is in the journal, also when a cleanup failed later.   *)
(***************************************************************************)
ReportsTruthful ==
    \A p \in Callers :
        /\ report[p] \in {"refused", "absent", "none"} => ~landed[p]
        /\ report[p] \in {"commit", "complete"} => request[p] \in Committed(db)

(***************************************************************************)
(* Every checkpoint a caller holds, read or returned by a commit that may  *)
(* have been recovered much later, is a point of the one history in the    *)
(* file: nobody ever holds the tip of a fork.                              *)
(***************************************************************************)
History(d) == {CheckpointBefore(d, i) : i \in 1..Len(d.operations) + 1}

NoForks == \A p \in Callers : known[p] \in History(db)

(***************************************************************************)
(* A call ends, with a result or an error: nobody waits for the write lock *)
(* for ever, not even behind callers that keep taking it.                  *)
(***************************************************************************)
Resting == {"idle", "dead"}

EveryCallEnds == \A p \in Callers : phase[p] \notin Resting ~> phase[p] \in Resting

(***************************************************************************)
(* The store is an atomic compare-and-append log of requests: the journal  *)
(* grows by one request at a time, each at the tip it names, and callers   *)
(* are only ever told of requests in it.                                   *)
(***************************************************************************)
Journal == [i \in 1..Len(db.operations) |-> db.operations[i].digest]

Told == {p \in Callers : report[p] \in {"commit", "complete"}}

Abstract == INSTANCE CompareAndAppend WITH history <- Journal, asked <- request, told <- Told

ImplementsCompareAndAppend == Abstract!Spec
=============================================================================
