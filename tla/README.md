# Evidence Braid: TLA+ models, model checks and proofs

This directory holds a formal model of the parts of Evidence Braid in which
several people, threads or processes act on shared records (the authority
workflow, the durable stores, the service and its clients, file publication, the
execution of observation adapters), and of the pure algorithms whose errors show
only at rare inputs (proofs, paging, evaluation, claim checks).
`PROJECT.json` is the machine-readable index (components, runs, mutants, the map
from definitions to source lines, hazards, theorems). Paths below are relative to
`src/src/evidence_braid/`.

## 1. Inventory of the system

| Component | State it keeps | Operations | What is hard |
|---|---|---|---|
| Authority and claim workflow (`authority.py`, `workflow.py`) | immutable bundle of receipts; replayed claims with revision, authors, approvals, content | `WorkflowBundle.append`, `replay_workflow` | submitters decide on stale reads; quorum and independence; content must freeze at submission |
| Durable workflow store (`workflow_storage.py`) | one SQLite file: receipts, operations, meta checkpoint | `snapshot`, `append`, `lookup`, `request_digest`, `create_workflow_store` | competing processes, COMMIT of unknown effect, retries, death between any two steps, limits |
| Epistemic case journal (`epistemic_case.py`) | immutable journal plan → observation → verdict → decision | `append`, `replay_case` | four independent actors; verdict must be the one the bytes earn |
| Durable case store and bridge (`case_storage.py`) | SQLite file with receipts, output, operations, meta; per-object bridge lock | `claim_observation`, `finish_observation`, `append_checked_verdict`, `execute_observation`, `lookup`, `lookup_operation` | a callback with outside effects between two transactions; at-most-once entry; death at every step |
| Observation runner (`case_observation.py`) | one-shot intents, cancel tokens, issued envelopes | `prepare_observation`, `run_observation`, `cancel`, `verify_observed_bytes` | cancellation races publication; two threads on one intent |
| Workflow service and client (`workflow_service.py`, `_workflow_service_wire.py`, `workflow_client.py`) | lifecycle state, worker permits, rate buckets; a client's retained intents | `start`, accept/dispatch, `close`; `append`, `lookup` over a socket | draining with requests in flight, permits, lost responses |
| Evidence ledger store (`ledger.py`, `storage.py`, `replay.py`) | SQLite ledger of chained events | `append` (optional expected head), `import` | unguarded appends interleave |
| File publication (`_atomic.py`, `schema_directory.py`, `artifacts.py`, `case_artifacts.py`) | staged and published files | stage, fsync, link or replace, clean up; build and verify closed archives; export and verify a schema directory | racing publishers, failing cleanup, files that change while they are read |
| Consistency and membership (`consistency.py`, `membership.py`) | none | prove and verify growth and receipts of a ledger | recursion, off-by-one at tree boundaries, edited proofs |
| Evaluation engine (`engine.py`, `grouping.py`, `decay.py`, `reliability.py`, `provenance.py`) | none | `evaluate`, `replay`, judgements of sources | copies, late and predated events, gates at equal scores |
| Query (`query.py`) | a snapshot and a cursor between pages | `page` | a ledger that grows, restarts, page bounds by count and bytes |
| Claim checks (`checks.py`, `check_workflow.py`) | none | `evaluate_checks`, `verify_claim_checks` | stale approvals, absent values, reports nobody recomputed |
| Store commands (`workflow_store_cli.py`) | one run's outcome | six commands, report, diagnosis | interrupts and lost output around an append |
| Main CLI, domain values, migrations, comparison and reports | none shared | pure functions and front ends | data only |

How they interact: the service calls the workflow store, which replays the
workflow under the authority policy on every read; the case store calls the
case journal the same way and the observation registry for the adapter; the
runner and the case store share the journal rules but not state. Processes meet
only in a SQLite file, threads only in a store object's bridge lock, an
intent's lock or a token's lock.

The properties that make them correct: an approval means what the policy says
it means, on what the reviewers read; a file is always one the reader accepts;
what a caller is told is true and enough to recover from; histories do not fork
or shrink; an adapter is entered at most once and what it produced is not lost;
what a proof, a page, a decision or a check says is so by a definition that does
not share its algorithm; calls end.

## 2. Modules

| Module | Models | Status |
|---|---|---|
| `Authority` | `authority.py` and the branch guards and updates of `replay_workflow`, as operators | checked, proved about through `Workflow` |
| `Workflow` | submitters with stale reads appending to a bundle | checked, proved (`WorkflowProofs`) |
| `CompareAndAppend` | what a durable workflow store promises: an atomic log of requests | abstract specification |
| `WorkflowStore` | `SQLiteWorkflowStore`, step by step | checked, proved, refines `CompareAndAppend` (`WorkflowStoreProofs`) |
| `CaseJournal` | `epistemic_case.py`: records and `replay_case`, as operators | checked and proved about through the next two |
| `CaseProtocol` | what the case store and its bridge promise: one claim, one entry, one observation, one verdict | abstract specification |
| `CaseStore` | `SQLiteCaseStore` and its bridge | checked, proved, refines `CaseProtocol` (`CaseStoreProofs`) |
| `ObservationRunner` | `case_observation.py` | checked, proved (`ObservationRunnerProofs`) |
| `StoreReservation` | `create_workflow_store`, `create_case_store` up to the first transaction | checked, proved (`StoreReservationProofs`) |
| `WorkflowService` | `LocalWorkflowService`: start, acceptor, workers, close | checked, proved (`WorkflowServiceProofs`) |
| `WorkflowClient` | `workflow_client.py`, extends `WorkflowService` | checked, proved (`WorkflowServiceProofs`) |
| `RateLimit` | `_Bucket` and `_rate` | checked, proved (`WorkflowServiceProofs`) |
| `StoreCommand` | `workflow_store_cli.py` over the promise of `WorkflowStore` | checked, proved (`StoreReservationProofs`) |
| `LedgerStore` | `storage.py` and the receipts of `ledger.py` | checked, proved (`LedgerStoreProofs`) |
| `LedgerQuery` | `query.py` | checked |
| `MerkleProofs` | `consistency.py`, `membership.py` | checked (recursive operators) |
| `Publication` | `staged_output` of `_atomic.py` | checked, proved (`PublicationProofs`) |
| `ArtifactBundle` | `artifacts.py`, extends `Publication` | checked |
| `SchemaDirectory` | `schema_directory.py` | checked, proved (`PublicationProofs`) |
| `Evaluation` | `engine.py`, `grouping.py`, `decay.py`, `reliability.py`, `replay.py`, `robustness.py` and the validation they rely on | checked |
| `ClaimChecks` | `checks.py`, `check_workflow.py`, extends `Workflow` | checked, proved (`WorkflowProofs`) |
| `MCCaseValues`, `MCStoreValues`, `MCEvaluationValues`, `MCClaimChecks` | values that several instances share | |
| `MCWorkflow`, `MCWorkflowStore`, `MCCaseStore`, `MCWorkflowService`, `MCPublication` | instances of one component | |
| `MCCallsEnd`, `MCCallers`, `MCLedger`, `MCFiles`, `MCDecisions` | instances of several components, one per behaviour | |

### Workflow

`claims` is the replayed state, `records` the bundle's receipts. A submitter
reads the state (`Decide`), which fixes the revision its transition will name,
and appends later (`Create` ... `Revoke`, one per `WorkflowAction`); in between
anything may happen. `replay_workflow` is a left fold over the receipts, so an
append is one application of the step operators `Accepts` and `After` to the
claim concerned; a rejected append raises and changes nothing, and is therefore
no step. `seen` records what a submitter had read; it is a history field.

### WorkflowStore

A call goes through the phases of `_run`: opening a connection, `BEGIN`
(`Begin`: the write lock for an append), reading and verifying the tables,
deciding (`Recall`, `RefuseId`, `RefuseStale`, `RefuseBatch`, `FindNothing`,
`Stage`), `COMMIT` (`StartCommit` sets the outcome to unknown, `Land` is SQLite
making it durable, `Acknowledge` sets it to complete) and the cleanup
(`Return`, `CleanupRaises`). `Raise` is an exception at any of those steps and
`Crash` a death at any of them; a death inside COMMIT may leave a hot rollback
journal (`hot`), which a reading `mode=ro` connection fails on and the next
append rolls back. `Reopen` is the constructor in a new process, which reads. The
workflow replay is the constant operator `Authorized`; `MCStoreValues` gives it the
`Authority` operators. Digests are
symbolic: a checkpoint is what its heads commit to, and a request is its own
digest, so a comparison of digests is a comparison of contents.

### CaseJournal and CaseStore

`Admits(j, r)` is what `replay_case` asks of the next record. `CaseStore` keeps
the tables, and per caller (a thread) the arguments, the request, the phase and
what it was told. A mutation first prepares its request in read-only
transactions (`PrepareClaim`, `PrepareFinish` and the second read `ReadKey`,
`PrepareVerdict`), then writes in one transaction whose steps are those of the
workflow store. `Execute` holds the bridge lock of the store object over claim,
callback (`Enter`, `CallbackReturns`) and finish. A death (`Crash`) takes all
threads of the object with it; if one of them was inside COMMIT it may leave a
hot rollback journal (`hot`), which a `mode=ro` connection cannot roll back and
the next `mode=rw` connection does. `Reopen` is the constructor in a new
process, which reads the store. `Decide` appends a decision to a journal the
caller holds, outside the store.

`CaseProtocol` is what all of this promises: a case is claimed once for one tool,
an adapter is entered once for that claim, the claimed tool's observation is
recorded, somebody else records the verdict it earns, and decisions are taken on
that verdict. `ImplementsCaseProtocol` instantiates it with the claim and the
receipts in the committed tables: COMMIT of a claim, a finish or a verdict is
`Claim`, `Observe` or `Judge`, and everything else but `Enter` and `Decide` stutters.

The observer stands for the adapter key (the other three parts are the plan's).
The assertion and input bytes and the plan never change and are not state. Error
codes are folded into the status.

### ObservationRunner

Runners go through claim of the intent, the look at the token, the adapter, the
second look without the lock, and the publication under the token's lock.
`Cancel` is `cancel()` once it holds the lock. A token may be shared by runs;
`NoToken` is `cancel=None`. What `prepare_observation` checks of the immutable
plan is `Preparable`, which `RunnerAssumption` assumes.

### StoreReservation

A creator reserves a path with an exclusive open, opens the path again and commits
the first transaction. `create_workflow_store` notes the identity of its file and opens
only that one. When it fails and nothing is unknown, it compares the file at the path with the one it
reserved (`Compare`), looks for sidecars (`LookAround`) and unlinks what has the name by then (`Unlink`); an
operator may clear the path, and others may put a store there, between any two of these steps.
What was put there after the comparison is in `strays`: `docs/durable-workflows.md:140-142` promises no
atomic defence against it, and `NeverRemovesAStore` claims the rest. In every other case it asks
for an inspection (`Preserve`). `create_case_store` works by name and cleans nothing up: it
reports the outcome of its transaction and leaves the reservation (`CaseReports`). After the commit it
reads the store once more (`Snapshot`); when that fails (`SnapshotFails`), it reports the outcome of
a call that only reads, `none`, over a store that is complete. `docs/durable-cases.md:128` reads
`none` as "no COMMIT attempted", which holds of the failed read and not of the creation;
`CleanFailure` says what the report is worth. What creators of both kinds do to each other at one path is not
covered by `NeverRemovesAStore` and `CleanFailure`: a creator of a case store may commit into a reservation
that one of a workflow store then removes.

### WorkflowService, WorkflowClient, RateLimit

`self._lock` is held over single steps, so every step that holds it is one action.
A connection goes through backlog, acceptance under a permit, reading, admission,
the store (`core`), reply and end; the acceptor, each worker and each owner inside
`start()` or `close()` are separate threads. The store is the journal of
committed requests that `WorkflowStore` is shown to implement. `WorkflowClient`
adds clients that keep their intent, send it, lose the connection or the reply,
send the same intent again or look it up, and conclude; it runs against a service
that may fail but is not closed (`Owners = {}`). `RateLimit` is the state behind
the rejections that `WorkflowService` makes without a reason: buckets of credit
compared with the log of what they let through.

`workflow_service.py:140` calls the store's configuration check one "without
opening the DB"; `SQLiteWorkflowStore.__init__` has opened it by then. The model
follows the code; nothing depends on it.

### StoreCommand

Each run of a command is a process: it admits files, opens the store, announces
that an acknowledgement is pending, calls, acknowledges, reports, and on failure
works out an outcome (`ObserveFailure`) and says it. The call does what
`WorkflowStore` promises. A run may fail at every step, be interrupted, die or
lose its output; the operator acts on what came through.

### LedgerStore, LedgerQuery, MerkleProofs

`LedgerStore` is the transaction protocol of `storage.py`: producers append under
the write lock, with or without an expected head, import and export; an error
around COMMIT carries no outcome. `LedgerQuery` pages through a pinned prefix of
such a ledger. `MerkleProofs` grows a ledger or rewrites its tail, makes proofs
of growth and of receipts, edits them in transit and verifies them; hashing is
injective. What a verifier accepts is compared with the ledgers themselves.

The index weighs every receipt of the ledger it is given, however short the prefix (`Indexable`). A
ledger that grows past that limit therefore locks a reader that restarts out of the prefix it pinned, as
`docs/ledger-query.md:96-99` says. `ReadingEnds` claims that a reader gets to the last page
unless that has happened (`LockedOut`); one whose index is open is not stopped by growth.

### Publication, ArtifactBundle, SchemaDirectory

`Publication` is `staged_output` step by step: stage, take note of the staging name, sync, then link or
replace, then unlink, with exceptions, interrupts and deaths between any two steps. The clause around the
unlink catches `OSError` only: an interrupt there, or before the name is noted, ends the call without a
word on the staging file (`InterruptCleanup`). `ReportsTruthful` therefore says that a staging file is left
only by a report of residue or an interrupt, and that success, an error and the notes of failed removals are
true; the interrupt between `os.link` and `published = True` is the run `publication_interrupt`.
A publisher whose staging name stayed does not call again. `ArtifactBundle` builds a closed archive from
source files that somebody edits, publishes it with `Publication`, and verifies
archives that somebody tampers with; hashes are injective, every write in place
changes a file's fingerprint, and the byte-level checks of ZIP headers are one
flag. `SchemaDirectory` exports a tree next to its destination and renames it with
`RENAME_NOREPLACE`, and verifies trees through directory handles, while somebody
else adds, removes and replaces nodes, between any two steps; the identity of a node is its
creator, and each change by others is a creator of its own. Reuse of inode numbers, under which a new node could pass for
one that was removed, and a replaced parent directory are outside. `mkdir` and the look that
records the identity are two steps (`Make`, `CaptureDirectory`), the comparison before a removal and the
removal are two (`CleanChecks`, `CleanRemoves`), and so are the check of a parent and the creation in it. What somebody exchanges in the
first two windows an export takes for its own, or removes: `docs/schema-directory.md:117-120` promises
nothing against that. `CleansOnlyItsOwn` claims that it harms nothing else: `since` is the number of changes by
others at the `mkdir` or the comparison a step relies on, and a node that the step claims or removes must be the export's
own, the one it had recorded, or newer than that. The bytes of a file go to its descriptor after a last look at its name, in one step with
it (`WriteFile`): a change by others in between has the effect it would have had before the look or after the write.
An export that an interrupt ends inside its own handler of a failure reports nothing; it is one that takes no further step. A verification looks at the
inventory of the root, then at that of the version directory, then reads the members in
sorted order (`Before`) and looks at everything again. It cannot
promise that a tree is exact when it ends, only that it was exact at one moment
(`VerifiedWasExact`). An export whose rename was not acknowledged looks at its staging
path and then at the destination, with others in between (`ObserveStaging`, `Observe`).
What it then reports is about its rename: `published` says that its staging path was
renamed, `unpublished` that it was not, and only a return says that the tree at the
destination was its own (`StateTruthful`, `installed`).

### Evaluation

Events and judgements arrive, time passes, and a caller evaluates at every instant.
Confidences and weights are exact dyadic fractions in units small enough
that nothing is rounded (`ExactnessAssumption`, which TLC evaluates), so
`_stable_float` is the identity on them. A stream that validation refuses never
gets in. Judgements are dated when they become knowable, as the documentation asks.
`NoBackfire` needs a positive `min_margin`: at zero a copy of equal
strength with a smaller ID can take its original's place, drop a gate, and turn a
conflict of thresholds into a rejection.

### ClaimChecks

The gate keeps no state. It is evaluated as an invariant in every state of a
workflow, on the newest bundle and the one before, for every policy and retained
head, on the committed contents and on each deviation from them by one file. The newest
bundle is `Present`: its claims are what its appends made of them, one after the other.
`ReplayedIsPresent` says that `replay_workflow`, which folds over the whole bundle, comes
to the same; the bundle before is replayed.

## 3. Runs

A run asks one question of one or of several components. Where it is of several,
the variable `system` says which of them a behaviour is of: the initial states
choose it, `Next` has one disjunct per component, and the others stay in an
initial state. The components share nothing there, so that this is the same as
running each of them alone; where components do interact, a module extends or
instantiates the other (`WorkflowClient`, `ArtifactBundle`, `ClaimChecks`,
`CaseStore`). A property of such a run is the conjunction of a component's type invariant
and its properties, guarded by `system`; the table names the parts, which are defined
and commented in the component's module. Where a theorem states the conjunction, it is a
definition of the component's module (`RunsSound`, `LedgerSound`, `ServiceSound`, `CallersToldTruth`,
`RatesKept`, `CommandsTruthful`, `DirectoriesSound`, `GateEarned`):
the run's module extends that component and checks the same definition in all its behaviours.
`CreationsSound` alone is defined twice: the run's applies the component's to each kind of
store.

| Run | Instance | What it shows |
|---|---|---|
| `workflow_lifecycle` | two claims, five actors (one not human, one authoring and reviewing, one of another scope), quorum 2, 17 commands at any revision, at most 7 receipts and 2 outstanding intents | `ApprovalIsEndorsed`, `ReviewedAsSeen`, `RevisionsAccount`, `FrozenAfterSubmit` |
| `store_safety` | two processes, two request IDs, three batches over the real replay, at most 2 operations | `StoreVerifies`, `ReportsTruthful`, `NoForks`, `ImplementsCompareAndAppend` |
| `case_bridge` | two processes whose registries name different tools run the bridge; one also finishes by hand | `StoreVerifies`, `EnteredAtMostOnce`, `ReportsTruthful`, `ObservationKept`, `ImplementsCaseProtocol` |
| `case_verdict` | the bridge and decisions in one process, a claim and verdicts by hand in another; the proposer also holds an evaluator's grant and the evaluator a decider's | `ApprovalEarned` |
| `case_crash` | one process in the bridge that is reopened after a death | `CrashIsRecoverable` is violated, see below |
| `calls_end` | two threads of one process at a case store, one of them in the bridge; two processes at a workflow store with limits that just do and just do not fit; two runners on one token, two intents, two answers of the adapter and a canceller; one reader with pages of one and two receipts or two and three bytes, four entries | `EverythingEnds`; `RunsSound`: `CancelDecides`, `EntersOnce`, `OutputKept`; `LimitsHold`: the type invariants and, at its limits, `StoreVerifies` of the workflow store; `PagesExact`: `PagesAreTheMatches`, `CursorsResume` |
| `service` | two owners that start and close, one connection | `ServiceSound`: `PermitsAccounted`, `ClosedOwnsNothing`, `RepliesTruthful`; `ClosedIsFinal`; `ServiceProceeds`: `Drains`, `PermitsReturn`, `CloseEnds` |
| `callers` | one client, one intent and two connections to a service that is not closed; one owner and two connections for one permit; two actors with bursts of 2 under a burst of 3 for both, two ticks to a second, five ticks | `CallersToldTruth`: `AnswersTruthful`, `AbsenceWasTrue`, `RepliesTruthful`; `PermitsKept`: `PermitsAccounted`, also while clients call, and `ClosedOwnsNothing`; `RatesKept`: `WindowsBounded`, `RefusalsEarned` |
| `ledger` | two producers, batches of one and two events, three entries; ledgers of up to five entries of two kinds of events and a rewritten tail, one edit of a proof | `LedgerSound`: `LedgerVerifies`, `NoForks`, `WholeBatchOnExpectedHead`; `CertificatesSound`: `ExtensionsAreReal`, `ReceiptsAreReal`, `ProofsVerify` |
| `files` | two publishers without and one with replacement; one builder, three artifacts, two edits of sources; one builder and one reader, two tampers; two files of a schema directory in sorted order, with one exporter, one verifier and three changes by others, the third of them after the export, or with two exporters that race for the destination and one such change; two creators, three files over time, for each kind of store; one operator, one request ID, two contents of the commands file, at most two commits | `PublishersTruthful`: `ReportsTruthful`; `ArchivesSound`: `PublishedIsCommitted`, `BuiltIsAccepted`, `AcceptedIsCommitted`; `DirectoriesSound`: `VerifiedWasExact`, `CleansOnlyItsOwn`, `StateTruthful`; `CreationsSound`: `NeverRemovesAStore`, `CleanFailure`, `CreatedIsOwn`; `CommandsTruthful`: `DiagnosticsTruthful`, `KnowledgeRight`; `NothingReplaced`: `TakesWhenFree`, `ReplacesNothing`, `CommitsTheApproved` |
| `decisions` | three of eleven reports in any order, without judgements; two reports that are late, early or predated, two judgements, three instants; one claim, a document, two plans with seven rules, two evaluations, four policies, at most 8 receipts | `DecisionsEarned`: `DecisionEarned`, `OrderIndependent`; `HistorySound`: `HistoryStands`, `ReplayAgrees`, `EvaluationTotal`, `ImpactsAreOwn`; `PullsItsOwnWay`: `NoBackfire`, `PullsItsWay`; `GateEarned`: `AnswerEarned`; `GateSound`: `OlderIsSound`, `ReplayedIsPresent`, `HonestVerifies`, `AbsencePassesNothing` |
| `publication_interrupt` | two publishers without and one with replacement, with interrupts | `ResidueNamesPublication` is violated, see below |

Every property of a passing run has a mutant in `PROJECT.json`: a plausible
defect of the code, defined next to the definition it would replace, under
which TLC finds the property violated. Where a property is a conjunction, the mutants
break its parts one by one.

**Bounds.** `MaxRecords`, `MaxAppendRecords` and `MaxOperations` are the code's
own limits with small values. `MaxOutstanding` bounds the intents of a workflow
at one time: two are the least at which one submitter's read goes stale. Seven
receipts reach an approval by a quorum of two and a revocation. A case has three
operations by design, so the case runs are bounded only by the number of callers
and IDs: two processes meet in every pair of steps, and the third ID in
`case_verdict` lets claim, finish and verdict have IDs of their own, while two
IDs in `case_bridge` make every retry reuse one. In the race of two exporters (`files`) the second starts when the first has
come to its rename, and the others act when both trees are complete: what exporters do
before is on staging paths of their own, and the run with one exporter has it meet changes
by others at every step: two while it runs, which one node exchanged and another touched need, and a third for
the verifier when the export is over (`Exporting`). An archive is read and tampered with when its only
builder is done (`Settled`). Request IDs (and in the
workflow store callers) are interchangeable, and the safety runs use that
symmetry; liveness runs use none. Two connections and one permit (`callers`) make a
connection find the permit with another; two owners (`service`) make a close meet a start or
another close. Three publishers are the least with a winner, a loser and a
replacer. Five entries give every shape of a Merkle tree with a promoted node on
one and on two levels; the two kinds of events are alike, so that the ledger a verifier
retains begins with the first (`Alike`). Three reports are the least with a representative, its copy
and an independent second. The eight receipts of a claim in `decisions` are creation,
evidence, document, plan, evaluation, submission, approval and revocation; one of
the policies names the evaluation of the other plan. Every `Max...` constant bounds the instance and not
the code, unless its comment says that it is a limit of the code.

**Deadlock** is checked in `workflow_lifecycle`, in `callers`, where only the client,
whose connections are each used once, may stop (`Stopped`), and in `files` for the store
commands. Elsewhere the system may stop: a store whose rollback journal is hot and whose processes are all dead
has no step left, which is what `case_crash` is about; a closed service, a
publication, an export, a reader at the last page and a claim that nobody may change
any more are finished.

**Fairness.** A thread that is inside a call keeps running (weak fairness of its
own steps, `Progress`). Waiting for SQLite's write lock ends because the code
passes a busy timeout to `sqlite3.connect`: the raise of a failure is one of the
fair steps. Nothing is assumed of an adapter, which may never return; of the
order in which a lock is granted; or of callers beginning another call. In the
runner a wait for a token's lock ends because every holder releases it after a
bounded number of its own steps. `RestartSpec` adds that a dead process is
reopened again and again when it can be. In the service every thread that can take a
step keeps running: the acceptor wakes up at its own timeout, a worker's socket
operations have deadlines, and owners inside `start()` and `close()` wait
with deadlines; clients owe nothing. A reader keeps asking for pages and reopens the
ledger after a restart, and its process does not restart for ever. `calls_end`
states this fairness per actor for all its components at once, and its property
`EverythingEnds` is the conjunction of theirs (`CallsEnd`, `EveryCallEnds`,
`EverythingReturns`, `ReadingEnds`).

## 4. What the two violations show

**`case_crash`.** `docs/durable-cases.md` names `lookup` and `lookup_operation` as the way to settle
what became of a request after a crash. Every read of `SQLiteCaseStore`,
including the one in its constructor, opens the file with `?mode=ro`. When a
process dies inside COMMIT and leaves a hot rollback journal, SQLite needs a
writable connection to roll it back, so each of these calls raises
`CaseStoreError`, and no store object can be constructed that would open a
writable one. A process that already has a store object fares no better: each
mutation reads through `mode=ro` before it writes. Only a writer that had
finished preparing its request before the death rolls the journal back. The
workflow store opens its reads in the same way, and its model has the same
journal, but there an append of a process that is still alive opens a writable
connection at once and makes the file readable again; its documentation leaves
crash recovery to SQLite, so no run claims more.

**`publication_interrupt`.** `_atomic.py` calls `os.link` and records in the next
statement that it has published. An interrupt between the two leaves the
record false and the destination published. If the removal of the staging file
then fails as well, the note on the exception says "unpublished staging file cleanup
failed", although the function's docstring says that such a failure explicitly
reports that publication succeeded.

## 5. Proofs

TLAPS checks, for all values of the constants that satisfy the named
assumptions:

| Theorem | Statement |
|---|---|
| `WorkflowProofs!TypeCorrect` | `Spec => []TypeOK` |
| `WorkflowProofs!ApprovalEndorsed` | `Spec => []ApprovalIsEndorsed` |
| `WorkflowProofs!ContentFrozen` | `Spec => FrozenAfterSubmit` |
| `WorkflowProofs!ReviewsSawContent` | `Spec => []ReviewedAsSeen` |
| `WorkflowProofs!RevisionsAccounted` | `Spec => []RevisionsAccount` |
| `WorkflowStoreProofs!StoreTypeCorrect` | `Spec => []TypeOK` |
| `WorkflowStoreProofs!StoreAlwaysVerifies` | `Spec => []StoreVerifies` |
| `WorkflowStoreProofs!ReportsAlwaysTruthful` | `Spec => []ReportsTruthful` |
| `WorkflowStoreProofs!HistoryNeverForks` | `Spec => []NoForks` |
| `WorkflowStoreProofs!StoreRefines` | `Spec => ImplementsCompareAndAppend` |
| `CaseStoreProofs!CaseTypes` | `Spec => []TypeOK` |
| `CaseStoreProofs!CaseAlwaysVerifies` | `Spec => []StoreVerifies` |
| `CaseStoreProofs!AdapterEnteredOnce` | `Spec => []EnteredAtMostOnce` |
| `CaseStoreProofs!CaseReportsTrue` | `Spec => []ReportsTruthful` |
| `CaseStoreProofs!ObservationNotLost` | `Spec => []ObservationKept` |
| `CaseStoreProofs!ApprovalsEarned` | `Spec => []ApprovalEarned` |
| `CaseStoreProofs!CaseHistoryGrows` | `Spec => HistoryOnlyGrows` |
| `CaseStoreProofs!CaseImplementsProtocol` | `Spec => ImplementsCaseProtocol` |
| `ObservationRunnerProofs!RunsAreSound` | `Spec => []RunsSound` |
| `ObservationRunnerProofs!CancellationDecides` | `Spec => []CancelDecides` |
| `WorkflowServiceProofs!ServiceIsSound` | `Spec => []ServiceSound` |
| `WorkflowServiceProofs!ClosedStaysClosed` | `Spec => ClosedIsFinal` |
| `WorkflowServiceProofs!CallersAreToldTruth` | `ClientSpec => []CallersToldTruth` |
| `WorkflowServiceProofs!RatesAreKept` | `RateSpec => []RatesKept` |
| `LedgerStoreProofs!LedgerIsSound` | `Spec => []LedgerSound` |
| `LedgerStoreProofs!LedgerOnlyGrows` | no step changes or removes a committed entry |
| `PublicationProofs!PublicationReportsTrue` | `PubSpec => [](PubTypeOK /\ ReportsTruthful)` |
| `PublicationProofs!NothingTaken` | `PubSpec => [][TakesWhenFree]_pubVars` |
| `PublicationProofs!DirectoriesAreSound` | `DirSpec => []DirectoriesSound` |
| `PublicationProofs!ExportsReplaceNothing` | `DirSpec => [][ReplacesNothing]_dirVars` |
| `StoreReservationProofs!CreationsAreSound` | `Spec => []CreationsSound` |
| `StoreReservationProofs!CommandsAreTruthful` | `CommandSpec => []CommandsTruthful` |
| `StoreReservationProofs!CommitsWhatWasApproved` | `CommandSpec => [][CommitsTheApproved]_commandVars` |
| `WorkflowProofs!GateIsEarned` | `Spec => []GateEarned` |
| `WorkflowProofs!EveryAnswerIsEarned` | `Spec => []AnswerEarned(policy, head, contents, evidence)` for any contents and heads |

*Workflow.* The assumptions are those of the policy (`PolicyAssumption`: finitely
many actors, grants of declared actors, a quorum of 1 to 16, well-formed
registries) and of the commands.
`ApprovalIsEndorsed` is inductive together with the types; the argument is by the
accepted action (`AcceptedCases`), and a vote raises a finite set's size by one
(`VoteCount`). `ReviewedAsSeen` is not inductive: `SeenInv` adds that an intent
whose revision is still current saw the current content (`IntentsCurrent`), that
an absent claim is at revision 0 and that a claim with a review is past draft.
`RevisionsAccount` counts receipts per claim (`ReceiptsGrow`).

*ClaimChecks.* `GateAssumption` says that verifiers ask about claims of this workflow and that
rules have one of the five operators. The gate is a function of the newest bundle, so that
its invariants follow from `ApprovalIsEndorsed` in every state: `AnswerFacts` collects
what an answer without an error has compared, so that the inputs the plan names are the
committed contents of bound artifacts, and `PassedHolds` says of each operator that a rule
that passes is true of them. `GateEarned` quantifies over the contents and heads that the run enumerates;
`EveryAnswerIsEarned` is about any.

*WorkflowStore.* `Inv` strengthens the safety properties by the facts about open
transactions: whoever is between `BEGIN IMMEDIATE` and the end of COMMIT holds
the lock (`LockHeld`), what it has staged is the current tables extended by its
own admissible request (`StagedFits`), which is what makes `Land` preserve
`StoreVerifies` (`ExtendedVerifies`); the outcome of a call fits its phase
(`OutcomeFits`), which is what makes reports truthful. `Land` is treated by
`LandStep` and every other action by `QuietStep`, since only `Land` changes the
file. For the refinement, `Land` is the abstract `Commit` (`RefinesCommit`,
with the abstract tip equal to the stored meta row, `TipIsMeta`), the end of a
call is `Tell`, `Retry` or nothing, and every other step is `Ask`, `Retry` or nothing.

*CaseStore.* The assumptions are those of the authority (`CaseAuthorityAssumption`:
grants that fit the kinds of actors) and of the instance (`CaseStoreAssumption`:
an imported plan that the journal admits, registries that name declared actors). None of the safety
properties is inductive. `CaseInv` adds what a call has settled before it asks for the write lock
(`RequestsFit`, `ArgsFit`: the claimed observer that a finish reads in its second transaction
cannot change after the first), that a writer holds the lock and stages the current
tables with a request they take (`LockHeld`, `StagedFits`), and that the outcome
fits the phase and what landed (`OutcomeFits`, `LandedFits`). At-most-once entry
rests on `LandedFits`, by which only one claim ever lands, and `EntryFits`, by
which the bridge whose claim it is has not entered yet; that no observation is
lost on `ResultFits`, which follows the returned bytes through the finish into the
file or onto the error; that approvals are earned on `KnownFits` and
`DecisionFits`, since a journal that a caller holds is a prefix of the file's. For the
refinement, `CaseStage` reads the abstract state off sound tables, `LandIsAStep` is by the
type of the request that lands, and `QuietStep` shows that nothing but COMMIT, the entry
and a decision is seen. The lemmas about
records and tables say what a request that is written does to a file that verifies;
the rest is one lemma per action.

*ObservationRunner.* `RunnerAssumption` says that the intents were prepared.
`RunInv` adds that a publication holds its token's lock and that this token is not
cancelled (`LockHeld`), which is why `cancel()` and publication agree; that one run
at most holds an intent and that it is consumed (`OneRun`), which is why no adapter is
entered twice; and where the bytes are at each phase (`ResultFits`, `HandedOver`,
`EnvelopesFit`).

*WorkflowService and WorkflowClient.* `ServiceAssumption` asks for one worker at
least and for requests of the known operations, `ClientAssumption` that what a
client may append it may also look up. `ServiceInv` says who owns a permit, a socket and the store
core at each place of the acceptor, the workers and the owners (`WorkersFit`,
`AcceptorFits`, `SocketsFit`, `CoreFits`), so that `close()`, which waits for these,
finds nothing left; that one `start()` at most is under way and a closer waits for
its end (`LifecycleFits`), which is why CLOSED is final; and what has landed
(`LandedFits`, `RepliesFit`). `ClientInv` adds that a client waits for the answer to
its own request, that after outcome `none` the connection is past its store call (`Past`), so that
nothing lands later, and that a lookup of what was there at the call can only find it
(`LookupsFit`). The run `callers` checks this for a service that stays open; the
theorem includes one that is closed at any step.

*RateLimit.* `RateAssumption` asks for positive rates and at least one tick to a second. `RatesKept`
speaks of the log of admissions and the steps depend on the buckets; `RateInv` ties the two
together (`BucketsFit`). For each bucket and each admission it paid for, what it paid since then, with
the credit left in it, fits the window since then (`Covers`): this bounds every window when an admission
ends it. And unless the bucket is full, from one of these admissions on what is missing was
paid out in full (`Accounts`), so that a bucket without credit for one request is one whose
window is used up. `RefillArithmetic` says what a refill makes of credit and time
without knowing the rate, and `LogGrows` what one more admission does to the counts.

*LedgerStore.* `LedgerAssumption` types the events and batches. `LedgerInv` says that
the tables are the chain of one history of unique events within the limit
(`TablesFit`), that a transaction that is open extends the committed history
(`StagedFits`), and that what landed and what was handed out are prefixes of it.
The snapshot file may be cut or swapped, so that its entries are only known to be links of
some chain (`FileFits`).

*Publication.* `PubInv` says what the locals of `staged_output` mean at each point:
`published` is never true too early, and true when nothing failed; only an interrupt
leaves open whether the file went, and whether its staging name is gone.

*SchemaDirectory.* `DirectoryAssumption` names the nodes apart. What others do is
bounded by `MaxForeign`, any number, and `DirInv` ties what was seen to what is there by creators and time stamps. In every tree
a node has what is above it (`Grown`); the directories of one creator are at one path
only, and those of an exporter at the destination only after its rename (`OwnersFit`); and a change by
others brings a creator that nobody has seen. So one step takes a tree to a `Later` one, in which a directory with the
same creator and time stamp has the same entries: what a verification has seen and is
still the same is unchanged since (`Watched`), and when the last of it is seen, all of it is
there at once, which is the moment at which the tree was exact. A second
look at a node that finds a difference ends the verification, and one that does not finds
what `WatchFits` recorded. For exports, `ExportFits` says what the local `state`
knows of the rename at each place, and `RootFits` where the directory can be that the export recorded as
its root: at its staging path before the rename, at the destination after it, never at both, which is
why the two looks of `_observe_publication`, with others in between, still tell the truth. `NameFits` is about the one name whose
turn it is: until its identity is recorded, or while it is being removed, whatever is there is the export's own,
the node that was compared, or `Newer` than the step relied on. From this `CleansOnlyItsOwn` follows with both
windows open.

*StoreReservation.* For each file number there is one reservation (`FilesFit`). The
write lock has one holder per file and its transaction is the first there (`LocksFit`), which gives
`CreatedIsOwn` for any mixture of the two kinds of creators. That nothing is removed
wrongly holds for a different reason for each kind: creators of workflow stores open
only the file they identified, so that a file belongs to one of them (`OwnFiles`), and what is at the
path between the comparison and the unlink is that file or newer than the comparison (`OwnFits`);
creators of case stores know no identity and never unlink (`PlaceFits`).
`CreationsSound` claims it for paths with creators of one kind only.

*StoreCommand.* `CommandInv` says what a run knows of the store at each place (`RunFits`,
`ResultFits`), that the request it calls with is the one whose digest its operator wrote down
(`RequestFits`), and that an acknowledgement is pending from before its call until it is settled,
so that a run which fails after its commit says at least "unknown", and that the outcome is
complete only when the request is on file (`OutcomeFits`); `OperatorFits` carries this over to what was delivered and
concluded. The journal only grows and an ID is committed once, so that what was found stays found, and what a
lookup did not find this operator had not committed.

Every `Inv` above was also checked by TLC, as an invariant of small instances.

Only model-checked, and why:

- the liveness properties and the progress part of `ServiceProceeds`: the prover does no
  fairness or `ENABLED` reasoning;
- `LimitsHold`, `PermitsKept`, `PublishersTruthful`, `CreationsSound` and `NothingReplaced` of
  the runs, which apply properties to instances of the modules that the theorems
  state for all (`TakesWhenFree`, `ReplacesNothing` and `CommitsTheApproved` are proved one by one);
- `ArchivesSound` and `PagesExact`: archives and pages are sequences selected by a condition
  (`SelectSeq`, folds), of which the prover can unfold nothing;
- `DecisionsEarned`, `HistorySound`, `PullsItsOwnWay` and the parts of `GateSound` that replay a
  bundle or follow a path: folds, whose value for every input needs induction over data;
- `CertificatesSound`: `MerkleProofs` is recursive over trees;
- whatever depends on the concrete replay in `MCStoreValues`.

## 6. Plan

Done: `Authority`, `Workflow` and their proofs; `CompareAndAppend`,
`WorkflowStore`, refinement and proofs; `CaseProtocol`, `CaseJournal`, `CaseStore`,
refinement and proofs; `ObservationRunner`; reservation, service, client, rate limit, store commands;
ledger store, query, Merkle proofs; publication, archives, schema directory;
evaluation; claim checks.

Proved since: the safety properties of the case store and its refinement, the runner, the service
and its clients, the rate limit, the ledger store, publication, reservation, the store
commands, the schema directory, and the gate on the newest bundle.

Left: limits per caller in `WorkflowStore`; archives, should the prover learn `SelectSeq`.

## 7. Not modelled

Byte-level formats, digest computation and parsing (digests are symbolic; HTTP
framing is one admission step); rounding of floating-point weights; the numbers of
`comparison.py`, `baselines.py`, `metrics.py` and the layout of `report.py`, which
summarise finished evaluations; `provenance.py`, which draws one as a graph;
`cli.py`, which prints what pure functions return; the static schema catalog and the
one-shot document rewriting of `migrations.py`; the pure comparison in
`case_artifacts.py` after an archive verified; the version 1 chain of the ledger;
work units of the claim checks, which only refuse; the limits on the bytes of an archive and of its
central directory; power loss of directory metadata
and hostile replacement of parent directories, which the repository excludes itself.
Four cases of the listed hazards have no property, and the notes in `PROJECT.json` say
why: stores opened with different limits, the hot journal of the workflow store,
the observed bytes that a refused finish does not carry, and the byte limits of an archive. Other notes
there name what the repository's documentation excludes: what somebody exchanges between the last look
at a name and its use.
