----------------------------- MODULE CaseStore -----------------------------
(***************************************************************************)
(* SQLiteCaseStore (case_storage.py): one planned case in one SQLite file, *)
(* claimed, finished and judged by independent processes, and the bridge   *)
(* that claims the case durably before it enters an adapter callback.      *)
(*                                                                         *)
(* A caller is a thread using a store object; the threads of a process     *)
(* share its object and its bridge lock, and die together.  A mutation     *)
(* reads the store once or twice to prepare its request, each time in a    *)
(* read-only transaction of its own, and then writes under the write lock. *)
(*                                                                         *)
(* Digests are symbolic: a checkpoint is the content its heads commit to,  *)
(* and a request digest is the request.                                    *)
(***************************************************************************)
EXTENDS CaseJournal

CONSTANTS
    Callers,        \* threads
    Objects,        \* store objects, one per process
    ObjectOf,       \* caller -> its store object
    ObserverOf,     \* object -> the observer its registry names for the plan's adapter
    Plan,           \* the imported plan
    Uses,           \* caller -> the kinds of call it makes
    Answers,        \* what the adapters come to, and what manual finishes assert
    Evaluators,     \* the actors callers name in append_checked_verdict
    NoCaller, NoActor, NoId

ASSUME CaseStoreAssumption ==
    /\ ObjectOf \in [Callers -> Objects]
    /\ ObserverOf \in [Objects -> Actors]
    /\ AdmitsPlan(<<>>, Plan)
    /\ Uses \in [Callers -> SUBSET {"claim", "finish", "verdict", "execute", "decide"}]
    /\ Answers \subseteq Results /\ Evaluators \subseteq Actors
    /\ NoCaller \notin Callers /\ NoActor \notin Actors /\ NoId \notin Ids

VARIABLES
    db,         \* the committed tables
    hot,        \* "hot" while a rollback journal of a dead writer is left, else "no"
    writer,     \* the caller whose transaction holds SQLite's write lock
    bridge,     \* per object: the caller that holds _bridge_lock
    known,      \* per caller: the last checkpoint (and journal) it learned
    args,       \* per caller: the arguments of the mutation under way
    finish,     \* per caller: the finish_id of the bridge under way
    request,    \* per caller: the request content of its last mutation
    phase,      \* per caller: where the call stands
    staged,     \* per caller: the tables as its open transaction would leave them
    outcome,    \* per caller: outcome of _run
    verdict,    \* per caller: what the body came to
    report,     \* per caller: how its last call ended, as the caller saw it
    carried,    \* per caller: the observed_bytes on the error it was raised
    returned,   \* history, per caller: what the callback returned in its last bridge
    landed,     \* history: the callers whose last write became durable
    entered,    \* history: the requests for which a callback was entered, in order
    decision    \* per caller: the decision it added to the journal it holds

transaction == <<writer, staged, outcome, verdict, landed>>
caller == <<bridge, known, args, finish, request, report, carried, returned, decision>>
vars == <<db, hot, entered, phase, transaction, caller>>

-----------------------------------------------------------------------------
(***************************************************************************)
(* The tables and what is computed from them.                              *)
(***************************************************************************)
OperationTypes == {"claim", "finish", "verdict"}

\* What the operation chain commits to beyond the receipts.
Link == [type: OperationTypes, id: Ids, request: Ids, observer: Actors \cup {NoActor}]

Checkpoint == [receipts: Seq(CaseRecord), log: Seq(Link)]

Genesis == [receipts |-> <<Plan>>, log |-> <<>>]

NoRecord == [type |-> "none"]

\* _request_content: observer stands for the adapter key.
Request == [type: OperationTypes, id: Ids, request: Ids, observer: Actors \cup {NoActor},
            record: CaseObservation \cup CaseVerdict \cup {NoRecord}, expected: Checkpoint]

Tables == [receipts: Seq(CaseRecord), output: Contents \cup {NoContent},
           operations: Seq(Request), meta: Checkpoint]

EmptyStore == [receipts |-> <<Plan>>, output |-> NoContent, operations |-> <<>>,
               meta |-> Genesis]

Log(operations) ==
    [i \in 1..Len(operations) |->
        [type |-> operations[i].type, id |-> operations[i].id,
         request |-> operations[i].request, observer |-> operations[i].observer]]

\* The receipts operation i starts from: a claim adds none.
RecordsBefore(i) == IF i = 1 THEN 1 ELSE i - 1

CheckpointBefore(d, i) ==
    [receipts |-> SubSeq(d.receipts, 1, RecordsBefore(i)),
     log |-> SubSeq(Log(d.operations), 1, i - 1)]

\* registry.select and _read ask the same of a claimed observer.
MayObserve(observer) ==
    /\ observer \in Actors
    /\ observer # Plan.proposer
    /\ KindOf[observer] = "tool"
    /\ CasePermits(observer, Plan.scope, "observe")

Pending(d) == IF Len(d.operations) = 1 THEN d.operations[1].request ELSE NoId

ClaimVerifies(o) ==
    o.type = "claim" /\ o.request = o.id /\ MayObserve(o.observer) /\ o.record = NoRecord

FinishVerifies(d, o) ==
    /\ o.type = "finish" /\ o.request = d.operations[1].request /\ o.observer = NoActor
    /\ o.record = d.receipts[2] /\ d.receipts[2].request = o.request

VerdictVerifies(d, o) ==
    /\ o.type = "verdict" /\ o.request = d.receipts[2].request /\ o.observer = NoActor
    /\ o.record = d.receipts[3]

\* _read accepts the tables; every call raises on tables it does not accept.
Verifies(d) ==
    /\ Len(d.receipts) \in 1..3 /\ d.receipts[1] = Plan
    /\ ReplaysCase(d.receipts)
    /\ d.output = IF Len(d.receipts) = 1 THEN NoContent ELSE d.receipts[2].result.output
    /\ Len(d.operations) \in 0..3
    /\ Len(d.receipts) = RecordsBefore(Len(d.operations) + 1)
    /\ \A i \in 1..Len(d.operations) :
           d.operations[i].expected = CheckpointBefore(d, i)
    /\ Len(d.operations) >= 1 => ClaimVerifies(d.operations[1])
    /\ Len(d.operations) >= 2 => FinishVerifies(d, d.operations[2])
    /\ Len(d.operations) = 3 => VerdictVerifies(d, d.operations[3])
    /\ d.meta = [receipts |-> d.receipts, log |-> Log(d.operations)]

Committed(d) == {d.operations[i] : i \in 1..Len(d.operations)}

UsedIds(d) == {d.operations[i].id : i \in 1..Len(d.operations)}

\* Mutant: the output payload is never inserted.
ExtendedWithoutOutput(d, r) ==
    LET receipts == IF r.record = NoRecord THEN d.receipts ELSE Append(d.receipts, r.record)
        operations == Append(d.operations, r)
    IN  [receipts |-> receipts, output |-> d.output, operations |-> operations,
         meta |-> [receipts |-> receipts, log |-> Log(operations)]]

\* The tables after the INSERTs and the UPDATE of _write.
Extended(d, r) ==
    LET receipts == IF r.record = NoRecord THEN d.receipts ELSE Append(d.receipts, r.record)
        operations == Append(d.operations, r)
    IN  [receipts |-> receipts,
         output |-> IF r.type = "finish" THEN r.record.result.output ELSE d.output,
         operations |-> operations,
         meta |-> [receipts |-> receipts, log |-> Log(operations)]]

\* The checkpoint in the CaseStoreCommit a caller gets back.
ResultOf(r) ==
    [receipts |-> IF r.record = NoRecord THEN r.expected.receipts
                  ELSE Append(r.expected.receipts, r.record),
     log |-> Append(r.expected.log, [type |-> r.type, id |-> r.id,
                                     request |-> r.request, observer |-> r.observer])]

NoRequest == [type |-> "none"]
NoResult == [status |-> "none"]

Argument == [type: OperationTypes, id: Ids, request: Ids \cup {NoId}, expected: Checkpoint,
             result: Results \cup {NoResult}, evaluator: Actors \cup {NoActor}]

Phases == {"idle", "preparing", "keying", "opening", "reading", "staged", "committing",
           "landed", "settling", "entering", "callback", "dead"}
Outcomes == {"none", "unknown", "complete"}
Verdicts == {"pending", "commit", "refused", "failed", "interrupted"}
Reports == {"nothing", "commit", "absent", "refused", "interrupted", "lost"} \cup Outcomes

Init ==
    /\ db = EmptyStore
    /\ hot = "no"
    /\ writer = NoCaller
    /\ bridge = [o \in Objects |-> NoCaller]
    /\ known = [p \in Callers |-> Genesis]
    /\ args = [p \in Callers |-> NoRequest]
    /\ finish = [p \in Callers |-> NoId]
    /\ request = [p \in Callers |-> NoRequest]
    /\ phase = [p \in Callers |-> "idle"]
    /\ staged = [p \in Callers |-> EmptyStore]
    /\ outcome = [p \in Callers |-> "none"]
    /\ verdict = [p \in Callers |-> "pending"]
    /\ report = [p \in Callers |-> "nothing"]
    /\ carried = [p \in Callers |-> NoContent]
    /\ returned = [p \in Callers |-> NoResult]
    /\ landed = {}
    /\ entered = <<>>
    /\ decision = [p \in Callers |-> NoRecord]

Goto(p, from, to) == phase[p] = from /\ phase' = [phase EXCEPT ![p] = to]

-----------------------------------------------------------------------------
(***************************************************************************)
(* Calls that read, and the start of those that write.                     *)
(***************************************************************************)
\* snapshot(): a consistent read-only view, stale as soon as somebody commits.
Snapshot(p) ==
    /\ phase[p] = "idle" /\ hot = "no"
    /\ known' = [known EXCEPT ![p] = db.meta]
    /\ UNCHANGED <<db, hot, entered, phase, transaction, bridge, args, finish, request,
                   report, carried, returned, decision>>

\* lookup(id, expected_request_digest): the historical commit, a conflict or None.
Lookup(p) ==
    /\ phase[p] = "idle" /\ hot = "no" /\ request[p] # NoRequest
    /\ report' = [report EXCEPT ![p] =
           IF request[p] \in Committed(db) THEN "commit"
           ELSE IF request[p].id \in UsedIds(db) THEN "refused" ELSE "absent"]
    /\ landed' = landed \ {p}
    /\ returned' = [returned EXCEPT ![p] = NoResult]
    /\ UNCHANGED <<db, hot, entered, phase, writer, staged, outcome, verdict,
                   bridge, known, args, finish, request, carried, decision>>

\* journal.append((decision,)): a decision on the journal the caller holds,
\* outside the store.
Decide(p, decider, disposition) ==
    LET r == [type |-> "decision", verdict |-> known[p].receipts[3],
              decider |-> decider, disposition |-> disposition]
    IN  /\ "decide" \in Uses[p]
        /\ phase[p] = "idle" /\ decision[p] = NoRecord
        /\ Len(known[p].receipts) = 3
        /\ Admits(known[p].receipts, r)
        /\ decision' = [decision EXCEPT ![p] = r]
        /\ UNCHANGED <<db, hot, entered, phase, transaction, bridge, known, args, finish,
                       request, report, carried, returned>>

\* A mutation starts, with nothing of an earlier call left.
Start(p, argument, finish_id) ==
    /\ Goto(p, "idle", "preparing")
    /\ args' = [args EXCEPT ![p] = argument]
    /\ finish' = [finish EXCEPT ![p] = finish_id]
    /\ report' = [report EXCEPT ![p] = "nothing"]
    /\ carried' = [carried EXCEPT ![p] = NoContent]
    /\ returned' = [returned EXCEPT ![p] = NoResult]
    /\ landed' = landed \ {p}
    /\ UNCHANGED <<db, hot, entered, writer, staged, outcome, verdict, known, request,
                   decision>>

ClaimOf(p, id) ==
    [type |-> "claim", id |-> id, request |-> id, expected |-> known[p],
     result |-> NoResult, evaluator |-> NoActor]

Claim(p, id) ==
    /\ "claim" \in Uses[p]
    /\ Start(p, ClaimOf(p, id), NoId)
    /\ UNCHANGED bridge

Finish(p, id, req, result) ==
    /\ "finish" \in Uses[p]
    /\ Start(p, [type |-> "finish", id |-> id, request |-> req, expected |-> known[p],
                 result |-> result, evaluator |-> NoActor], NoId)
    /\ UNCHANGED bridge

Judge(p, id, evaluator) ==
    /\ "verdict" \in Uses[p]
    /\ Start(p, [type |-> "verdict", id |-> id, request |-> NoId, expected |-> known[p],
                 result |-> NoResult, evaluator |-> evaluator], NoId)
    /\ UNCHANGED bridge

\* execute_observation with two different IDs, if its object's bridge is free.
Execute(p, id, finish_id) ==
    /\ "execute" \in Uses[p]
    /\ id # finish_id
    /\ bridge[ObjectOf[p]] = NoCaller
    /\ bridge' = [bridge EXCEPT ![ObjectOf[p]] = p]
    /\ Start(p, ClaimOf(p, id), finish_id)

InBridge(p) == bridge[ObjectOf[p]] = p

-----------------------------------------------------------------------------
(***************************************************************************)
(* Preparing a request, in read-only transactions of their own.            *)
(***************************************************************************)
\* The body raised a ValidationError with nothing written.
Refuse(p) ==
    /\ phase' = [phase EXCEPT ![p] = "settling"]
    /\ verdict' = [verdict EXCEPT ![p] = "refused"]
    /\ UNCHANGED <<db, hot, entered, writer, staged, outcome, landed, caller>>

\* snapshot(expected) and what is asked of it before a request exists.
Preparable(p) ==
    /\ db.meta = args[p].expected
    /\ args[p].type = "claim" => Len(db.receipts) = 1 /\ MayObserve(ObserverOf[ObjectOf[p]])
    /\ args[p].type = "finish" => Pending(db) = args[p].request
    /\ args[p].type = "verdict" => Len(db.receipts) = 2

RefuseToPrepare(p) ==
    /\ phase[p] = "preparing" /\ hot = "no"
    /\ ~Preparable(p)
    /\ Refuse(p)

Ask(p, req, observer, record) ==
    /\ request' = [request EXCEPT ![p] =
           [type |-> args[p].type, id |-> args[p].id, request |-> req,
            observer |-> observer, record |-> record, expected |-> args[p].expected]]
    /\ UNCHANGED <<db, hot, entered, transaction, bridge, known, args, finish, report,
                   carried, returned, decision>>

PrepareClaim(p) ==
    /\ Goto(p, "preparing", "opening")
    /\ hot = "no"
    /\ args[p].type = "claim" /\ Preparable(p)
    /\ Ask(p, args[p].request, ObserverOf[ObjectOf[p]], NoRecord)

PrepareFinish(p) ==
    /\ Goto(p, "preparing", "keying")
    /\ hot = "no"
    /\ args[p].type = "finish" /\ Preparable(p)
    /\ UNCHANGED <<db, hot, entered, transaction, caller>>

\* Mutant: the observer is the one of the finisher's own registry.
ReadOwnKey(p) ==
    /\ hot = "no"
    /\ Goto(p, "keying", "opening")
    /\ Ask(p, args[p].request, NoActor,
           [type |-> "observation", plan |-> Plan, request |-> args[p].request,
            observer |-> ObserverOf[ObjectOf[p]], result |-> args[p].result])

\* The observer is the one the claim named, read in a second transaction.
ReadKey(p) ==
    /\ hot = "no"
    /\ Goto(p, "keying", "opening")
    /\ Ask(p, args[p].request, NoActor,
           [type |-> "observation", plan |-> Plan, request |-> args[p].request,
            observer |-> db.operations[1].observer, result |-> args[p].result])

\* The verdict the stored bytes earn.
Judged(d) ==
    IF d.output = NoContent THEN "inconclusive"
    ELSE IF d.output = Plan.prediction THEN "supported" ELSE "refuted"

PrepareVerdict(p) ==
    /\ Goto(p, "preparing", "opening")
    /\ hot = "no"
    /\ args[p].type = "verdict" /\ Preparable(p)
    /\ Ask(p, db.receipts[2].request, NoActor,
           [type |-> "verdict", observation |-> db.receipts[2],
            evaluator |-> args[p].evaluator, outcome |-> Judged(db)])

-----------------------------------------------------------------------------
(***************************************************************************)
(* _write in _run: one transaction under the write lock.                   *)
(***************************************************************************)
\* Mutant: the read before the write is not under the write lock.
BeginDeferred(p) ==
    /\ Goto(p, "opening", "reading")
    /\ hot' = "no"
    /\ UNCHANGED <<db, entered, transaction, caller>>

\* BEGIN IMMEDIATE on a writable connection, which rolls a hot journal back.
Begin(p) ==
    /\ writer = NoCaller
    /\ Goto(p, "opening", "reading")
    /\ writer' = p
    /\ hot' = "no"
    /\ UNCHANGED <<db, entered, staged, outcome, verdict, landed, caller>>

\* Mutant: a claim is accepted whatever the store already holds.
WritableAgain(d, r) ==
    /\ r.id \notin UsedIds(d)
    /\ Len(d.operations) < 3
    /\ r.type = "finish" => Len(d.operations) = 1 /\ Pending(d) = r.request
    /\ r.type = "verdict" => Len(d.operations) = 2
    /\ r.record # NoRecord => Admits(d.receipts, r.record)

\* What _write asks of the tables it reads under the lock.
Writable(d, r) ==
    /\ r.id \notin UsedIds(d)
    /\ d.meta = r.expected
    /\ Len(d.operations) < 3
    /\ r.type = "claim" => d.operations = <<>>
    /\ r.type = "finish" => Len(d.operations) = 1 /\ Pending(d) = r.request
    /\ r.type = "verdict" => Len(d.operations) = 2
    /\ r.record # NoRecord => Admits(d.receipts, r.record)

RefuseToWrite(p) ==
    /\ phase[p] = "reading"
    /\ ~Writable(db, request[p])
    /\ Refuse(p)

Stage(p) ==
    /\ Goto(p, "reading", "staged")
    /\ Writable(db, request[p])
    /\ staged' = [staged EXCEPT ![p] = Extended(db, request[p])]
    /\ verdict' = [verdict EXCEPT ![p] = "commit"]
    /\ UNCHANGED <<db, hot, entered, writer, outcome, landed, caller>>

\* Mutant: the outcome stays "none" until COMMIT returns.
StartCommitQuietly(p) ==
    /\ Goto(p, "staged", "committing")
    /\ UNCHANGED <<db, hot, entered, transaction, caller>>

\* outcome = "unknown", then COMMIT is attempted.
StartCommit(p) ==
    /\ Goto(p, "staged", "committing")
    /\ outcome' = [outcome EXCEPT ![p] = "unknown"]
    /\ UNCHANGED <<db, hot, entered, writer, staged, verdict, landed, caller>>

\* COMMIT becomes durable and gives up the lock; nobody has been told yet.
Land(p) ==
    /\ Goto(p, "committing", "landed")
    /\ db' = staged[p]
    /\ writer' = NoCaller
    /\ landed' = landed \cup {p}
    /\ UNCHANGED <<hot, entered, staged, outcome, verdict, caller>>

\* Mutant: the body's verdict is recorded as the outcome.
AcknowledgeVerdict(p) ==
    /\ Goto(p, "landed", "settling")
    /\ outcome' = [outcome EXCEPT ![p] = verdict[p]]
    /\ UNCHANGED <<db, hot, entered, writer, staged, verdict, landed, caller>>

\* connection.commit() returned.
Acknowledge(p) ==
    /\ Goto(p, "landed", "settling")
    /\ outcome' = [outcome EXCEPT ![p] = "complete"]
    /\ UNCHANGED <<db, hot, entered, writer, staged, verdict, landed, caller>>

\* Mutant: the wait for the write lock never times out.
RaiseOnceOpen(p, v) ==
    /\ phase[p] \in {"preparing", "keying", "reading", "staged", "committing", "landed"}
    /\ phase' = [phase EXCEPT ![p] = "settling"]
    /\ verdict' = [verdict EXCEPT ![p] = v]
    /\ UNCHANGED <<db, hot, entered, writer, staged, outcome, landed, caller>>

\* An exception at any step: v = "failed" for one _run wraps in CaseStoreError,
\* "interrupted" for a KeyboardInterrupt, which it raises as it is.
Raise(p, v) ==
    /\ phase[p] \in {"preparing", "keying", "opening", "reading", "staged",
                     "committing", "landed"}
    /\ phase' = [phase EXCEPT ![p] = "settling"]
    /\ verdict' = [verdict EXCEPT ![p] = v]
    /\ UNCHANGED <<db, hot, entered, writer, staged, outcome, landed, caller>>

(***************************************************************************)
(* The end of a transaction: rollback() and close() give up the lock.      *)
(***************************************************************************)
Settle(p) ==
    /\ phase[p] = "settling"
    /\ writer' = IF writer = p THEN NoCaller ELSE writer
    /\ staged' = [staged EXCEPT ![p] = EmptyStore]
    /\ outcome' = [outcome EXCEPT ![p] = "none"]
    /\ verdict' = [verdict EXCEPT ![p] = "pending"]
    /\ args' = [args EXCEPT ![p] = NoRequest]
    /\ UNCHANGED <<db, hot, entered, landed, request, returned, decision>>

\* Mutant: the bytes are handed over only when COMMIT was attempted.
AttachedIfUnknown(p) ==
    IF InBridge(p) /\ args[p].type = "finish" /\ args[p].result.status = "observed"
       /\ outcome[p] # "none"
    THEN args[p].result.output ELSE NoContent

\* The bytes an execute_observation hands over with a CaseStoreError from its
\* finish.  A refusal or an interrupt carries none.
Attached(p) ==
    IF InBridge(p) /\ args[p].type = "finish" /\ args[p].result.status = "observed"
    THEN args[p].result.output ELSE NoContent

\* The call ends as the caller sees it, and the bridge, if any, is released.
End(p, r, bytes) ==
    /\ Settle(p)
    /\ phase' = [phase EXCEPT ![p] = "idle"]
    /\ bridge' = [bridge EXCEPT ![ObjectOf[p]] = IF @ = p THEN NoCaller ELSE @]
    /\ finish' = [finish EXCEPT ![p] = NoId]
    /\ report' = [report EXCEPT ![p] = r]
    /\ carried' = [carried EXCEPT ![p] = bytes]

\* A claim of the bridge returned: the callback comes next.
Claimed(p) ==
    /\ InBridge(p) /\ args[p].type = "claim" /\ verdict[p] = "commit"
    /\ Settle(p)
    /\ phase' = [phase EXCEPT ![p] = "entering"]
    /\ known' = [known EXCEPT ![p] = ResultOf(request[p])]
    /\ UNCHANGED <<bridge, finish, report, carried>>

Return(p) ==
    /\ verdict[p] = "commit" /\ ~(InBridge(p) /\ args[p].type = "claim")
    /\ End(p, "commit", NoContent)
    /\ known' = [known EXCEPT ![p] = ResultOf(request[p])]

Fail(p) ==
    /\ verdict[p] \in {"refused", "failed", "interrupted"}
    /\ IF verdict[p] = "failed" THEN End(p, outcome[p], Attached(p))
                                ELSE End(p, verdict[p], NoContent)
    /\ UNCHANGED known

\* rollback() or close() raises after a result: the result is lost.
CleanupRaises(p, v) ==
    /\ verdict[p] = "commit"
    /\ IF v = "failed" THEN End(p, outcome[p], Attached(p)) ELSE End(p, v, NoContent)
    /\ UNCHANGED known

-----------------------------------------------------------------------------
(***************************************************************************)
(* The rest of execute_observation, between its two transactions.          *)
(***************************************************************************)
Enter(p) ==
    /\ Goto(p, "entering", "callback")
    /\ entered' = Append(entered, request[p].request)
    /\ UNCHANGED <<db, hot, transaction, caller>>

\* The adapter returns bytes, or raises, or returns what is not admitted.
CallbackReturns(p, result) ==
    /\ Goto(p, "callback", "preparing")
    /\ args' = [args EXCEPT ![p] =
           [type |-> "finish", id |-> finish[p], request |-> request[p].request,
            expected |-> known[p], result |-> result, evaluator |-> NoActor]]
    /\ returned' = [returned EXCEPT ![p] = result]
    /\ landed' = landed \ {p}
    /\ UNCHANGED <<db, hot, entered, writer, staged, outcome, verdict, bridge, known,
                   finish, request, report, carried, decision>>

\* A KeyboardInterrupt before, in or after the callback leaves the claim behind.
Interrupt(p) ==
    /\ phase[p] \in {"entering", "callback"}
    /\ phase' = [phase EXCEPT ![p] = "idle"]
    /\ bridge' = [bridge EXCEPT ![ObjectOf[p]] = NoCaller]
    /\ finish' = [finish EXCEPT ![p] = NoId]
    /\ report' = [report EXCEPT ![p] = "interrupted"]
    /\ UNCHANGED <<db, hot, entered, transaction, known, args, request, carried, returned,
                   decision>>

-----------------------------------------------------------------------------
(***************************************************************************)
(* Process death.  SQLite forgets the open transactions and the bridge     *)
(* lock is gone with the process.  A writer that dies inside COMMIT may    *)
(* leave a hot rollback journal, which only a writable connection can roll *)
(* back: mode=ro connections fail until one does.                          *)
(***************************************************************************)
Crash(o) ==
    LET dying == {p \in Callers : ObjectOf[p] = o}
        lost == {p \in dying : phase[p] \notin {"idle", "dead"}}
    IN  /\ lost # {}
        /\ phase' = [p \in Callers |-> IF p \in dying THEN "dead" ELSE phase[p]]
        /\ hot' \in {hot} \cup {"hot" : p \in {q \in lost : phase[q] = "committing"}}
        /\ writer' = IF writer \in dying THEN NoCaller ELSE writer
        /\ bridge' = [bridge EXCEPT ![o] = NoCaller]
        /\ staged' = [p \in Callers |-> IF p \in dying THEN EmptyStore ELSE staged[p]]
        /\ outcome' = [p \in Callers |-> IF p \in dying THEN "none" ELSE outcome[p]]
        /\ verdict' = [p \in Callers |-> IF p \in dying THEN "pending" ELSE verdict[p]]
        /\ report' = [p \in Callers |-> IF p \in lost THEN "lost" ELSE report[p]]
        /\ args' = [p \in Callers |-> IF p \in dying THEN NoRequest ELSE args[p]]
        /\ finish' = [p \in Callers |-> IF p \in dying THEN NoId ELSE finish[p]]
        /\ UNCHANGED <<db, entered, landed, known, request, carried, returned, decision>>

\* SQLiteCaseStore(...) in a new process: its constructor reads the store.
Reopen(p) ==
    /\ hot = "no"
    /\ Goto(p, "dead", "idle")
    /\ UNCHANGED <<db, hot, entered, transaction, caller>>

-----------------------------------------------------------------------------
\* The steps of a call that are this code's own to take.
Progress(p) ==
    \/ RefuseToPrepare(p) \/ PrepareClaim(p) \/ PrepareFinish(p) \/ ReadKey(p)
    \/ PrepareVerdict(p) \/ Begin(p) \/ RefuseToWrite(p) \/ Stage(p) \/ StartCommit(p)
    \/ Land(p) \/ Acknowledge(p) \/ Claimed(p) \/ Return(p) \/ Fail(p) \/ Enter(p)
    \/ Raise(p, "failed")

Next ==
    \/ \E p \in Callers :
        \/ Snapshot(p)
        \/ Lookup(p)
        \/ \E decider \in Actors, disposition \in Dispositions : Decide(p, decider, disposition)
        \/ \E id \in Ids : Claim(p, id)
        \/ \E id, req \in Ids, result \in Answers : Finish(p, id, req, result)
        \/ \E id \in Ids, evaluator \in Evaluators : Judge(p, id, evaluator)
        \/ \E id, finish_id \in Ids : Execute(p, id, finish_id)
        \/ RefuseToPrepare(p)
        \/ PrepareClaim(p)
        \/ PrepareFinish(p)
        \/ ReadKey(p)
        \/ PrepareVerdict(p)
        \/ Begin(p)
        \/ RefuseToWrite(p)
        \/ Stage(p)
        \/ StartCommit(p)
        \/ Land(p)
        \/ Acknowledge(p)
        \/ \E v \in {"failed", "interrupted"} : Raise(p, v)
        \/ Claimed(p)
        \/ Return(p)
        \/ Fail(p)
        \/ \E v \in {"failed", "interrupted"} : CleanupRaises(p, v)
        \/ Enter(p)
        \/ \E result \in Answers : CallbackReturns(p, result)
        \/ Interrupt(p)
        \/ Reopen(p)
    \/ \E o \in Objects : Crash(o)

Spec == Init /\ [][Next]_vars

\* A thread inside a call keeps running and SQLite's busy timeout bounds its
\* wait for a lock.  Nothing is assumed of the adapter: it may never return.
FairSpec == Spec /\ \A p \in Callers : WF_vars(Progress(p))

\* An operator also keeps reopening the store of a dead process.
RestartSpec == FairSpec /\ \A p \in Callers : WF_vars(Reopen(p))

-----------------------------------------------------------------------------
(***************************************************************************)
(* Type invariant.                                                         *)
(***************************************************************************)
TypeOK ==
    /\ db \in Tables
    /\ hot \in {"no", "hot"}
    /\ writer \in Callers \cup {NoCaller}
    /\ bridge \in [Objects -> Callers \cup {NoCaller}]
    /\ known \in [Callers -> Checkpoint]
    /\ args \in [Callers -> Argument \cup {NoRequest}]
    /\ finish \in [Callers -> Ids \cup {NoId}]
    /\ request \in [Callers -> Request \cup {NoRequest}]
    /\ phase \in [Callers -> Phases]
    /\ staged \in [Callers -> Tables]
    /\ outcome \in [Callers -> Outcomes]
    /\ verdict \in [Callers -> Verdicts]
    /\ report \in [Callers -> Reports]
    /\ carried \in [Callers -> Contents \cup {NoContent}]
    /\ returned \in [Callers -> Results \cup {NoResult}]
    /\ landed \subseteq Callers
    /\ entered \in Seq(Ids)
    /\ decision \in [Callers -> CaseDecision \cup {NoRecord}]

(***************************************************************************)
(* No interleaving of claims, finishes, verdicts, failures and deaths      *)
(* leaves a file _read rejects, and the recorded observer is the one the   *)
(* claim named, which _read itself does not compare.                       *)
(***************************************************************************)
StoreVerifies ==
    /\ Verifies(db)
    /\ Len(db.operations) >= 2 => db.receipts[2].observer = db.operations[1].observer

(***************************************************************************)
(* The adapter is entered at most once for the case, whatever fails or     *)
(* dies and however often callers try again, and only for a claim that is  *)
(* already in the file.                                                    *)
(***************************************************************************)
EnteredAtMostOnce ==
    /\ Len(entered) <= 1
    /\ entered # <<>> => /\ db.operations # <<>>
                         /\ db.operations[1].request = entered[1]

(***************************************************************************)
(* Refusal and outcome none mean that the last write left nothing behind;  *)
(* a commit and outcome complete mean that it is in the file.              *)
(***************************************************************************)
ReportsTruthful ==
    \A p \in Callers :
        /\ report[p] \in {"refused", "absent", "none"} => p \notin landed
        /\ report[p] \in {"commit", "complete"} => request[p] \in Committed(db)

(***************************************************************************)
(* What cannot be observed twice is not lost to a storage failure: when a  *)
(* bridge whose callback returned ends, the result is the recorded         *)
(* observation, or the error hands the bytes over.                         *)
(***************************************************************************)
ObservationKept ==
    \A p \in Callers :
        phase[p] = "idle" /\ returned[p] # NoResult =>
            /\ report[p] = "commit" => db.receipts[2].result = returned[p]
            /\ report[p] \in Outcomes => carried[p] = returned[p].output

(***************************************************************************)
(* A decision is taken outside the store, on a journal that may be old by  *)
(* then.  An approval still means that the bytes in the file are exactly   *)
(* what the plan predicted and that four different actors took part, of    *)
(* whom a tool observed and no model judged.                               *)
(***************************************************************************)
ApprovalEarned ==
    \A p \in Callers :
        decision[p] # NoRecord /\ decision[p].disposition = "approve" =>
            LET v == decision[p].verdict
            IN  /\ Len(db.receipts) = 3 /\ db.receipts[3] = v
                /\ db.output = Plan.prediction
                /\ v.evaluator \notin {Plan.proposer, v.observation.observer}
                /\ decision[p].decider \notin
                       {Plan.proposer, v.observation.observer, v.evaluator}
                /\ KindOf[v.observation.observer] = "tool"
                /\ KindOf[v.evaluator] # "model"

(***************************************************************************)
(* The history only grows: nobody takes a claim over, and a finished       *)
(* observation or a verdict is never replaced.                             *)
(***************************************************************************)
HistoryOnlyGrows ==
    [][\A i \in 1..Len(db.operations) :
           i <= Len(db'.operations) /\ db'.operations[i] = db.operations[i]]_vars

(***************************************************************************)
(* The store implements the protocol of a case, whatever is in its log:    *)
(* claimed once, entered once for that claim, observed by the claimed      *)
(* tool, judged as earned by somebody else, and decided on that verdict,   *)
(* with all of the transactions, failures and deaths in between hidden.    *)
(***************************************************************************)
Receipt(n) == IF Len(db.receipts) >= n THEN db.receipts[n] ELSE NoRecord

ClaimOnFile ==
    IF db.operations = <<>> THEN NoRecord
    ELSE [request |-> db.operations[1].request, observer |-> db.operations[1].observer]

Protocol == INSTANCE CaseProtocol WITH
    claim <- ClaimOnFile, observation <- Receipt(2), judgement <- Receipt(3)

ImplementsCaseProtocol == Protocol!Spec

(***************************************************************************)
(* A call ends or is inside the adapter, also when another caller's        *)
(* adapter never returns: nobody holds the write lock while it runs.       *)
(***************************************************************************)
Resting == {"idle", "callback", "dead"}

CallsEnd == \A p \in Callers : phase[p] \notin Resting ~> phase[p] \in Resting

(***************************************************************************)
(* After a crash the store can be opened again, so that lookup and         *)
(* lookup_operation can settle what became of the request.                 *)
(***************************************************************************)
CrashIsRecoverable == \A p \in Callers : phase[p] = "dead" ~> phase[p] # "dead"
=============================================================================
