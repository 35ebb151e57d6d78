---------------------------- MODULE StoreCommand ----------------------------
(***************************************************************************)
(* The workflow-store commands (workflow_store_cli.py): every run is a     *)
(* process of its own that admits its arguments and files, calls the store *)
(* once, reports on stdout and, when something went wrong, says on stderr  *)
(* what became of the request.  An operator runs one command after another *)
(* and may be interrupted, find the process dead or lose either stream.    *)
(*                                                                         *)
(* The store is its journal of committed requests, which is what           *)
(* WorkflowStore is shown to implement, and its error carries an outcome   *)
(* that is true.  A request is its own digest, and the checkpoint it is    *)
(* prepared on is the length of the journal.                               *)
(***************************************************************************)
EXTENDS Integers, Sequences, FiniteSets

CONSTANTS
    Operators,      \* people, each with a checkpoint file
    Ids,            \* request IDs
    Batches,        \* what a commands file may hold
    MaxJournal,     \* bound of the instance: requests in the journal
    None

Operations == {"create", "snapshot", "request-digest", "append", "lookup"}

\* What a commands file and a checkpoint ask for; it stands for its digest as well.
Request == [id: Ids, batch: Batches, expected: 0..MaxJournal]

ASSUME CommandAssumption == MaxJournal \in Nat /\ None \notin Request

VARIABLES
    created,    \* the database exists
    journal,    \* its committed requests
    file,       \* the batch in the commands file, which they share
    checkpoint, \* per operator: the journal length in its checkpoint file
    retained,   \* per operator: the request whose digest it wrote down
    op,         \* per operator: the operation of the run in progress
    step,       \* where the run stands
    request,    \* the request of its arguments and files
    state,      \* _Operation: [outcome, pending]
    result,     \* what the call came back with, for the report
    landed,     \* history: the run changed the store
    ended,      \* how the last run ended, as its operator saw it, until the next begins
    concluded,  \* what the operator concluded about its request
    wrote       \* history: the requests that runs of the operator committed

database == <<created, journal>>
desk == <<file, checkpoint, retained, concluded>>
process == <<op, step, request, state, result, landed>>
commandVars == <<database, desk, process, ended, wrote>>

Fresh == [outcome |-> "none", pending |-> FALSE]

Untold == [op |-> "none", exit |-> "never", outcome |-> "none", changed |-> FALSE]

CommandInit ==
    /\ created = FALSE /\ journal = <<>>
    /\ file \in Batches
    /\ checkpoint = [o \in Operators |-> 0]
    /\ retained = [o \in Operators |-> None]
    /\ op = [o \in Operators |-> "none"]
    /\ step = [o \in Operators |-> "idle"]
    /\ request = [o \in Operators |-> None]
    /\ state = [o \in Operators |-> Fresh]
    /\ result = [o \in Operators |-> None]
    /\ landed = [o \in Operators |-> FALSE]
    /\ ended = [o \in Operators |-> Untold]
    /\ concluded = [o \in Operators |-> "nothing"]
    /\ wrote = [o \in Operators |-> {}]

Go(o, from, to) == step[o] = from /\ step' = [step EXCEPT ![o] = to]

Committed == {journal[i] : i \in DOMAIN journal}

-----------------------------------------------------------------------------
(***************************************************************************)
(* A run up to the call.                                                   *)
(***************************************************************************)
Run(o, operation) ==
    /\ Go(o, "idle", "reading") /\ operation \in Operations
    /\ operation \in {"append", "lookup"} => retained[o] # None
    /\ op' = [op EXCEPT ![o] = operation] /\ ended' = [ended EXCEPT ![o] = Untold]
    /\ concluded' = IF operation = "append" THEN [concluded EXCEPT ![o] = "nothing"] ELSE concluded
    /\ UNCHANGED <<database, file, checkpoint, retained, request, state, result, landed, wrote>>

\* Arguments and files are admitted, and what happens to the files later does
\* not matter.  create goes straight to its call, the others open the store.
Admit(o, id) ==
    /\ Go(o, "reading", IF op[o] = "create" THEN "ready" ELSE "opening")
    /\ op[o] = "append" => id = retained[o].id
    /\ request' = [request EXCEPT ![o] =
           CASE op[o] \in {"append", "request-digest"} ->
                    [id |-> id, batch |-> file, expected |-> checkpoint[o]]
             [] op[o] = "lookup" -> retained[o]
             [] OTHER -> None]
    /\ UNCHANGED <<database, desk, op, state, result, landed, ended, wrote>>

\* Mutant: opening makes a missing database.
OpensAnything == TRUE

Opens == created

OpenStore(o) ==
    /\ Opens
    /\ Go(o, "opening", IF op[o] = "snapshot" THEN "current" ELSE "ready")
    /\ UNCHANGED <<database, desk, op, request, state, result, landed, ended, wrote>>

\* request-digest reports the digest of what the files say.
Digest(o) ==
    /\ op[o] = "request-digest" /\ Go(o, "ready", "reporting")
    /\ result' = [result EXCEPT ![o] = request[o]]
    /\ UNCHANGED <<database, desk, op, request, state, landed, ended, wrote>>

\* Mutant: the digest on the command line is only recorded.
MatchesId(o) == retained[o].id = request[o].id

\* digest = args.expected_request_digest
Matches(o) == retained[o] = request[o]

\* Mutant: appends are announced, creation is not.
AppendOrLookup == {"append", "lookup"}

\* The operations that announce the acknowledgement they wait for.
Announced == {"create", "append", "lookup"}

\* acknowledgement_pending = True, and the call.
Call(o) ==
    /\ op[o] # "request-digest" /\ Go(o, "ready", "calling")
    /\ op[o] = "append" => Matches(o)
    /\ state' = [state EXCEPT ![o].pending = op[o] \in Announced]
    /\ UNCHANGED <<database, desk, op, request, result, landed, ended, wrote>>

-----------------------------------------------------------------------------
(***************************************************************************)
(* The call, as WorkflowStore promises it.                                 *)
(***************************************************************************)
LandCreate(o) ==
    /\ op[o] = "create" /\ ~created /\ Go(o, "calling", "decided")
    /\ created' = TRUE /\ landed' = [landed EXCEPT ![o] = TRUE]
    /\ UNCHANGED <<journal, desk, op, request, state, result, ended, wrote>>

LandAppend(o) ==
    /\ op[o] = "append" /\ Go(o, "calling", "decided")
    /\ Len(journal) < MaxJournal
    /\ \A r \in Committed : r.id # request[o].id
    /\ request[o].expected = Len(journal)
    /\ journal' = Append(journal, request[o])
    /\ wrote' = [wrote EXCEPT ![o] = @ \cup {request[o]}]
    /\ landed' = [landed EXCEPT ![o] = TRUE]
    /\ result' = [result EXCEPT ![o] = request[o]]
    /\ UNCHANGED <<created, desk, op, request, state, ended>>

\* Mutant: an ID is enough to find a request.
FoundById(r) == \E c \in Committed : c.id = r.id

\* The ID and the digest; the same ID with another digest is a conflict.
Found(r) == r \in Committed

\* A retry or a lookup of a committed request.
Recall(o) ==
    /\ op[o] \in {"append", "lookup"} /\ Go(o, "calling", "decided")
    /\ Found(request[o])
    /\ result' = [result EXCEPT ![o] = request[o]]
    /\ UNCHANGED <<database, desk, op, request, state, landed, ended, wrote>>

LookupNothing(o) ==
    /\ op[o] = "lookup" /\ Go(o, "calling", "decided")
    /\ \A r \in Committed : r.id # request[o].id
    /\ UNCHANGED <<database, desk, op, request, state, result, landed, ended, wrote>>

-----------------------------------------------------------------------------
(***************************************************************************)
(* After the call.                                                         *)
(***************************************************************************)
\* Mutant: a lookup is complete when it returns.
AlwaysComplete(o) == TRUE

\* An append or a creation that returned, or a commit that was found.
Completes(o) == op[o] # "lookup" \/ result[o] # None

AcknowledgeCall(o) ==
    /\ Go(o, "decided", "acknowledged")
    /\ state' = [state EXCEPT ![o].outcome = IF Completes(o) THEN "complete" ELSE @]
    /\ UNCHANGED <<database, desk, op, request, result, landed, ended, wrote>>

Settle(o) ==
    /\ Go(o, "acknowledged", IF op[o] = "create" THEN "current" ELSE "reporting")
    /\ state' = [state EXCEPT ![o].pending = FALSE]
    /\ UNCHANGED <<database, desk, op, request, result, landed, ended, wrote>>

\* store.snapshot(): also create reports the current state and not what it made.
ReadCurrent(o) ==
    /\ Go(o, "current", "reporting")
    /\ result' = [result EXCEPT ![o] = Len(journal)]
    /\ UNCHANGED <<database, desk, op, request, state, landed, ended, wrote>>

\* The process is gone; its operator has its exit and what it said of the outcome.
Exits(o, exit, outcome) ==
    /\ ended' = [ended EXCEPT ![o] = [op |-> op[o], exit |-> exit, outcome |-> outcome, changed |-> landed[o]]]
    /\ step' = [step EXCEPT ![o] = "idle"]
    /\ op' = [op EXCEPT ![o] = "none"] /\ request' = [request EXCEPT ![o] = None]
    /\ state' = [state EXCEPT ![o] = Fresh]
    /\ result' = [result EXCEPT ![o] = None] /\ landed' = [landed EXCEPT ![o] = FALSE]
    /\ UNCHANGED <<database, file, wrote>>

\* What an operator learns from a report on stdout that is complete.
Deliver(o) ==
    /\ step[o] = "reporting" /\ Exits(o, "success", state[o].outcome)
    /\ retained' = IF op[o] = "request-digest" THEN [retained EXCEPT ![o] = result[o]] ELSE retained
    /\ checkpoint' = IF op[o] \in {"create", "snapshot"} THEN [checkpoint EXCEPT ![o] = result[o]] ELSE checkpoint
    /\ concluded' = CASE op[o] \in {"append", "lookup"} ->
                         [concluded EXCEPT ![o] = IF result[o] = None THEN "absent" ELSE "committed"]
                  [] op[o] = "request-digest" -> [concluded EXCEPT ![o] = "nothing"]
                  [] OTHER -> concluded

-----------------------------------------------------------------------------
(***************************************************************************)
(* Failures.                                                               *)
(***************************************************************************)
\* Mutant: the last storage error says what became of the command.
LastFailureCounts(s, kind, outcome) ==
    IF kind = "storage" THEN outcome ELSE IF kind = "control" /\ s.pending THEN "unknown" ELSE s.outcome

\* _Operation.observe_failure: what is complete stays complete.
ObserveFailure(s, kind, outcome) ==
    IF s.outcome = "complete" THEN "complete"
    ELSE IF kind = "storage" THEN outcome
    ELSE IF kind = "control" /\ s.pending THEN "unknown" ELSE s.outcome

\* The outcomes a WorkflowStorageError of this step may carry.
Carried(o) ==
    CASE step[o] = "calling" -> IF op[o] = "lookup" THEN {"none"} ELSE {"none", "unknown"}
      [] step[o] = "decided" -> IF landed[o] THEN {"unknown", "complete"}
                                ELSE IF result[o] # None THEN {"complete"} ELSE {"none"}
      [] step[o] \in {"opening", "current"} -> {"none"}
      [] OTHER -> {}

StorageFails(o, outcome) ==
    /\ outcome \in Carried(o)
    /\ step' = [step EXCEPT ![o] = "diagnosing"]
    /\ state' = [state EXCEPT ![o].outcome = ObserveFailure(state[o], "storage", outcome)]
    /\ UNCHANGED <<database, desk, op, request, result, landed, ended, wrote>>

\* Arguments, files, another digest, a conflict, or a report that is not written.
Refused(o) ==
    /\ step[o] \in {"reading", "opening", "ready", "calling", "current", "reporting"}
    /\ step' = [step EXCEPT ![o] = "diagnosing"]
    /\ state' = [state EXCEPT ![o].outcome = ObserveFailure(state[o], "other", "none")]
    /\ UNCHANGED <<database, desk, op, request, result, landed, ended, wrote>>

\* The diagnostic reaches stderr, or not; the exit code is 2 either way.
Diagnose(o) ==
    /\ step[o] = "diagnosing" /\ UNCHANGED <<checkpoint, retained, concluded>>
    /\ \E outcome \in {state[o].outcome, "silent"} : Exits(o, "failure", outcome)

\* KeyboardInterrupt or SystemExit, with a note about the outcome.
InterruptRun(o) ==
    /\ step[o] # "idle" /\ UNCHANGED <<checkpoint, retained, concluded>>
    /\ Exits(o, "control", IF step[o] = "diagnosing" THEN state[o].outcome
                           ELSE ObserveFailure(state[o], "control", "none"))

\* The process dies.
Die(o) == step[o] # "idle" /\ Exits(o, "killed", "silent") /\ UNCHANGED <<checkpoint, retained, concluded>>

\* Somebody edits the commands file.
Edit(batch) ==
    /\ batch # file /\ file' = batch
    /\ UNCHANGED <<database, checkpoint, retained, concluded, process, ended, wrote>>

CommandNext ==
    \/ \E batch \in Batches : Edit(batch)
    \/ \E o \in Operators :
        \/ \E operation \in Operations : Run(o, operation)
        \/ \E id \in Ids : Admit(o, id)
        \/ OpenStore(o) \/ Digest(o) \/ Call(o)
        \/ LandCreate(o) \/ LandAppend(o) \/ Recall(o) \/ LookupNothing(o)
        \/ AcknowledgeCall(o) \/ Settle(o) \/ ReadCurrent(o) \/ Deliver(o)
        \/ \E outcome \in {"none", "unknown", "complete"} : StorageFails(o, outcome)
        \/ Refused(o) \/ Diagnose(o) \/ InterruptRun(o) \/ Die(o)

CommandSpec == CommandInit /\ [][CommandNext]_commandVars

-----------------------------------------------------------------------------
(***************************************************************************)
(* Properties.                                                             *)
(***************************************************************************)
CommandTypeOK ==
    /\ created \in BOOLEAN /\ journal \in Seq(Request) /\ Len(journal) <= MaxJournal
    /\ (journal # <<>> => created)
    /\ file \in Batches /\ checkpoint \in [Operators -> 0..MaxJournal]
    /\ retained \in [Operators -> Request \cup {None}]
    /\ concluded \in [Operators -> {"nothing", "absent", "committed"}]
    /\ op \in [Operators -> Operations \cup {"none"}]
    /\ step \in [Operators -> {"idle", "reading", "opening", "ready", "calling", "decided",
                               "acknowledged", "current", "reporting", "diagnosing"}]
    /\ request \in [Operators -> Request \cup {None}]
    /\ result = [o \in Operators |-> result[o]]
    /\ \A o \in Operators :
           result[o] \in {None} \cup IF op[o] \in {"create", "snapshot"} THEN 0..MaxJournal ELSE Request
    /\ landed \in [Operators -> BOOLEAN]
    /\ state \in [Operators -> [outcome: {"none", "unknown", "complete"}, pending: BOOLEAN]]
    /\ ended \in [Operators -> [op: Operations \cup {"none"}, changed: BOOLEAN, exit: {"never", "success", "failure", "control", "killed"},
                               outcome: {"none", "unknown", "complete", "silent"}]]
    /\ wrote \in [Operators -> SUBSET Request]

\* What a failed or interrupted run says of its outcome is true: "none" changed
\* nothing, "complete" is on file, and "unknown" is said only of a call that
\* could have committed or was asked whether one did (_Operation).
DiagnosticsTruthful ==
    \A o \in Operators :
        ended[o].exit \in {"failure", "control"} =>
            /\ ended[o].outcome = "none" => ~ended[o].changed
            /\ ended[o].outcome = "complete" =>
                   IF ended[o].op = "create" THEN created ELSE retained[o] \in Committed
            /\ ended[o].outcome \in {"unknown", "complete"} => ended[o].op \in {"create", "append", "lookup"}

\* An append commits what the operator wrote the digest of, whatever the files
\* hold by then (_execute).
CommitsTheApproved == \A o \in Operators : wrote'[o] \ wrote[o] \subseteq {retained[o]}

\* What an operator may conclude: a delivered report of an append or a lookup
\* that names the request means that it is on file, and a delivered null that
\* none of the operator's runs before it, whatever became of them, has
\* committed it (docs/workflow-store-cli.md, "Failure, acknowledgement and
\* recovery").
KnowledgeRight ==
    \A o \in Operators :
        /\ concluded[o] = "committed" => retained[o] \in Committed
        /\ concluded[o] = "absent" => retained[o] \notin wrote[o]

\* The diagnostics of a store command are true, and so is what an operator concludes
\* about a retained request (workflow_store_cli.py).
CommandsTruthful == CommandTypeOK /\ DiagnosticsTruthful /\ KnowledgeRight
=============================================================================
