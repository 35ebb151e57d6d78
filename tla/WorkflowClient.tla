--------------------------- MODULE WorkflowClient ---------------------------
(***************************************************************************)
(* WorkflowClient (workflow_client.py) against the service: callers retain *)
(* a prepared append, send it or look it up over a socket of its own for   *)
(* each call, and may give up at any moment while the service goes on.     *)
(* Replies are lost, late or never made; a caller retries as it likes.     *)
(***************************************************************************)
EXTENDS WorkflowService

CONSTANTS
    Clients,        \* client objects, each with the caller that uses it
    ActorOf,        \* client -> the actor its credential stands for
    RequestIds,     \* public request IDs
    Calls,          \* the operations callers use: Operations, or fewer
    NoIntent        \* nothing is prepared

\* namespace_id: the same public ID of another actor is another request.
NamespaceId(k, id) == <<ActorOf[k], id>>

\* What a client may ask under one operation it may ask under the others.
ASSUME ClientAssumption ==
    /\ Calls \subseteq Operations /\ NoIntent \notin Requests
    /\ \A k \in Clients, id \in RequestIds, r \in Requests :
           r.op = "append" /\ r.id = NamespaceId(k, id) =>
               \A op \in Calls : [r EXCEPT !.op = op] \in Requests

VARIABLES
    intent,     \* per client: the PreparedWorkflowAppend its caller retains
    asked,      \* per client: the operation whose response it waits for, if any
    held,       \* per client: _connection
    last,       \* per client: the connection of its last call
    answer,     \* per client: how its last call ended
    before      \* history, per client: the request was in the journal at the call

client == <<intent, asked, held, last, answer, before>>
systemVars == <<vars, client>>

Prepared(k, id, expected) ==
    [op |-> "append", id |-> NamespaceId(k, id), expected |-> expected]

\* start() has returned; the listener is open and the acceptor runs.
RunningService ==
    /\ state = "RUNNING" /\ stop = FALSE /\ started = TRUE /\ failure = FALSE
    /\ listener = "open" /\ acceptor = "looping" /\ pending = NoConnection
    /\ reserved = FALSE /\ permits = MaxWorkers /\ workers = {}
    /\ stage = [c \in Connections |-> "unused"]
    /\ socket = [c \in Connections |-> "none"]
    /\ request = [c \in Connections |-> NoRequest]
    /\ outcome = [c \in Connections |-> "none"]
    /\ payload = [c \in Connections |-> NoFrame]
    /\ delivered = {} /\ core = NoConnection /\ journal = <<>> /\ landed = {}
    /\ owner = [o \in Owners |-> "idle"] /\ closer = NoOwner
    /\ swept = {} /\ doomed = {}
    /\ report = [o \in Owners |-> "nothing"]

NothingAsked ==
    /\ intent = [k \in Clients |-> NoIntent]
    /\ asked = [k \in Clients |-> "none"]
    /\ held = [k \in Clients |-> NoConnection]
    /\ last = [k \in Clients |-> NoConnection]
    /\ answer = [k \in Clients |-> "nothing"]
    /\ before = [k \in Clients |-> FALSE]

ClientInit == RunningService /\ NothingAsked

\* What a caller may send: what it retains, or what prepare_append makes on a
\* checkpoint that it learned at some time.
Sendable(k) ==
    {intent[k]} \cup {Prepared(k, id, e) : id \in RequestIds, e \in 0..Len(journal)}

\* _request: one call at a time, and none while a connection is retained.
MayCall(k) == asked[k] = "none" /\ held[k] = NoConnection

\* append, lookup or snapshot: connect() returned and the request is under way.
Call(k, op, c, r) ==
    /\ MayCall(k) /\ r \in Sendable(k) \cap Requests
    /\ Connect(c, [r EXCEPT !.op = op])
    /\ intent' = [intent EXCEPT ![k] = r]
    /\ asked' = [asked EXCEPT ![k] = op]
    /\ held' = [held EXCEPT ![k] = c]
    /\ last' = [last EXCEPT ![k] = c]
    /\ answer' = [answer EXCEPT ![k] = "nothing"]
    /\ before' = [before EXCEPT ![k] = op = "lookup" /\ InJournal(r)]

\* connect() fails: nothing was sent.
CallFails(k) ==
    /\ MayCall(k)
    /\ last' = [last EXCEPT ![k] = NoConnection]
    /\ answer' = [answer EXCEPT ![k] = "none"]
    /\ UNCHANGED <<vars, intent, asked, held, before>>

\* The call ends with a result or with an error that carries the outcome.  When
\* the socket cannot be closed it is retained, and the caller gets the outcome.
Finish(k, result, o, closed) ==
    /\ asked' = [asked EXCEPT ![k] = "none"]
    /\ held' = IF closed THEN [held EXCEPT ![k] = NoConnection] ELSE held
    /\ answer' = [answer EXCEPT ![k] = IF closed /\ result # "error" THEN result ELSE o]
    /\ UNCHANGED <<vars, intent, last, before>>

\* Mutant: whatever is no commit is an absence.
DecodeLoosely(op, frame) ==
    IF frame.status = "ok" /\ frame.found THEN "commit" ELSE "absent"

\* Mutant: an error frame is decoded as if it held a result.
DecodeError(op, frame) == IF frame.status # "ok" THEN frame.status ELSE "commit"

\* _decode: a result, or an acknowledged error.
Decode(op, frame) ==
    IF frame.status # "ok" THEN "error"
    ELSE IF op = "snapshot" THEN "snapshot"
    ELSE IF frame.found THEN "commit" ELSE "absent"

\* A complete, consistent frame arrived: only that refines the outcome.
Receive(k, closed) ==
    /\ asked[k] # "none" /\ held[k] \in delivered
    /\ Finish(k, Decode(asked[k], payload[held[k]]), payload[held[k]].outcome, closed)

\* Mutant: a response that does not come means that nothing happened.
OutcomeQuiet(op) == "none"

\* The outcome of a call from connect() to the decoded response.
OutcomeInFlight(op) == IF op = "snapshot" THEN "none" ELSE "unknown"

\* The response never comes, comes late, breaks off or is malformed.
GiveUp(k, closed) ==
    /\ asked[k] # "none"
    /\ Finish(k, "error", OutcomeInFlight(asked[k]), closed)

\* close(): another try at a retained connection.
CloseRetained(k) ==
    /\ asked[k] = "none" /\ held[k] # NoConnection
    /\ held' = [held EXCEPT ![k] = NoConnection]
    /\ UNCHANGED <<vars, intent, asked, last, answer, before>>

ClientNext ==
    \/ (Service \/ Others) /\ UNCHANGED client
    \/ \E k \in Clients :
        \/ \E op \in Calls, c \in Connections, r \in Requests : Call(k, op, c, r)
        \/ CallFails(k)
        \/ \E closed \in BOOLEAN : Receive(k, closed) \/ GiveUp(k, closed)
        \/ CloseRetained(k)

ClientSpec == ClientInit /\ [][ClientNext]_systemVars

-----------------------------------------------------------------------------
(***************************************************************************)
(* Type invariant.                                                         *)
(***************************************************************************)
ClientTypeOK ==
    /\ TypeOK
    /\ intent \in [Clients -> Requests \cup {NoIntent}]
    /\ asked \in [Clients -> Operations \cup {"none"}]
    /\ held \in [Clients -> Connections \cup {NoConnection}]
    /\ last \in [Clients -> Connections \cup {NoConnection}]
    /\ answer \in [Clients -> {"nothing", "snapshot", "commit", "absent",
                               "none", "unknown", "complete"}]
    /\ before \in [Clients -> BOOLEAN]

(***************************************************************************)
(* What a client tells its caller stays true: after an error with outcome  *)
(* none this call has not committed and never will, though the connection  *)
(* may have been lost at any point, and a commit, or a failure after it,   *)
(* is in the journal.                                                      *)
(***************************************************************************)
AnswersTruthful ==
    \A k \in Clients :
        /\ answer[k] = "none" => last[k] \notin landed
        /\ answer[k] \in {"commit", "complete"} => InJournal(intent[k])

(***************************************************************************)
(* A lookup recovers a lost reply: it does not report absence of a request *)
(* that was committed before the lookup was called.  (It may still commit  *)
(* later, from a worker whose client gave up.)                             *)
(***************************************************************************)
AbsenceWasTrue == \A k \in Clients : answer[k] = "absent" => ~before[k]

(***************************************************************************)
(* What a client tells its caller stays true, an absent request was absent *)
(* when the lookup began, and the frames a worker made for it tell the     *)
(* truth about the journal, also while the service closes.                 *)
(***************************************************************************)
CallersToldTruth == AnswersTruthful /\ AbsenceWasTrue /\ RepliesTruthful
=============================================================================
