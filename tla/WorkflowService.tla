--------------------------- MODULE WorkflowService ---------------------------
(***************************************************************************)
(* LocalWorkflowService (workflow_service.py): a loopback listener in      *)
(* front of one workflow store.  An owner thread starts it, an acceptor    *)
(* thread hands each connection to a worker thread of its own under a      *)
(* bounded number of permits, workers enter the store one at a time, and   *)
(* any number of owner threads close it while all of that is going on.     *)
(*                                                                         *)
(* self._lock is held over single steps only, and every step that holds it *)
(* is one action.  The store is its journal of committed requests: what    *)
(* WorkflowStore is shown to implement.  A request's expected checkpoint   *)
(* is the length of the journal it was prepared on.                        *)
(***************************************************************************)
EXTENDS Naturals, Sequences, FiniteSets

CONSTANTS
    Owners,         \* threads that call start() and close()
    Connections,    \* connections a client may open, each used once
    Requests,       \* what a connection may ask: [op, id, expected]
    MaxWorkers,     \* limits.max_workers
    MaxJournal,     \* bound of the instance: requests in the journal
    NoConnection, NoOwner

Operations == {"snapshot", "lookup", "append"}

ASSUME ServiceAssumption ==
    /\ MaxWorkers \in Nat \ {0} /\ MaxJournal \in Nat
    /\ Requests \subseteq [op: Operations, id: {r.id : r \in Requests}, expected: Nat]
    /\ NoConnection \notin Connections /\ NoOwner \notin Owners

VARIABLES
    \* lifecycle
    state,      \* _state
    stop,       \* _stop is set
    started,    \* _start_done is set
    failure,    \* _failure is not None
    listener,   \* _listener: "none" or "open"
    \* the acceptor thread
    acceptor,   \* where it stands; "none" before it exists, "dead" when it ended
    pending,    \* _pending_socket
    reserved,   \* it holds a permit that belongs to no worker yet
    permits,    \* _permits: permits left
    \* connections and their workers
    workers,    \* keys of _workers
    stage,      \* per connection: where it and its worker thread stand
    socket,     \* per connection: the service's end of it
    request,    \* per connection: what the client sent
    outcome,    \* per connection: record.operation.outcome
    payload,    \* per connection: the frame made for it
    delivered,  \* connections whose whole frame was sent
    core,       \* the holder of _core
    journal,    \* the committed requests of the store
    landed,     \* history: connections whose append added to the journal
    \* owners
    owner,      \* per owner: where its start() or close() stands
    closer,     \* the holder of _close_lock
    swept,      \* close(): the workers it took from _workers
    doomed,     \* close(): those it found reading and will shut down
    report      \* per owner: how its last close() ended

lifecycle == <<state, stop, started, failure>>
accepting == <<listener, acceptor, pending, reserved>>
work == <<request, outcome, payload, delivered, core, journal, landed>>
closing == <<owner, closer, swept, doomed, report>>
vars == <<lifecycle, accepting, permits, workers, stage, socket, work, closing>>

Frame == [status: {"ok", "refused", "unavailable", "internal"},
          outcome: {"none", "unknown", "complete"}, found: BOOLEAN]

NoFrame == [status |-> "none", outcome |-> "none", found |-> FALSE]

NoRequest == [op |-> "none"]

\* The stages of a worker thread that runs.
Alive == {"reading", "admitted", "core", "returned", "replying", "closing"}

Init ==
    /\ state = "NEW" /\ stop = FALSE /\ started = TRUE /\ failure = FALSE
    /\ listener = "none" /\ acceptor = "none" /\ pending = NoConnection
    /\ reserved = FALSE /\ permits = MaxWorkers /\ workers = {}
    /\ stage = [c \in Connections |-> "unused"]
    /\ socket = [c \in Connections |-> "none"]
    /\ request = [c \in Connections |-> NoRequest]
    /\ outcome = [c \in Connections |-> "none"]
    /\ payload = [c \in Connections |-> NoFrame]
    /\ delivered = {} /\ core = NoConnection /\ journal = <<>> /\ landed = {}
    /\ owner = [o \in Owners |-> "idle"] /\ closer = NoOwner
    /\ swept = {} /\ doomed = {}
    /\ report = [o \in Owners |-> "nothing"]

\* _fatal: stop the whole service because of a failure nobody can be told of.
Fatal == state' = "DRAINING" /\ stop' = TRUE /\ failure' = TRUE

Move(c, from, to) == stage[c] = from /\ stage' = [stage EXCEPT ![c] = to]

Owner(o, from, to) == owner[o] = from /\ owner' = [owner EXCEPT ![o] = to]

-----------------------------------------------------------------------------
(***************************************************************************)
(* start()                                                                 *)
(***************************************************************************)
Start(o) ==
    /\ state = "NEW" /\ Owner(o, "idle", "starting")
    /\ state' = "STARTING" /\ started' = FALSE
    /\ UNCHANGED <<stop, failure, accepting, permits, workers, stage, socket, work,
                   closer, swept, doomed, report>>

\* The store's snapshot matched the pinned checkpoint and workflow; the
\* listening socket exists, bound and listening.
Listen(o) ==
    /\ Owner(o, "starting", "listening")
    /\ listener' = "open"
    /\ UNCHANGED <<lifecycle, acceptor, pending, reserved, permits, workers, stage, socket,
                   work, closer, swept, doomed, report>>

\* The address is published and the acceptor started, unless a close came first.
Run(o) ==
    /\ ~stop /\ Owner(o, "listening", "idle")
    /\ state' = "RUNNING" /\ started' = TRUE /\ acceptor' = "looping"
    /\ UNCHANGED <<stop, failure, listener, pending, reserved, permits, workers, stage,
                   socket, work, closer, swept, doomed, report>>

\* start() fails (the store, the socket, the thread, or a close that came first),
\* and goes on to close the service itself.
StartFails(o) ==
    /\ owner[o] \in {"starting", "listening"}
    /\ owner' = [owner EXCEPT ![o] = "entered"]
    /\ Fatal /\ started' = TRUE
    /\ UNCHANGED <<accepting, permits, workers, stage, socket, work,
                   closer, swept, doomed, report>>

-----------------------------------------------------------------------------
(***************************************************************************)
(* _accept, on the acceptor thread, and _reap                              *)
(***************************************************************************)
\* A client connects: the kernel queues it while the listener is open.
Connect(c, r) ==
    /\ listener = "open" /\ Move(c, "unused", "backlog")
    /\ request' = [request EXCEPT ![c] = r]
    /\ UNCHANGED <<lifecycle, accepting, permits, workers, socket, outcome, payload,
                   delivered, core, journal, landed, closing>>

\* Mutants: only close() reaps; a worker is reaped as often as it is found ended.
ReapableByNobody == {}
ReapableAgain == {c \in Connections : stage[c] = "ended"}

\* The thread ended and its socket is closed.
Reapable == {c \in workers : stage[c] = "ended" /\ socket[c] = "closed"}

\* Mutant: the loop only ends with the listener.
LoopEndsWithListener == listener = "none"

LoopEnds == stop \/ listener = "none"

\* The top of the loop: leave it when stopping, else reap and poll the listener.
Loop ==
    /\ acceptor = "looping"
    /\ IF LoopEnds
       THEN acceptor' = "dead" /\ UNCHANGED <<permits, workers>>
       ELSE /\ acceptor' = "polling"
            /\ workers' = workers \ Reapable
            /\ permits' = permits + Cardinality(Reapable)
    /\ UNCHANGED <<lifecycle, listener, pending, reserved, stage, socket, work, closing>>

\* accept() returns a connection, times out after 50 ms, or fails.
Accept(c) ==
    /\ acceptor = "polling" /\ listener = "open" /\ Move(c, "backlog", "accepted")
    /\ acceptor' = "holding" /\ pending' = c
    /\ socket' = [socket EXCEPT ![c] = "open"]
    /\ UNCHANGED <<lifecycle, listener, reserved, permits, workers, work, closing>>

Poll ==
    /\ acceptor = "polling" /\ listener = "open" /\ acceptor' = "looping"
    /\ UNCHANGED <<lifecycle, listener, pending, reserved, permits, workers, stage,
                   socket, work, closing>>

AcceptFails ==
    /\ acceptor = "polling" /\ acceptor' = "dead"
    /\ IF stop THEN UNCHANGED <<state, stop, failure>> ELSE Fatal
    /\ UNCHANGED <<started, listener, pending, reserved, permits, workers, stage, socket,
                   work, closing>>

\* A permit, without waiting; no permit, or a service that stops, drops the connection.
Reserve ==
    /\ acceptor = "holding"
    /\ reserved' = (permits > 0)
    /\ permits' = IF permits > 0 THEN permits - 1 ELSE permits
    /\ acceptor' = IF permits > 0 /\ ~stop THEN "reserved" ELSE "dropping"
    /\ UNCHANGED <<lifecycle, listener, pending, workers, stage, socket, work, closing>>

\* Under the lock: the worker is registered and its thread started.
HandOver ==
    /\ acceptor = "reserved" /\ ~stop
    /\ workers' = workers \cup {pending} /\ Move(pending, "accepted", "reading")
    /\ acceptor' = "looping" /\ pending' = NoConnection /\ reserved' = FALSE
    /\ UNCHANGED <<lifecycle, listener, permits, socket, work, closing>>

\* Under the lock: the service stops, or the thread cannot be started.
HandOverFails ==
    /\ acceptor = "reserved"
    /\ acceptor' = IF stop THEN "dropping" ELSE "failing"
    /\ UNCHANGED <<lifecycle, listener, pending, reserved, permits, workers, stage, socket,
                   work, closing>>

\* Mutants: a dropped connection keeps its permit; one that had none returns one.
KeepPermit == permits
ReturnAPermit == permits + 1

ReturnPermit == IF reserved THEN permits + 1 ELSE permits

\* The connection is not handed over: close it, give the permit back, and stop
\* the service when the close failed or a failure brought us here.
Drop(ok) ==
    /\ acceptor \in {"dropping", "failing"}
    /\ IF ok THEN /\ socket' = [socket EXCEPT ![pending] = "closed"]
                  /\ pending' = NoConnection
             ELSE UNCHANGED <<socket, pending>>
    /\ permits' = ReturnPermit
    /\ reserved' = FALSE
    /\ IF ok /\ acceptor = "dropping"
       THEN acceptor' = "looping" /\ UNCHANGED <<state, stop, failure>>
       ELSE acceptor' = "dead" /\ Fatal
    /\ UNCHANGED <<started, listener, workers, stage, work, closing>>

-----------------------------------------------------------------------------
(***************************************************************************)
(* _worker: _read, _admit, _dispatch, the reply                            *)
(***************************************************************************)
\* _read and _admit: the head, the credential, the rate, the body and its shape.
Admit(c) ==
    /\ Move(c, "reading", "admitted")
    /\ UNCHANGED <<lifecycle, accepting, permits, workers, socket, work, closing>>

\* The worker ends its request with a frame; a worker in the core leaves it.
Answer(c, from, frame, o) ==
    /\ Move(c, from, "replying")
    /\ payload' = [payload EXCEPT ![c] = frame]
    /\ outcome' = [outcome EXCEPT ![c] = o]
    /\ core' = IF core = c THEN NoConnection ELSE core
    /\ UNCHANGED <<lifecycle, accepting, permits, workers, socket, request, delivered, closing>>

Diagnostic(status, o) == [status |-> status, outcome |-> o, found |-> FALSE]

\* Anything wrong with the request, a deadline, a disconnect, or a service that
\* stops: nothing was tried.
Reject(c) ==
    /\ Answer(c, "reading", Diagnostic("refused", "none"), "none")
    /\ UNCHANGED <<journal, landed>>

\* The core is free and the service does not stop.
Enter(c) ==
    /\ core = NoConnection /\ ~stop /\ Move(c, "admitted", "core")
    /\ core' = c
    /\ UNCHANGED <<lifecycle, accepting, permits, workers, socket, request, outcome, payload,
                   delivered, journal, landed, closing>>

\* The core stays taken for too long, or the service stops.
Unavailable(c) ==
    /\ Answer(c, "admitted", Diagnostic("unavailable", "none"), "none")
    /\ UNCHANGED <<journal, landed>>

InJournal(r) == \E i \in DOMAIN journal : journal[i] = [r EXCEPT !.op = "append"]
IdUsed(r) == \E i \in DOMAIN journal : journal[i].id = r.id

\* The store's COMMIT becomes durable inside store.append.
Land(c) ==
    /\ stage[c] = "core" /\ c \notin landed /\ request[c].op = "append"
    /\ ~IdUsed(request[c]) /\ request[c].expected = Len(journal)
    /\ Len(journal) < MaxJournal
    /\ journal' = Append(journal, request[c])
    /\ landed' = landed \cup {c}
    /\ UNCHANGED <<lifecycle, accepting, permits, workers, stage, socket, request, outcome,
                   payload, delivered, core, closing>>

\* Another process appends to the same store.
OtherCommit(r) ==
    /\ ~IdUsed(r) /\ r.op = "append" /\ r.expected = Len(journal) /\ Len(journal) < MaxJournal
    /\ journal' = Append(journal, r)
    /\ UNCHANGED <<lifecycle, accepting, permits, workers, stage, socket, request, outcome,
                   payload, delivered, core, landed, closing>>

\* The store returns: the request's own commit, the historical one, a snapshot or absence.
StoreReturns(c) ==
    /\ \/ request[c].op = "snapshot"
       \/ request[c].op = "lookup" /\ (InJournal(request[c]) \/ ~IdUsed(request[c]))
       \/ request[c].op = "append" /\ InJournal(request[c])
    /\ Move(c, "core", "returned")
    /\ outcome' = [outcome EXCEPT ![c] =
           IF request[c].op # "snapshot" /\ InJournal(request[c]) THEN "complete" ELSE "none"]
    /\ UNCHANGED <<lifecycle, accepting, permits, workers, socket, request, payload, delivered,
                   core, journal, landed, closing>>

\* The response is built, or cannot be (too large): the outcome stays what it was.
\* An absent lookup and a snapshot carry outcome none.
Respond(c) ==
    /\ Answer(c, "returned", [status |-> "ok", outcome |-> outcome[c],
                              found |-> outcome[c] = "complete"], outcome[c])
    /\ UNCHANGED <<journal, landed>>

\* Mutant: the error decides, whatever was completed before it.
ObserveRefusal(c) == "none"

\* _Operation.observe on a ValidationError: a completed operation stays completed.
Observe(c) == IF outcome[c] = "complete" THEN "complete" ELSE "none"

RespondFails(c) ==
    /\ Answer(c, "returned",
              Diagnostic(IF Observe(c) = "complete" THEN "internal" ELSE "refused", Observe(c)),
              Observe(c))
    /\ UNCHANGED <<journal, landed>>

\* The store refuses: a conflict or a rejected batch, with nothing committed.
StoreRefuses(c) ==
    /\ c \notin landed
    /\ Answer(c, "core", Diagnostic("refused", "none"), "none")
    /\ UNCHANGED <<journal, landed>>

\* The store raises: a WorkflowStorageError with the outcome the store vouches
\* for, or any other exception, which observe() turns into "unknown" once the
\* store was called.
StoreRaises(c, o) ==
    /\ o = "none" => c \notin landed
    /\ o = "complete" => request[c].op # "snapshot" /\ InJournal(request[c])
    /\ o = "unknown" => request[c].op # "snapshot"
    /\ \E status \in (IF o = "unknown" THEN {"unavailable", "internal"} ELSE {"unavailable"}) :
           Answer(c, "core", Diagnostic(status, o), o)
    /\ UNCHANGED <<journal, landed>>

\* A control exception inside the store: no reply, and the service stops.
StoreInterrupted(c) ==
    /\ Move(c, "core", "closing")
    /\ outcome' = [outcome EXCEPT ![c] = IF request[c].op = "snapshot" THEN "none" ELSE "unknown"]
    /\ core' = NoConnection
    /\ Fatal
    /\ UNCHANGED <<started, accepting, permits, workers, socket, request, payload, delivered,
                   journal, landed, closing>>

\* The frame is written, or the peer or a shutdown got in the way.
Send(c, ok) ==
    /\ ok => socket[c] = "open"
    /\ Move(c, "replying", "closing")
    /\ delivered' = IF ok THEN delivered \cup {c} ELSE delivered
    /\ UNCHANGED <<lifecycle, accepting, permits, workers, socket, request, outcome, payload,
                   core, journal, landed, closing>>

\* The worker closes its socket and ends; a failing close stops the service.
End(c, ok) ==
    /\ Move(c, "closing", "ended")
    /\ IF ok THEN /\ socket' = [socket EXCEPT ![c] = "closed"]
                  /\ UNCHANGED <<state, stop, failure>>
             ELSE Fatal /\ UNCHANGED socket
    /\ UNCHANGED <<started, accepting, permits, workers, work, closing>>

-----------------------------------------------------------------------------
(***************************************************************************)
(* close(), on any number of owner threads                                 *)
(***************************************************************************)
CloseEnter(o) ==
    /\ Owner(o, "idle", "entered")
    /\ stop' = TRUE
    /\ state' = IF state = "CLOSED" THEN state ELSE "DRAINING"
    /\ report' = [report EXCEPT ![o] = "nothing"]
    /\ UNCHANGED <<started, failure, accepting, permits, workers, stage, socket, work,
                   closer, swept, doomed>>

CloseLock(o) ==
    /\ closer = NoOwner /\ Owner(o, "entered", "owning")
    /\ closer' = o
    /\ UNCHANGED <<lifecycle, accepting, permits, workers, stage, socket, work,
                   swept, doomed, report>>

\* Mutant: close() does not wait for a start() that is under way.
StartNotAwaited == TRUE

StartDone == started

\* start() is over; the listener is closed (or fails to) and the workers are taken.
CloseListener(o, ok) ==
    /\ StartDone /\ Owner(o, "owning", "sweeping")
    /\ listener' = IF ok THEN "none" ELSE listener
    /\ swept' = workers
    /\ UNCHANGED <<lifecycle, acceptor, pending, reserved, permits, workers, stage, socket,
                   work, closer, doomed, report>>

\* record.phase is read without the lock, and the socket is shut down later.
Sweep(o) ==
    /\ Owner(o, "sweeping", "shutting")
    /\ doomed' = {c \in swept : stage[c] \in {"reading", "admitted"} /\ socket[c] # "closed"}
    /\ UNCHANGED <<lifecycle, accepting, permits, workers, stage, socket, work,
                   closer, swept, report>>

Shut(o) ==
    /\ Owner(o, "shutting", "joining")
    /\ socket' = [c \in Connections |->
           IF c \in doomed /\ socket[c] = "open" THEN "shut" ELSE socket[c]]
    /\ doomed' = {}
    /\ UNCHANGED <<lifecycle, accepting, permits, workers, stage, work, closer, swept, report>>

\* Every thread taken was joined, or the join of the last one timed out.
Join(o) ==
    /\ Owner(o, "joining", "settling")
    /\ UNCHANGED <<lifecycle, accepting, permits, workers, stage, socket, work,
                   closer, swept, doomed, report>>

\* close() returns or raises, and gives the close lock up if it holds it.
Leave(o, r) ==
    /\ owner' = [owner EXCEPT ![o] = "idle"]
    /\ report' = [report EXCEPT ![o] = r]
    /\ closer' = IF closer = o THEN NoOwner ELSE closer
    /\ swept' = IF closer = o THEN {} ELSE swept
    /\ doomed' = IF closer = o THEN {} ELSE doomed

\* What close() can clean up once the threads are joined.
Ended == {c \in swept : stage[c] = "ended"}
Orphan == IF acceptor \in {"none", "dead"} THEN {pending} \cap Connections ELSE {}

\* Mutant: the final check trusts the joins.
ListenerClosed(left, orphan) == listener = "none"

NothingRetained(left, orphan) ==
    /\ listener = "none" /\ orphan = NoConnection
    /\ left = {} /\ acceptor \in {"none", "dead"}

\* The sockets that workers and the acceptor could not close are closed, those in
\* `stuck` excepted; _reap; and CLOSED only if nothing is retained.
Settle(o, stuck) ==
    LET shut == (Ended \cup Orphan) \ stuck
        done == {c \in workers : stage[c] = "ended" /\ (socket[c] = "closed" \/ c \in shut)}
    IN  /\ owner[o] = "settling"
        /\ socket' = [c \in Connections |-> IF c \in shut THEN "closed" ELSE socket[c]]
        /\ pending' = IF pending \in shut THEN NoConnection ELSE pending
        /\ workers' = workers \ done
        /\ permits' = permits + Cardinality(done)
        /\ IF NothingRetained(workers', pending')
           THEN state' = "CLOSED" /\ Leave(o, IF failure THEN "failed" ELSE "closed")
           ELSE state' = state /\ Leave(o, "retained")
        /\ UNCHANGED <<stop, started, failure, listener, acceptor, reserved, stage, work>>

\* Mutant: the close lock is waited for without a deadline.
WaitsOwning == {"owning", "joining"}

BoundedWaits == {"entered", "owning", "joining"}

\* The deadline passes while close() waits for the lock, for start() or for a thread.
CloseTimesOut(o) ==
    /\ owner[o] \in BoundedWaits
    /\ Leave(o, "retained")
    /\ UNCHANGED <<lifecycle, accepting, permits, workers, stage, socket, work>>

-----------------------------------------------------------------------------
Acceptor ==
    \/ Loop
    \/ \E c \in Connections : Accept(c)
    \/ Poll
    \/ AcceptFails
    \/ Reserve
    \/ HandOver
    \/ HandOverFails
    \/ \E ok \in BOOLEAN : Drop(ok)

Worker(c) ==
    \/ Admit(c)
    \/ Reject(c)
    \/ Enter(c)
    \/ Unavailable(c)
    \/ Land(c)
    \/ StoreReturns(c)
    \/ StoreRefuses(c)
    \/ \E o \in {"none", "unknown", "complete"} : StoreRaises(c, o)
    \/ StoreInterrupted(c)
    \/ Respond(c)
    \/ RespondFails(c)
    \/ \E ok \in BOOLEAN : Send(c, ok)
    \/ \E ok \in BOOLEAN : End(c, ok)

Starter(o) == Listen(o) \/ Run(o) \/ StartFails(o)

Closer(o) ==
    \/ CloseLock(o)
    \/ \E ok \in BOOLEAN : CloseListener(o, ok)
    \/ Sweep(o)
    \/ Shut(o)
    \/ Join(o)
    \/ \E stuck \in SUBSET Connections : Settle(o, stuck)
    \/ CloseTimesOut(o)

\* What the service's own threads and its owners do; clients connect and other
\* processes append in the modules that extend this one.
Service ==
    \/ Acceptor
    \/ \E c \in Connections : Worker(c)
    \/ \E o \in Owners : Start(o) \/ Starter(o) \/ CloseEnter(o) \/ Closer(o)

Others == \E r \in Requests : OtherCommit(r)

Next == Service \/ Others \/ \E c \in Connections, r \in Requests : Connect(c, r)

Spec == Init /\ [][Next]_vars

\* Threads keep running: every wait of theirs has a deadline or ends with the
\* store call, whose own locks time out.  Clients and owners need not come back.
FairSpec ==
    /\ Spec
    /\ WF_vars(Acceptor)
    /\ \A c \in Connections : WF_vars(Worker(c))
    /\ \A o \in Owners : WF_vars(Starter(o)) /\ WF_vars(Closer(o))

-----------------------------------------------------------------------------
(***************************************************************************)
(* Type invariant.                                                         *)
(***************************************************************************)
TypeOK ==
    /\ state \in {"NEW", "STARTING", "RUNNING", "DRAINING", "CLOSED"}
    /\ stop \in BOOLEAN /\ started \in BOOLEAN /\ failure \in BOOLEAN
    /\ listener \in {"none", "open"}
    /\ acceptor \in {"none", "looping", "polling", "holding", "reserved", "dropping",
                     "failing", "dead"}
    /\ pending \in Connections \cup {NoConnection}
    /\ reserved \in BOOLEAN /\ permits \in 0..MaxWorkers
    /\ workers \subseteq Connections
    /\ stage \in [Connections -> {"unused", "backlog", "accepted", "ended"} \cup Alive]
    /\ socket \in [Connections -> {"none", "open", "shut", "closed"}]
    /\ request \in [Connections -> Requests \cup {NoRequest}]
    /\ outcome \in [Connections -> {"none", "unknown", "complete"}]
    /\ payload \in [Connections -> Frame \cup {NoFrame}]
    /\ delivered \subseteq Connections /\ core \in Connections \cup {NoConnection}
    /\ journal \in Seq(Requests) /\ landed \subseteq Connections
    /\ owner \in [Owners -> {"idle", "starting", "listening", "entered", "owning",
                             "sweeping", "shutting", "joining", "settling"}]
    /\ closer \in Owners \cup {NoOwner}
    /\ swept \subseteq Connections /\ doomed \subseteq Connections
    /\ report \in [Owners -> {"nothing", "closed", "failed", "retained"}]

(***************************************************************************)
(* No path of the acceptor, of a worker or of close() loses a permit or    *)
(* returns one twice: every permit that is out belongs to a registered     *)
(* worker or to the connection the acceptor is about to hand over.         *)
(***************************************************************************)
PermitsAccounted ==
    permits + Cardinality(workers) + (IF reserved THEN 1 ELSE 0) = MaxWorkers

(***************************************************************************)
(* CLOSED is only announced when nothing is left: no listener, no thread,  *)
(* no socket, no permit, nobody in the store, and no start() that could    *)
(* still bring the service up.                                             *)
(***************************************************************************)
ClosedOwnsNothing ==
    state = "CLOSED" =>
        /\ listener = "none" /\ acceptor \in {"none", "dead"} /\ started
        /\ workers = {} /\ permits = MaxWorkers /\ core = NoConnection
        /\ \A c \in Connections : socket[c] \in {"none", "closed"} /\ stage[c] \notin Alive

(***************************************************************************)
(* What a worker's reply says of the attempt is true, whatever failed and  *)
(* whoever was closing: "none" only if this attempt committed nothing,     *)
(* "complete" and a result only if the request is in the journal; and an   *)
(* uncertain outcome never travels under a status that promises none.      *)
(***************************************************************************)
RepliesTruthful ==
    \A c \in Connections :
        payload[c] # NoFrame =>
            /\ payload[c].outcome = "none" => c \notin landed
            /\ payload[c].outcome = "complete" => InJournal(request[c])
            /\ payload[c].status = "refused" => payload[c].outcome = "none"

(***************************************************************************)
(* Together: whoever closes and whatever fails, every permit is where it   *)
(* belongs, CLOSED means that nothing is left, and replies tell the truth  *)
(* about the journal.                                                      *)
(***************************************************************************)
ServiceSound == TypeOK /\ PermitsAccounted /\ ClosedOwnsNothing /\ RepliesTruthful

(***************************************************************************)
(* A closed service stays closed and never touches the store again:        *)
(* _fatal, which sets DRAINING whatever the state was, has no caller left. *)
(***************************************************************************)
ClosedIsFinal == [][state = "CLOSED" => state' = "CLOSED" /\ landed' = landed]_vars

(***************************************************************************)
(* Once the service stops, the acceptor and every worker end by themselves.*)
(***************************************************************************)
Drains == stop ~> acceptor \in {"none", "dead"} /\ \A c \in Connections : stage[c] \notin Alive

(***************************************************************************)
(* While the service runs, the permit of a worker that ended comes back.   *)
(***************************************************************************)
PermitsReturn ==
    \A c \in Connections :
        stage[c] = "ended" /\ socket[c] = "closed" ~> c \notin workers \/ stop

(***************************************************************************)
(* close() ends, with the service closed or an error, however many owners  *)
(* close at once.                                                          *)
(***************************************************************************)
CloseEnds == \A o \in Owners : owner[o] = "entered" ~> owner[o] = "idle"
=============================================================================
