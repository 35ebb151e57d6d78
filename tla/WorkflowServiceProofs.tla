------------------------ MODULE WorkflowServiceProofs ------------------------
(***************************************************************************)
(* Proofs about WorkflowService, for any number of owners, connections,    *)
(* workers and requests, about WorkflowClient, for any number of clients   *)
(* in front of it, and about RateLimit, for any actors, rates and clock.   *)
(***************************************************************************)
EXTENDS WorkflowClient, RateLimit, FiniteSetTheorems, SequenceTheorems, TLAPS

-----------------------------------------------------------------------------
(***************************************************************************)
(* The inductive invariant.                                                *)
(***************************************************************************)
\* Permits are counted for finitely many workers.
PermitsFit == IsFiniteSet(workers) /\ PermitsAccounted

\* The registered workers are those whose thread runs, and some that ended.
WorkersFit ==
    /\ \A c \in workers : stage[c] \in Alive \cup {"ended"}
    /\ \A c \in Connections : stage[c] \in Alive => c \in workers

\* What the acceptor holds at each place of its loop.
AcceptorFits ==
    /\ acceptor \in {"none", "looping", "polling"} => pending = NoConnection
    /\ acceptor \in {"holding", "reserved", "dropping", "failing"} => pending # NoConnection
    /\ acceptor \in {"none", "looping", "polling", "holding", "dead"} => ~reserved
    /\ acceptor \in {"reserved", "failing"} => reserved
    /\ pending # NoConnection => stage[pending] = "accepted"

\* A socket that is not closed is still the acceptor's or a registered worker's.
SocketsFit ==
    \A c \in Connections :
        /\ stage[c] \in {"unused", "backlog"} => socket[c] = "none"
        /\ stage[c] = "accepted" => socket[c] = "closed" \/ pending = c
        /\ stage[c] = "ended" => socket[c] = "closed" \/ c \in workers

\* Who holds the core is in the store call or behind it.
CoreFits == core # NoConnection => stage[core] \in {"core", "returned"}

\* What a worker landed is an append of its own, and in the journal.
LandedFits ==
    \A c \in landed :
        /\ request[c].op = "append" /\ InJournal(request[c])
        /\ stage[c] \in {"core", "returned", "replying", "closing", "ended"}

\* The outcome of a store call that returned is true, and so is the frame made from it.
RepliesFit ==
    /\ \A c \in Connections :
           /\ payload[c] # NoFrame => stage[c] \in {"replying", "closing", "ended"}
           /\ stage[c] = "returned" =>
                  /\ outcome[c] # "unknown"
                  /\ outcome[c] = "none" => c \notin landed
                  /\ outcome[c] = "complete" => InJournal(request[c])
    /\ RepliesTruthful

Starting == {"starting", "listening"}
Closing == {"entered", "owning", "sweeping", "shutting", "joining", "settling"}

\* One start() at most is under way, and who closes has waited for its end before it
\* takes the workers.
LifecycleFits ==
    /\ stop <=> state \in {"DRAINING", "CLOSED"}
    /\ state = "NEW" => started
    /\ state = "NEW" \/ ~started => acceptor = "none"
    /\ \A o \in Owners :
           /\ owner[o] \in Starting => ~started
           /\ owner[o] \in Closing => stop
           /\ owner[o] \in Closing \ {"entered", "owning"} => started
    /\ \A o, q \in Owners : owner[o] \in Starting /\ owner[q] \in Starting => o = q

ServiceInv ==
    /\ TypeOK /\ PermitsFit /\ WorkersFit /\ AcceptorFits /\ SocketsFit /\ CoreFits
    /\ LandedFits /\ RepliesFit /\ LifecycleFits /\ ClosedOwnsNothing

-----------------------------------------------------------------------------
\* The types of what a step changes for one connection or one owner.
ServiceTypes ==
    /\ stage \in [Connections -> {"unused", "backlog", "accepted", "ended"} \cup Alive]
    /\ socket \in [Connections -> {"none", "open", "shut", "closed"}]
    /\ request \in [Connections -> Requests \cup {NoRequest}]
    /\ outcome \in [Connections -> {"none", "unknown", "complete"}]
    /\ payload \in [Connections -> Frame \cup {NoFrame}]
    /\ owner \in [Owners -> {"idle", "starting", "listening", "entered", "owning",
                             "sweeping", "shutting", "joining", "settling"}]
    /\ report \in [Owners -> {"nothing", "closed", "failed", "retained"}]

LEMMA TypesOfService ==
    ASSUME ServiceInv PROVE ServiceTypes
BY DEF ServiceInv, TypeOK, ServiceTypes

\* A committed request is in the journal, and stays there.
LEMMA RequestFacts ==
    ASSUME NEW r \in Requests
    PROVE  /\ r # NoRequest /\ r.expected \in Nat
           /\ r.op = "append" => [r EXCEPT !.op = "append"] = r
<1>1. PICK ids : Requests \subseteq [op: Operations, id: ids, expected: Nat]
  BY ServiceAssumption
<1>2. r \in [op: Operations, id: ids, expected: Nat]
  BY <1>1
<1> QED BY <1>2 DEF NoRequest

LEMMA JournalGrows ==
    ASSUME journal \in Seq(Requests), NEW r \in Requests, journal' = Append(journal, r)
    PROVE  /\ journal' \in Seq(Requests)
           /\ \A q : InJournal(q) => InJournal(q)'
           /\ r.op = "append" => \A q : q = r => InJournal(q)'
<1>1. PICK j : j = journal'
  OBVIOUS
<1>2. /\ j \in Seq(Requests) /\ DOMAIN journal \subseteq DOMAIN j
      /\ \A i \in DOMAIN journal : j[i] = journal[i]
      /\ Len(journal) + 1 \in DOMAIN j /\ j[Len(journal) + 1] = r
  BY <1>1, AppendProperties
<1>3. \A q : InJournal(q) => \E i \in DOMAIN j : j[i] = [q EXCEPT !.op = "append"]
  BY <1>2 DEF InJournal
<1>4. r.op = "append" => \E i \in DOMAIN j : j[i] = [r EXCEPT !.op = "append"]
  BY <1>2, RequestFacts
<1> QED BY <1>1, <1>2, <1>3, <1>4 DEF InJournal

\* Permits that come back for workers that go.
LEMMA ReapFacts ==
    ASSUME PermitsFit, NEW done \in SUBSET workers
    PROVE  /\ IsFiniteSet(workers \ done) /\ Cardinality(done) \in Nat
           /\ Cardinality(workers \ done) = Cardinality(workers) - Cardinality(done)
           /\ Cardinality(workers \ done) \in Nat
<1>1. IsFiniteSet(workers) /\ IsFiniteSet(done) /\ workers \cap done = done
  BY FS_Subset DEF PermitsFit
<1>2. Cardinality(workers \ done) = Cardinality(workers) - Cardinality(workers \cap done)
      /\ IsFiniteSet(workers \ done)
  BY <1>1, FS_Difference
<1> QED BY <1>1, <1>2, FS_CardinalityType

\* The permits that are out are at most all of them.
LEMMA PermitsRange ==
    ASSUME TypeOK, PermitsFit
    PROVE  /\ Cardinality(workers) \in Nat /\ permits \in Nat
           /\ permits <= MaxWorkers - Cardinality(workers)
           /\ reserved => permits + 1 <= MaxWorkers - Cardinality(workers)
<1>1. Cardinality(workers) \in Nat
  BY FS_CardinalityType DEF PermitsFit
<1>2. permits \in Nat /\ MaxWorkers \in Nat /\ reserved \in BOOLEAN
  BY ServiceAssumption DEF TypeOK
<1> QED BY <1>1, <1>2 DEF PermitsFit, PermitsAccounted

-----------------------------------------------------------------------------
(***************************************************************************)
(* The steps.                                                              *)
(***************************************************************************)
\* The service answers a request with a frame that is true.
Replies(c, from, frame, o) ==
    /\ Answer(c, from, frame, o) /\ UNCHANGED <<journal, landed>>
    /\ from \in {"reading", "admitted", "core", "returned"}
    /\ frame \in Frame /\ o \in {"none", "unknown", "complete"}
    /\ frame.outcome = "none" => c \notin landed
    /\ frame.outcome = "complete" => InJournal(request[c])
    /\ frame.status = "refused" => frame.outcome = "none"
    /\ frame.found => frame.outcome = "complete"
    /\ frame.status = "ok" => from = "returned" /\ (frame.found <=> outcome[c] = "complete")

LEMMA ReplyFacts ==
    ASSUME ServiceInv, NEW c \in Connections,
           \/ Reject(c) \/ Unavailable(c) \/ StoreRefuses(c) \/ Respond(c) \/ RespondFails(c)
           \/ \E o \in {"none", "unknown", "complete"} : StoreRaises(c, o)
    PROVE  \E from, frame, o : Replies(c, from, frame, o)
<1>1. /\ stage[c] \in {"reading", "admitted"} => c \notin landed
      /\ stage[c] = "returned" =>
             /\ outcome[c] \in {"none", "complete"}
             /\ outcome[c] = "none" => c \notin landed
             /\ outcome[c] = "complete" => InJournal(request[c])
  BY TypesOfService DEF ServiceTypes, ServiceInv, LandedFits, RepliesFit
<1>2. \A status \in {"refused", "unavailable", "internal"}, o \in {"none", "unknown", "complete"} :
          /\ Diagnostic(status, o) \in Frame
          /\ Diagnostic(status, o).outcome = o /\ Diagnostic(status, o).status = status
          /\ ~Diagnostic(status, o).found
  BY DEF Diagnostic, Frame
<1>3. CASE Reject(c)
  <2>1. Replies(c, "reading", Diagnostic("refused", "none"), "none")
    BY <1>1, <1>2, <1>3 DEF Reject, Replies, Answer, Move
  <2> QED BY <2>1
<1>4. CASE Unavailable(c)
  <2>1. Replies(c, "admitted", Diagnostic("unavailable", "none"), "none")
    BY <1>1, <1>2, <1>4 DEF Unavailable, Replies, Answer, Move
  <2> QED BY <2>1
<1>5. CASE StoreRefuses(c)
  <2>1. Replies(c, "core", Diagnostic("refused", "none"), "none")
    BY <1>2, <1>5 DEF StoreRefuses, Replies
  <2> QED BY <2>1
<1>6. CASE Respond(c)
  <2> DEFINE frame == [status |-> "ok", outcome |-> outcome[c],
                       found |-> outcome[c] = "complete"]
  <2>1. stage[c] = "returned" /\ outcome[c] \in {"none", "complete"}
    BY <1>1, <1>6 DEF Respond, Answer, Move
  <2>2. /\ frame \in Frame /\ frame.outcome = outcome[c] /\ frame.status = "ok"
        /\ frame.found <=> outcome[c] = "complete"
    BY <2>1 DEF Frame
  <2>3. Answer(c, "returned", frame, outcome[c]) /\ UNCHANGED <<journal, landed>>
    BY <1>6 DEF Respond
  <2> HIDE DEF frame
  <2>4. Replies(c, "returned", frame, outcome[c])
    BY <1>1, <2>1, <2>2, <2>3 DEF Replies
  <2> QED BY <2>4
<1>7. CASE RespondFails(c)
  <2> DEFINE o == Observe(c)
             status == IF o = "complete" THEN "internal" ELSE "refused"
  <2>1. stage[c] = "returned"
    BY <1>7 DEF RespondFails, Answer, Move
  <2>2. /\ o \in {"none", "complete"}
        /\ o = "none" => c \notin landed
        /\ o = "complete" => InJournal(request[c])
        /\ status \in {"refused", "internal"}
        /\ status = "refused" => o = "none"
    BY <1>1, <2>1 DEF Observe
  <2>3. Answer(c, "returned", Diagnostic(status, o), o) /\ UNCHANGED <<journal, landed>>
    BY <1>7 DEF RespondFails
  <2> HIDE DEF o, status
  <2>5. status \in {"refused", "unavailable", "internal"} /\ o \in {"none", "unknown", "complete"}
    BY <2>2
  <2>6. /\ Diagnostic(status, o) \in Frame
        /\ Diagnostic(status, o).outcome = o /\ Diagnostic(status, o).status = status
        /\ ~Diagnostic(status, o).found
    BY <1>2, <2>5
  <2>4. Replies(c, "returned", Diagnostic(status, o), o)
    BY <2>2, <2>3, <2>5, <2>6 DEF Replies
  <2> QED BY <2>4
<1>8. ASSUME NEW o \in {"none", "unknown", "complete"}, StoreRaises(c, o)
      PROVE  \E from, frame, x : Replies(c, from, frame, x)
  <2>1. PICK status \in {"unavailable", "internal"} :
            Answer(c, "core", Diagnostic(status, o), o)
    BY <1>8 DEF StoreRaises
  <2>2. Replies(c, "core", Diagnostic(status, o), o)
    BY <1>2, <1>8, <2>1 DEF StoreRaises, Replies
  <2> QED BY <2>2
<1> QED BY <1>3, <1>4, <1>5, <1>6, <1>7, <1>8

\* start() of a new service.
LEMMA StartStep ==
    ASSUME ServiceInv, NEW o \in Owners, Start(o)
    PROVE  ServiceInv'
<1>1. ServiceTypes
  BY TypesOfService
<1>2. /\ PermitsFit' /\ WorkersFit' /\ AcceptorFits' /\ SocketsFit'
      /\ CoreFits' /\ LandedFits' /\ RepliesFit'
  BY DEF ServiceInv, PermitsFit, WorkersFit, AcceptorFits, SocketsFit, CoreFits, LandedFits,
         RepliesFit, PermitsAccounted, Alive, InJournal, RepliesTruthful, Start, Owner,
         lifecycle, accepting, work, closing
<1>3. LifecycleFits'
  BY <1>1 DEF ServiceTypes, ServiceInv, LifecycleFits, Starting, Closing, Start, Owner,
              lifecycle, accepting, work, closing
<1>4. ClosedOwnsNothing'
  BY <1>1 DEF ServiceTypes, ServiceInv, ClosedOwnsNothing, Alive, Start, Owner, lifecycle,
              accepting, work, closing
<1>5. TypeOK'
  BY <1>1 DEF ServiceTypes, ServiceInv, TypeOK, Start, Owner, lifecycle, accepting, work,
              closing
<1> QED BY <1>2, <1>3, <1>4, <1>5 DEF ServiceInv

\* The listener is bound by the only start() there is.
LEMMA ListenStep ==
    ASSUME ServiceInv, NEW o \in Owners, Listen(o)
    PROVE  ServiceInv'
<1>1. ServiceTypes
  BY TypesOfService
<1>2. /\ PermitsFit' /\ WorkersFit' /\ AcceptorFits' /\ SocketsFit'
      /\ CoreFits' /\ LandedFits' /\ RepliesFit'
  BY DEF ServiceInv, PermitsFit, WorkersFit, AcceptorFits, SocketsFit, CoreFits, LandedFits,
         RepliesFit, PermitsAccounted, Alive, InJournal, RepliesTruthful, Listen, Owner,
         lifecycle, accepting, work, closing
<1>3. LifecycleFits'
  BY <1>1 DEF ServiceTypes, ServiceInv, LifecycleFits, Starting, Closing, Listen, Owner,
              lifecycle, accepting, work, closing
<1>4. ClosedOwnsNothing'
  BY <1>1 DEF ServiceTypes, ServiceInv, ClosedOwnsNothing, LifecycleFits, Starting, Listen,
              Owner, lifecycle, work
<1>5. TypeOK'
  BY <1>1 DEF ServiceTypes, ServiceInv, TypeOK, Listen, Owner, lifecycle, accepting, work,
              closing
<1> QED BY <1>2, <1>3, <1>4, <1>5 DEF ServiceInv

\* The acceptor thread starts.
LEMMA RunStep ==
    ASSUME ServiceInv, NEW o \in Owners, Run(o)
    PROVE  ServiceInv'
<1>1. ServiceTypes
  BY TypesOfService
<1>2. /\ PermitsFit' /\ WorkersFit' /\ SocketsFit' /\ CoreFits' /\ LandedFits'
      /\ RepliesFit'
  BY DEF ServiceInv, PermitsFit, WorkersFit, SocketsFit, CoreFits, LandedFits, RepliesFit,
         PermitsAccounted, Alive, InJournal, RepliesTruthful, Run, Owner, lifecycle,
         accepting, work, closing
<1>3. AcceptorFits'
  BY <1>1 DEF ServiceTypes, ServiceInv, AcceptorFits, LifecycleFits, Starting, Run, Owner
<1>4. LifecycleFits'
  BY <1>1 DEF ServiceTypes, ServiceInv, LifecycleFits, Starting, Closing, Run, Owner,
              lifecycle, accepting, work, closing
<1>5. ClosedOwnsNothing'
  BY <1>1 DEF ServiceTypes, ServiceInv, ClosedOwnsNothing, Alive, Run, Owner, lifecycle,
              accepting, work, closing
<1>6. TypeOK'
  BY <1>1 DEF ServiceTypes, ServiceInv, TypeOK, Run, Owner, lifecycle, accepting, work,
              closing
<1> QED BY <1>2, <1>3, <1>4, <1>5, <1>6 DEF ServiceInv

\* start() fails and goes on to close().
LEMMA StartFailsStep ==
    ASSUME ServiceInv, NEW o \in Owners, StartFails(o)
    PROVE  ServiceInv'
<1>1. ServiceTypes
  BY TypesOfService
<1>2. /\ PermitsFit' /\ WorkersFit' /\ AcceptorFits' /\ SocketsFit'
      /\ CoreFits' /\ LandedFits' /\ RepliesFit'
  BY DEF ServiceInv, PermitsFit, WorkersFit, AcceptorFits, SocketsFit, CoreFits, LandedFits,
         RepliesFit, PermitsAccounted, Alive, InJournal, RepliesTruthful, StartFails, Fatal,
         accepting, work, closing
<1>3. LifecycleFits'
  BY <1>1 DEF ServiceTypes, ServiceInv, LifecycleFits, Starting, Closing, StartFails, Fatal,
              accepting, work, closing
<1>4. ClosedOwnsNothing'
  BY <1>1 DEF ServiceTypes, ServiceInv, ClosedOwnsNothing, Alive, StartFails, Fatal,
              accepting, work, closing
<1>5. TypeOK'
  BY <1>1 DEF ServiceTypes, ServiceInv, TypeOK, StartFails, Fatal, accepting, work, closing
<1> QED BY <1>2, <1>3, <1>4, <1>5 DEF ServiceInv

\* A client connects.
LEMMA ConnectStep ==
    ASSUME ServiceInv, NEW c \in Connections, NEW r \in Requests, Connect(c, r)
    PROVE  ServiceInv'
<1>1. ServiceTypes
  BY TypesOfService
<1>2. PermitsFit' /\ LifecycleFits'
  BY DEF ServiceInv, PermitsFit, LifecycleFits, PermitsAccounted, Starting, Closing,
         Connect, Move, lifecycle, accepting, work, closing
<1>3. WorkersFit'
  BY <1>1 DEF ServiceTypes, ServiceInv, WorkersFit, Alive, Connect, Move, lifecycle,
              accepting, work, closing
<1>4. AcceptorFits'
  BY <1>1 DEF ServiceTypes, ServiceInv, AcceptorFits, Connect, Move, lifecycle, accepting,
              work, closing
<1>5. SocketsFit'
  BY <1>1 DEF ServiceTypes, ServiceInv, SocketsFit, Connect, Move, lifecycle, accepting,
              work, closing
<1>6. CoreFits'
  BY <1>1 DEF ServiceTypes, ServiceInv, CoreFits, Connect, Move, lifecycle, accepting, work,
              closing
<1>7. LandedFits'
  BY <1>1 DEF ServiceTypes, ServiceInv, LandedFits, InJournal, Connect, Move, lifecycle,
              accepting, work, closing
<1>8. RepliesFit'
  BY <1>1 DEF ServiceTypes, ServiceInv, RepliesFit, RepliesTruthful, InJournal, Connect,
              Move, lifecycle, accepting, work, closing
<1>9. ClosedOwnsNothing'
  BY <1>1 DEF ServiceTypes, ServiceInv, ClosedOwnsNothing, Alive, Connect, Move, lifecycle,
              accepting, work, closing
<1>10. TypeOK'
  BY <1>1 DEF ServiceTypes, ServiceInv, TypeOK, Connect, Move, lifecycle, accepting, work,
              closing
<1> QED BY <1>2, <1>3, <1>4, <1>5, <1>6, <1>7, <1>8, <1>9, <1>10 DEF ServiceInv

\* The acceptor reaps ended workers.
LEMMA LoopStep ==
    ASSUME ServiceInv, Loop
    PROVE  ServiceInv'
<1>1. ServiceTypes
  BY TypesOfService
<1>2. Reapable \in SUBSET workers /\ \A c \in Reapable : stage[c] = "ended" /\ socket[c] = "closed"
  BY DEF Reapable
<1>3. /\ IsFiniteSet(workers \ Reapable) /\ Cardinality(Reapable) \in Nat
      /\ Cardinality(workers \ Reapable) = Cardinality(workers) - Cardinality(Reapable)
      /\ Cardinality(workers \ Reapable) \in Nat
  BY <1>2, ReapFacts DEF ServiceInv
<1>4. /\ Cardinality(workers) \in Nat /\ permits \in Nat
      /\ permits <= MaxWorkers - Cardinality(workers)
      /\ reserved => permits + 1 <= MaxWorkers - Cardinality(workers)
  BY PermitsRange DEF ServiceInv
<1>5. /\ reserved' = reserved /\ stage' = stage /\ socket' = socket /\ pending' = pending
      /\ \/ workers' = workers /\ permits' = permits
         \/ workers' = workers \ Reapable /\ permits' = permits + Cardinality(Reapable)
  BY DEF Loop
<1>7. /\ IsFiniteSet(workers') /\ permits' + Cardinality(workers') = permits + Cardinality(workers)
  BY <1>3, <1>4, <1>5 DEF ServiceInv, PermitsFit
<1>6. permits' \in 0..MaxWorkers
  BY <1>3, <1>4, <1>5, ServiceAssumption DEF ServiceInv, TypeOK
<1>8. CoreFits' /\ LandedFits' /\ RepliesFit'
  BY DEF ServiceInv, CoreFits, LandedFits, RepliesFit, InJournal, RepliesTruthful, Loop,
         lifecycle, accepting, work, closing
<1>9. PermitsFit'
  <2>1. Cardinality(workers') \in Nat /\ permits' \in Nat
    BY <1>3, <1>4, <1>5
  <2> QED BY <1>4, <1>5, <1>7, <2>1 DEF ServiceInv, PermitsFit, PermitsAccounted
<1>10. WorkersFit'
  BY <1>2, <1>5 DEF ServiceInv, WorkersFit, Alive
<1>11. AcceptorFits'
  BY <1>1 DEF ServiceTypes, ServiceInv, AcceptorFits, Loop, lifecycle, accepting, work,
              closing
<1>12. SocketsFit'
  BY <1>2, <1>5 DEF ServiceInv, SocketsFit
<1>13. LifecycleFits'
  BY <1>1 DEF ServiceTypes, ServiceInv, LifecycleFits, Starting, Closing, Loop, lifecycle,
              accepting, work, closing
<1>14. ClosedOwnsNothing'
  BY <1>1 DEF ServiceTypes, ServiceInv, ClosedOwnsNothing, Alive, Loop, lifecycle,
              accepting, work, closing
<1>15. TypeOK'
  BY <1>2, <1>5, <1>6 DEF ServiceInv, TypeOK, Loop, lifecycle, work, closing
<1> QED BY <1>8, <1>9, <1>10, <1>11, <1>12, <1>13, <1>14, <1>15 DEF ServiceInv

\* The acceptor holds a connection.
LEMMA AcceptStep ==
    ASSUME ServiceInv, NEW c \in Connections, Accept(c)
    PROVE  ServiceInv'
<1>1. ServiceTypes
  BY TypesOfService
<1>2. PermitsFit'
  BY DEF ServiceInv, PermitsFit, PermitsAccounted, Accept, Move, lifecycle, accepting, work,
         closing
<1>3. WorkersFit'
  BY <1>1 DEF ServiceTypes, ServiceInv, WorkersFit, Alive, Accept, Move, lifecycle,
              accepting, work, closing
<1>4. AcceptorFits'
  BY <1>1, ServiceAssumption DEF ServiceTypes, ServiceInv, AcceptorFits, Accept, Move
<1>5. SocketsFit'
  BY <1>1, ServiceAssumption DEF ServiceTypes, ServiceInv, SocketsFit, AcceptorFits, Accept,
                                 Move
<1>6. CoreFits'
  BY <1>1 DEF ServiceTypes, ServiceInv, CoreFits, Accept, Move, lifecycle, accepting, work,
              closing
<1>7. LandedFits'
  BY <1>1 DEF ServiceTypes, ServiceInv, LandedFits, InJournal, Accept, Move, lifecycle,
              accepting, work, closing
<1>8. RepliesFit'
  BY <1>1 DEF ServiceTypes, ServiceInv, RepliesFit, RepliesTruthful, InJournal, Accept,
              Move, lifecycle, accepting, work, closing
<1>9. LifecycleFits'
  BY <1>1 DEF ServiceTypes, ServiceInv, LifecycleFits, Starting, Closing, Accept, Move,
              lifecycle, accepting, work, closing
<1>10. ClosedOwnsNothing'
  BY <1>1 DEF ServiceTypes, ServiceInv, ClosedOwnsNothing, Alive, Accept, Move, lifecycle,
              accepting, work, closing
<1>11. TypeOK'
  BY <1>1 DEF ServiceTypes, ServiceInv, TypeOK, Accept, Move, lifecycle, accepting, work,
              closing
<1> QED BY <1>2, <1>3, <1>4, <1>5, <1>6, <1>7, <1>8, <1>9, <1>10, <1>11 DEF ServiceInv

\* Nobody connected, or accept() failed.
LEMMA PollStep ==
    ASSUME ServiceInv, Poll \/ AcceptFails
    PROVE  ServiceInv'
<1>1. ServiceTypes
  BY TypesOfService
<1>2. /\ PermitsFit' /\ WorkersFit' /\ SocketsFit' /\ CoreFits' /\ LandedFits'
      /\ RepliesFit'
  BY DEF ServiceInv, PermitsFit, WorkersFit, SocketsFit, CoreFits, LandedFits, RepliesFit,
         PermitsAccounted, Alive, InJournal, RepliesTruthful, Poll, AcceptFails, Fatal,
         lifecycle, accepting, work, closing
<1>3. AcceptorFits'
  BY <1>1 DEF ServiceTypes, ServiceInv, AcceptorFits, Poll, AcceptFails, Fatal, lifecycle,
              accepting, work, closing
<1>4. LifecycleFits'
  BY <1>1 DEF ServiceTypes, ServiceInv, LifecycleFits, Starting, Closing, Poll, AcceptFails,
              Fatal, lifecycle, accepting, work, closing
<1>5. ClosedOwnsNothing'
  BY <1>1 DEF ServiceTypes, ServiceInv, ClosedOwnsNothing, Alive, Poll, AcceptFails, Fatal,
              lifecycle, accepting, work, closing
<1>6. TypeOK'
  BY <1>1 DEF ServiceTypes, ServiceInv, TypeOK, Poll, AcceptFails, Fatal, lifecycle,
              accepting, work, closing
<1> QED BY <1>2, <1>3, <1>4, <1>5, <1>6 DEF ServiceInv

\* The acceptor takes a permit or drops the connection.
LEMMA ReserveStep ==
    ASSUME ServiceInv, Reserve
    PROVE  ServiceInv'
<1>1. ServiceTypes
  BY TypesOfService
<1>2. /\ Cardinality(workers) \in Nat /\ permits \in Nat /\ MaxWorkers \in Nat
      /\ permits <= MaxWorkers - Cardinality(workers)
  BY PermitsRange, ServiceAssumption DEF ServiceInv
<1>3. /\ workers' = workers /\ ~reserved
      /\ permits > 0 => reserved' /\ permits' = permits - 1
      /\ ~(permits > 0) => ~reserved' /\ permits' = permits
      /\ reserved' \in BOOLEAN
  <2>1. /\ workers' = workers /\ ~reserved /\ reserved' = (permits > 0)
        /\ permits' = IF permits > 0 THEN permits - 1 ELSE permits
    BY DEF ServiceInv, AcceptorFits, Reserve
  <2>2. CASE permits > 0
    <3>1. reserved' = TRUE
      BY <2>1, <2>2, Zenon
    <3> QED BY <2>1, <2>2, <3>1
  <2>3. CASE ~(permits > 0)
    <3>1. (permits > 0) = FALSE
      BY <2>3
    <3>2. reserved' = FALSE
      BY <2>1, <3>1
    <3> QED BY <2>1, <2>3, <3>2
  <2> QED BY <2>1, <2>2, <2>3
<1>4. WorkersFit' /\ SocketsFit' /\ CoreFits' /\ LandedFits' /\ RepliesFit'
  BY DEF ServiceInv, WorkersFit, SocketsFit, CoreFits, LandedFits, RepliesFit, Alive,
         InJournal, RepliesTruthful, Reserve, lifecycle, accepting, work, closing
<1>5. PermitsFit'
  BY <1>2, <1>3 DEF ServiceInv, PermitsFit, PermitsAccounted
<1>6. AcceptorFits'
  BY <1>1 DEF ServiceTypes, ServiceInv, AcceptorFits, Reserve, lifecycle, accepting, work,
              closing
<1>7. LifecycleFits'
  BY <1>1 DEF ServiceTypes, ServiceInv, LifecycleFits, Starting, Closing, Reserve,
              lifecycle, accepting, work, closing
<1>8. ClosedOwnsNothing'
  BY <1>1 DEF ServiceTypes, ServiceInv, ClosedOwnsNothing, Alive, Reserve, lifecycle,
              accepting, work, closing
<1>9. TypeOK'
  BY <1>2, <1>3 DEF ServiceInv, TypeOK, Reserve, lifecycle, work, closing
<1> QED BY <1>4, <1>5, <1>6, <1>7, <1>8, <1>9 DEF ServiceInv

\* The permit goes to the worker.
LEMMA HandOverStep ==
    ASSUME ServiceInv, HandOver
    PROVE  ServiceInv'
<1>1. ServiceTypes
  BY TypesOfService
<1>2. pending \in Connections /\ stage[pending] = "accepted" /\ reserved
  BY DEF ServiceInv, TypeOK, AcceptorFits, HandOver
<1>3. pending \notin workers
  BY <1>2 DEF ServiceInv, WorkersFit, Alive
<1>4. /\ workers' = workers \cup {pending} /\ reserved' = FALSE /\ permits' = permits
      /\ pending' = NoConnection /\ acceptor' = "looping"
      /\ stage' = [stage EXCEPT ![pending] = "reading"]
  BY DEF HandOver, Move
<1>5. /\ IsFiniteSet(workers') /\ Cardinality(workers') = Cardinality(workers) + 1
      /\ Cardinality(workers) \in Nat /\ permits \in Nat
  BY <1>3, <1>4, FS_AddElement, PermitsRange DEF ServiceInv, PermitsFit
<1>6. /\ stage'[pending] = "reading"
      /\ \A d \in Connections : d # pending => stage'[d] = stage[d]
  BY <1>1, <1>2, <1>4 DEF ServiceTypes
<1>7. PermitsFit'
  BY <1>2, <1>4, <1>5, ServiceAssumption DEF ServiceInv, PermitsFit, PermitsAccounted
<1>8. WorkersFit'
  BY <1>2, <1>4, <1>6 DEF ServiceInv, WorkersFit, TypeOK, Alive
<1>9. AcceptorFits'
  BY <1>2, <1>4, <1>6 DEF ServiceInv, AcceptorFits
<1>10. SocketsFit'
  BY <1>2, <1>4, <1>6 DEF ServiceInv, SocketsFit, HandOver
<1>11. CoreFits'
  BY <1>1 DEF ServiceTypes, ServiceInv, CoreFits, HandOver, Move, lifecycle, accepting,
              work, closing
<1>12. LandedFits'
  BY <1>1 DEF ServiceTypes, ServiceInv, LandedFits, InJournal, HandOver, Move, lifecycle,
              accepting, work, closing
<1>13. RepliesFit'
  BY <1>1 DEF ServiceTypes, ServiceInv, RepliesFit, RepliesTruthful, InJournal, HandOver,
              Move, lifecycle, accepting, work, closing
<1>14. LifecycleFits'
  BY <1>1 DEF ServiceTypes, ServiceInv, LifecycleFits, Starting, Closing, HandOver, Move,
              lifecycle, accepting, work, closing
<1>15. ClosedOwnsNothing'
  BY <1>2 DEF ServiceInv, ClosedOwnsNothing, AcceptorFits, LifecycleFits, HandOver,
              lifecycle
<1>16. TypeOK'
  BY <1>1, <1>2, <1>4 DEF ServiceInv, TypeOK, Alive, ServiceTypes, HandOver, lifecycle,
                          work, closing
<1> QED BY <1>7, <1>8, <1>9, <1>10, <1>11, <1>12, <1>13, <1>14, <1>15, <1>16 DEF ServiceInv

\* No worker takes the connection.
LEMMA HandOverFailsStep ==
    ASSUME ServiceInv, HandOverFails
    PROVE  ServiceInv'
<1>1. ServiceTypes
  BY TypesOfService
<1>2. /\ PermitsFit' /\ WorkersFit' /\ SocketsFit' /\ CoreFits' /\ LandedFits'
      /\ RepliesFit'
  BY DEF ServiceInv, PermitsFit, WorkersFit, SocketsFit, CoreFits, LandedFits, RepliesFit,
         PermitsAccounted, Alive, InJournal, RepliesTruthful, HandOverFails, lifecycle,
         accepting, work, closing
<1>3. AcceptorFits'
  BY <1>1 DEF ServiceTypes, ServiceInv, AcceptorFits, HandOverFails, lifecycle, accepting,
              work, closing
<1>4. LifecycleFits'
  BY <1>1 DEF ServiceTypes, ServiceInv, LifecycleFits, Starting, Closing, HandOverFails,
              lifecycle, accepting, work, closing
<1>5. ClosedOwnsNothing'
  BY <1>1 DEF ServiceTypes, ServiceInv, ClosedOwnsNothing, Alive, HandOverFails, lifecycle,
              accepting, work, closing
<1>6. TypeOK'
  BY <1>1 DEF ServiceTypes, ServiceInv, TypeOK, HandOverFails, lifecycle, accepting, work,
              closing
<1> QED BY <1>2, <1>3, <1>4, <1>5, <1>6 DEF ServiceInv

\* A dropped connection gives back the permit it had.
LEMMA DropStep ==
    ASSUME ServiceInv, NEW ok \in BOOLEAN, Drop(ok)
    PROVE  ServiceInv'
<1>1. ServiceTypes
  BY TypesOfService
<1>2. pending \in Connections /\ stage[pending] = "accepted" /\ stage' = stage /\ workers' = workers
  BY DEF ServiceInv, TypeOK, AcceptorFits, Drop
<1>3. /\ Cardinality(workers) \in Nat /\ permits \in Nat /\ MaxWorkers \in Nat
      /\ permits <= MaxWorkers - Cardinality(workers)
      /\ reserved => permits + 1 <= MaxWorkers - Cardinality(workers)
  BY PermitsRange, ServiceAssumption DEF ServiceInv
<1>4. /\ reserved' = FALSE
      /\ \/ reserved /\ permits' = permits + 1
         \/ ~reserved /\ permits' = permits
  BY DEF Drop, ReturnPermit, ServiceInv, TypeOK
<1>6. permits' \in 0..MaxWorkers /\ reserved' \in BOOLEAN
  <2>1. ASSUME reserved, permits' = permits + 1 PROVE permits' \in 0..MaxWorkers
    BY <1>3, <2>1
  <2>2. ASSUME permits' = permits PROVE permits' \in 0..MaxWorkers
    BY <1>3, <2>2
  <2> QED BY <1>4, <2>1, <2>2
<1>7. /\ socket' \in [Connections -> {"none", "open", "shut", "closed"}]
      /\ pending' \in Connections \cup {NoConnection}
      /\ state' \in {"NEW", "STARTING", "RUNNING", "DRAINING", "CLOSED"}
      /\ stop' \in BOOLEAN /\ failure' \in BOOLEAN /\ acceptor' \in {"looping", "dead"}
  BY <1>1, <1>2 DEF ServiceTypes, ServiceInv, TypeOK, Drop, Fatal
<1>5. /\ pending' \in {pending, NoConnection} /\ socket'[pending] \in {socket[pending], "closed"}
      /\ pending' # pending => socket'[pending] = "closed"
      /\ \A d \in Connections : d # pending => socket'[d] = socket[d]
  BY <1>1, <1>2 DEF ServiceTypes, Drop
<1>8. WorkersFit' /\ CoreFits' /\ LandedFits' /\ RepliesFit'
  BY DEF ServiceInv, WorkersFit, CoreFits, LandedFits, RepliesFit, Alive, InJournal,
         RepliesTruthful, Drop, Fatal, ReturnPermit, lifecycle, accepting, work, closing
<1>9. PermitsFit'
  BY <1>2, <1>3, <1>4 DEF ServiceInv, PermitsFit, PermitsAccounted
<1>10. AcceptorFits'
  BY <1>1 DEF ServiceTypes, ServiceInv, AcceptorFits, Drop, Fatal, ReturnPermit, lifecycle,
              accepting, work, closing
<1>11. SocketsFit'
  BY <1>2, <1>5 DEF ServiceInv, SocketsFit
<1>12. LifecycleFits'
  BY <1>1 DEF ServiceTypes, ServiceInv, LifecycleFits, Starting, Closing, Drop, Fatal,
              ReturnPermit, lifecycle, accepting, work, closing
<1>13. ClosedOwnsNothing'
  BY <1>1 DEF ServiceTypes, ServiceInv, ClosedOwnsNothing, Alive, Drop, Fatal, ReturnPermit,
              lifecycle, accepting, work, closing
<1>14. TypeOK'
  BY <1>2, <1>6, <1>7 DEF ServiceInv, TypeOK, Drop, work, closing
<1> QED BY <1>8, <1>9, <1>10, <1>11, <1>12, <1>13, <1>14 DEF ServiceInv

\* A request is read and admitted.
LEMMA AdmitStep ==
    ASSUME ServiceInv, NEW c \in Connections, Admit(c)
    PROVE  ServiceInv'
<1>1. ServiceTypes
  BY TypesOfService
<1>2. PermitsFit' /\ LifecycleFits'
  BY DEF ServiceInv, PermitsFit, LifecycleFits, PermitsAccounted, Starting, Closing, Admit,
         Move, lifecycle, accepting, work, closing
<1>3. WorkersFit'
  BY <1>1 DEF ServiceTypes, ServiceInv, WorkersFit, Alive, Admit, Move, lifecycle,
              accepting, work, closing
<1>4. AcceptorFits'
  BY <1>1 DEF ServiceTypes, ServiceInv, AcceptorFits, Admit, Move, lifecycle, accepting,
              work, closing
<1>5. SocketsFit'
  BY <1>1 DEF ServiceTypes, ServiceInv, SocketsFit, Admit, Move, lifecycle, accepting, work,
              closing
<1>6. CoreFits'
  BY <1>1 DEF ServiceTypes, ServiceInv, CoreFits, Admit, Move, lifecycle, accepting, work,
              closing
<1>7. LandedFits'
  BY <1>1 DEF ServiceTypes, ServiceInv, LandedFits, InJournal, Admit, Move, lifecycle,
              accepting, work, closing
<1>8. RepliesFit'
  BY <1>1 DEF ServiceTypes, ServiceInv, RepliesFit, RepliesTruthful, InJournal, Admit, Move,
              lifecycle, accepting, work, closing
<1>9. ClosedOwnsNothing'
  BY <1>1 DEF ServiceTypes, ServiceInv, ClosedOwnsNothing, Alive, Admit, Move, lifecycle,
              accepting, work, closing
<1>10. TypeOK'
  BY <1>1 DEF ServiceTypes, ServiceInv, TypeOK, Alive, Admit, Move, lifecycle, accepting,
              work, closing
<1> QED BY <1>2, <1>3, <1>4, <1>5, <1>6, <1>7, <1>8, <1>9, <1>10 DEF ServiceInv

\* A frame is made.
LEMMA ReplyStep ==
    ASSUME ServiceInv, NEW c \in Connections, NEW from, NEW frame, NEW o,
           Replies(c, from, frame, o)
    PROVE  ServiceInv'
<1>1. ServiceTypes
  BY TypesOfService
<1>2. PermitsFit' /\ LifecycleFits'
  BY DEF ServiceInv, PermitsFit, LifecycleFits, PermitsAccounted, Starting, Closing,
         Replies, Answer, Move, lifecycle, accepting, work, closing
<1>3. WorkersFit'
  BY <1>1 DEF ServiceTypes, ServiceInv, WorkersFit, Alive, Replies, Answer, Move, lifecycle,
              accepting, work, closing
<1>4. AcceptorFits'
  BY <1>1 DEF ServiceTypes, ServiceInv, AcceptorFits, Replies, Answer, Move, lifecycle,
              accepting, work, closing
<1>5. SocketsFit'
  BY <1>1 DEF ServiceTypes, ServiceInv, SocketsFit, Replies, Answer, Move, lifecycle,
              accepting, work, closing
<1>6. CoreFits'
  BY <1>1 DEF ServiceTypes, ServiceInv, CoreFits, Replies, Answer, Move, lifecycle,
              accepting, work, closing
<1>7. LandedFits'
  BY <1>1 DEF ServiceTypes, ServiceInv, LandedFits, InJournal, Replies, Answer, Move,
              lifecycle, accepting, work, closing
<1>8. RepliesFit'
  BY <1>1 DEF ServiceTypes, ServiceInv, RepliesFit, RepliesTruthful, InJournal, Replies,
              Answer, Move, lifecycle, accepting, work, closing
<1>9. ClosedOwnsNothing'
  BY <1>1 DEF ServiceTypes, ServiceInv, ClosedOwnsNothing, Alive, Replies, Answer, Move,
              lifecycle, accepting, work, closing
<1>10. TypeOK'
  BY <1>1 DEF ServiceTypes, ServiceInv, TypeOK, Alive, Replies, Answer, Move, lifecycle,
              accepting, work, closing
<1> QED BY <1>2, <1>3, <1>4, <1>5, <1>6, <1>7, <1>8, <1>9, <1>10 DEF ServiceInv

\* A worker enters the core.
LEMMA EnterStep ==
    ASSUME ServiceInv, NEW c \in Connections, Enter(c)
    PROVE  ServiceInv'
<1>1. ServiceTypes
  BY TypesOfService
<1>2. PermitsFit' /\ LifecycleFits'
  BY DEF ServiceInv, PermitsFit, LifecycleFits, PermitsAccounted, Starting, Closing, Enter,
         Move, lifecycle, accepting, work, closing
<1>3. WorkersFit'
  BY <1>1 DEF ServiceTypes, ServiceInv, WorkersFit, Alive, Enter, Move, lifecycle,
              accepting, work, closing
<1>4. AcceptorFits'
  BY <1>1 DEF ServiceTypes, ServiceInv, AcceptorFits, Enter, Move, lifecycle, accepting,
              work, closing
<1>5. SocketsFit'
  BY <1>1 DEF ServiceTypes, ServiceInv, SocketsFit, Enter, Move, lifecycle, accepting, work,
              closing
<1>6. CoreFits'
  BY <1>1 DEF ServiceTypes, ServiceInv, CoreFits, Enter, Move, lifecycle, accepting, work,
              closing
<1>7. LandedFits'
  BY <1>1 DEF ServiceTypes, ServiceInv, LandedFits, InJournal, Enter, Move, lifecycle,
              accepting, work, closing
<1>8. RepliesFit'
  BY <1>1 DEF ServiceTypes, ServiceInv, RepliesFit, RepliesTruthful, InJournal, Enter, Move,
              lifecycle, accepting, work, closing
<1>9. ClosedOwnsNothing'
  BY <1>1 DEF ServiceTypes, ServiceInv, ClosedOwnsNothing, Alive, Enter, Move, lifecycle,
              accepting, work, closing
<1>10. TypeOK'
  BY <1>1 DEF ServiceTypes, ServiceInv, TypeOK, Alive, Enter, Move, lifecycle, accepting,
              work, closing
<1> QED BY <1>2, <1>3, <1>4, <1>5, <1>6, <1>7, <1>8, <1>9, <1>10 DEF ServiceInv

\* A worker's append becomes durable.
LEMMA LandStep ==
    ASSUME ServiceInv, NEW c \in Connections, Land(c)
    PROVE  ServiceInv'
<1>1. ServiceTypes
  BY TypesOfService
<1>2. request[c] \in Requests /\ request[c].op = "append"
  BY <1>1 DEF ServiceTypes, Land, NoRequest
<1>3. /\ journal' \in Seq(Requests) /\ \A q : InJournal(q) => InJournal(q)'
      /\ \A q : q = request[c] => InJournal(q)'
  <2>1. journal \in Seq(Requests) /\ journal' = Append(journal, request[c])
    BY DEF ServiceInv, TypeOK, Land
  <2>2. PICK r \in Requests : r = request[c]
    BY <1>2
  <2>3. /\ journal' \in Seq(Requests) /\ \A q : InJournal(q) => InJournal(q)'
        /\ \A q : q = r => InJournal(q)'
    BY <1>2, <2>1, <2>2, JournalGrows
  <2> QED BY <2>2, <2>3
<1>4. ASSUME NEW d \in Connections, InJournal(request[d]) \/ d = c
      PROVE  InJournal(request[d])'
  <2>1. PICK q : q = request[d]
    OBVIOUS
  <2>2. InJournal(q)'
    BY <1>3, <1>4, <2>1
  <2> QED BY <2>1, <2>2 DEF InJournal, Land
<1>5. /\ landed' = landed \cup {c} /\ c \notin landed /\ stage[c] = "core"
      /\ stage' = stage /\ request' = request /\ payload' = payload /\ outcome' = outcome
  BY DEF Land
<1>6. /\ PermitsFit' /\ WorkersFit' /\ AcceptorFits' /\ SocketsFit'
      /\ CoreFits' /\ LifecycleFits' /\ ClosedOwnsNothing'
  BY DEF ServiceInv, PermitsFit, WorkersFit, AcceptorFits, SocketsFit, CoreFits,
         LifecycleFits, ClosedOwnsNothing, PermitsAccounted, Alive, Starting, Closing, Land,
         lifecycle, accepting, work, closing
<1>7. LandedFits'
  BY <1>1, <1>2, <1>4, <1>5 DEF ServiceInv, TypeOK, LandedFits
<1>8. RepliesFit'
  BY <1>1, <1>4, <1>5 DEF ServiceInv, RepliesFit, RepliesTruthful
<1>9. TypeOK'
  BY <1>1, <1>3 DEF ServiceInv, TypeOK, Land, lifecycle, accepting, closing
<1> QED BY <1>6, <1>7, <1>8, <1>9 DEF ServiceInv

\* Another process appends.
LEMMA OtherStep ==
    ASSUME ServiceInv, NEW r \in Requests, OtherCommit(r)
    PROVE  ServiceInv'
<1>1. ServiceTypes
  BY TypesOfService
<1>2. /\ journal' \in Seq(Requests) /\ \A q : InJournal(q) => InJournal(q)'
  BY JournalGrows DEF ServiceInv, TypeOK, OtherCommit
<1>3. ASSUME NEW d \in Connections, InJournal(request[d])
      PROVE  InJournal(request[d])'
  <2>1. PICK q : q = request[d]
    OBVIOUS
  <2>2. InJournal(q)'
    BY <1>2, <1>3, <2>1
  <2> QED BY <2>1, <2>2 DEF InJournal, OtherCommit
<1>4. /\ PermitsFit' /\ WorkersFit' /\ AcceptorFits' /\ SocketsFit'
      /\ CoreFits' /\ LifecycleFits' /\ ClosedOwnsNothing'
  BY DEF ServiceInv, PermitsFit, WorkersFit, AcceptorFits, SocketsFit, CoreFits,
         LifecycleFits, ClosedOwnsNothing, PermitsAccounted, Alive, Starting, Closing,
         OtherCommit, lifecycle, accepting, work, closing
<1>5. LandedFits'
  BY <1>3 DEF ServiceInv, TypeOK, LandedFits, OtherCommit
<1>6. RepliesFit'
  BY <1>3 DEF ServiceInv, RepliesFit, RepliesTruthful, OtherCommit
<1>7. TypeOK'
  BY <1>2 DEF ServiceInv, TypeOK, OtherCommit, lifecycle, accepting, closing
<1> QED BY <1>4, <1>5, <1>6, <1>7 DEF ServiceInv

\* The store returns to the worker.
LEMMA ReturnsStep ==
    ASSUME ServiceInv, NEW c \in Connections, StoreReturns(c)
    PROVE  ServiceInv'
<1>1. ServiceTypes
  BY TypesOfService
<1>2. /\ stage[c] = "core" /\ stage'[c] = "returned" /\ outcome'[c] \in {"none", "complete"}
      /\ \A d \in Connections : d # c => stage'[d] = stage[d] /\ outcome'[d] = outcome[d]
      /\ UNCHANGED <<payload, landed, journal, request>>
  BY <1>1 DEF ServiceTypes, StoreReturns, Move
<1>3. outcome'[c] = "complete" <=> request[c].op # "snapshot" /\ InJournal(request[c])
  BY <1>1 DEF ServiceTypes, StoreReturns
<1>4. c \in landed => request[c].op = "append" /\ InJournal(request[c])
  BY DEF ServiceInv, LandedFits
<1>5. \A d \in Connections : InJournal(request[d])' = InJournal(request[d])
  BY <1>2 DEF InJournal
<1>6. PermitsFit' /\ LifecycleFits'
  BY DEF ServiceInv, PermitsFit, LifecycleFits, PermitsAccounted, Starting, Closing,
         StoreReturns, Move, lifecycle, accepting, work, closing
<1>7. WorkersFit'
  BY <1>1 DEF ServiceTypes, ServiceInv, WorkersFit, Alive, StoreReturns, Move, lifecycle,
              accepting, work, closing
<1>8. AcceptorFits'
  BY <1>1 DEF ServiceTypes, ServiceInv, AcceptorFits, StoreReturns, Move, lifecycle,
              accepting, work, closing
<1>9. SocketsFit'
  BY <1>1 DEF ServiceTypes, ServiceInv, SocketsFit, StoreReturns, Move, lifecycle,
              accepting, work, closing
<1>10. CoreFits'
  BY <1>1 DEF ServiceTypes, ServiceInv, CoreFits, StoreReturns, Move, lifecycle, accepting,
              work, closing
<1>11. LandedFits'
  BY <1>1 DEF ServiceTypes, ServiceInv, LandedFits, InJournal, StoreReturns, Move,
              lifecycle, accepting, work, closing
<1>12. RepliesFit'
  BY <1>2, <1>3, <1>4, <1>5 DEF ServiceInv, RepliesFit, RepliesTruthful
<1>13. ClosedOwnsNothing'
  BY <1>1 DEF ServiceTypes, ServiceInv, ClosedOwnsNothing, Alive, StoreReturns, Move,
              lifecycle, accepting, work, closing
<1>14. TypeOK'
  BY <1>1 DEF ServiceTypes, ServiceInv, TypeOK, Alive, StoreReturns, Move, lifecycle,
              accepting, work, closing
<1> QED BY <1>6, <1>7, <1>8, <1>9, <1>10, <1>11, <1>12, <1>13, <1>14 DEF ServiceInv

\* A control exception in the store stops the service.
LEMMA InterruptedStep ==
    ASSUME ServiceInv, NEW c \in Connections, StoreInterrupted(c)
    PROVE  ServiceInv'
<1>1. ServiceTypes
  BY TypesOfService
<1>2. PermitsFit'
  BY DEF ServiceInv, PermitsFit, PermitsAccounted, StoreInterrupted, Move, Fatal, lifecycle,
         accepting, work, closing
<1>3. WorkersFit'
  BY <1>1 DEF ServiceTypes, ServiceInv, WorkersFit, Alive, StoreInterrupted, Move, Fatal,
              lifecycle, accepting, work, closing
<1>4. AcceptorFits'
  BY <1>1 DEF ServiceTypes, ServiceInv, AcceptorFits, StoreInterrupted, Move, Fatal,
              lifecycle, accepting, work, closing
<1>5. SocketsFit'
  BY <1>1 DEF ServiceTypes, ServiceInv, SocketsFit, StoreInterrupted, Move, Fatal,
              lifecycle, accepting, work, closing
<1>6. CoreFits'
  BY <1>1 DEF ServiceTypes, ServiceInv, CoreFits, StoreInterrupted, Move, Fatal, lifecycle,
              accepting, work, closing
<1>7. LandedFits'
  BY <1>1 DEF ServiceTypes, ServiceInv, LandedFits, InJournal, StoreInterrupted, Move,
              Fatal, lifecycle, accepting, work, closing
<1>8. RepliesFit'
  BY <1>1 DEF ServiceTypes, ServiceInv, RepliesFit, RepliesTruthful, InJournal,
              StoreInterrupted, Move, Fatal, lifecycle, accepting, work, closing
<1>9. LifecycleFits'
  BY <1>1 DEF ServiceTypes, ServiceInv, LifecycleFits, Starting, Closing, StoreInterrupted,
              Move, Fatal, lifecycle, accepting, work, closing
<1>10. ClosedOwnsNothing'
  BY <1>1 DEF ServiceTypes, ServiceInv, ClosedOwnsNothing, Alive, StoreInterrupted, Move,
              Fatal, lifecycle, accepting, work, closing
<1>11. TypeOK'
  BY <1>1 DEF ServiceTypes, ServiceInv, TypeOK, Alive, StoreInterrupted, Move, Fatal,
              lifecycle, accepting, work, closing
<1> QED BY <1>2, <1>3, <1>4, <1>5, <1>6, <1>7, <1>8, <1>9, <1>10, <1>11 DEF ServiceInv

\* The frame is sent, or not.
LEMMA SendStep ==
    ASSUME ServiceInv, NEW c \in Connections, NEW ok \in BOOLEAN, Send(c, ok)
    PROVE  ServiceInv'
<1>1. ServiceTypes
  BY TypesOfService
<1>2. PermitsFit' /\ LifecycleFits'
  BY DEF ServiceInv, PermitsFit, LifecycleFits, PermitsAccounted, Starting, Closing, Send,
         Move, lifecycle, accepting, work, closing
<1>3. WorkersFit'
  BY <1>1 DEF ServiceTypes, ServiceInv, WorkersFit, Alive, Send, Move, lifecycle, accepting,
              work, closing
<1>4. AcceptorFits'
  BY <1>1 DEF ServiceTypes, ServiceInv, AcceptorFits, Send, Move, lifecycle, accepting,
              work, closing
<1>5. SocketsFit'
  BY <1>1 DEF ServiceTypes, ServiceInv, SocketsFit, Send, Move, lifecycle, accepting, work,
              closing
<1>6. CoreFits'
  BY <1>1 DEF ServiceTypes, ServiceInv, CoreFits, Send, Move, lifecycle, accepting, work,
              closing
<1>7. LandedFits'
  BY <1>1 DEF ServiceTypes, ServiceInv, LandedFits, InJournal, Send, Move, lifecycle,
              accepting, work, closing
<1>8. RepliesFit'
  BY <1>1 DEF ServiceTypes, ServiceInv, RepliesFit, RepliesTruthful, InJournal, Send, Move,
              lifecycle, accepting, work, closing
<1>9. ClosedOwnsNothing'
  BY <1>1 DEF ServiceTypes, ServiceInv, ClosedOwnsNothing, Alive, Send, Move, lifecycle,
              accepting, work, closing
<1>10. TypeOK'
  BY <1>1 DEF ServiceTypes, ServiceInv, TypeOK, Alive, Send, Move, lifecycle, accepting,
              work, closing
<1> QED BY <1>2, <1>3, <1>4, <1>5, <1>6, <1>7, <1>8, <1>9, <1>10 DEF ServiceInv

\* A worker closes its socket and ends.
LEMMA EndStep ==
    ASSUME ServiceInv, NEW c \in Connections, NEW ok \in BOOLEAN, End(c, ok)
    PROVE  ServiceInv'
<1>1. ServiceTypes
  BY TypesOfService
<1>2. /\ stage[c] = "closing" /\ stage'[c] = "ended" /\ pending' = pending /\ workers' = workers
      /\ \A d \in Connections : d # c => stage'[d] = stage[d] /\ socket'[d] = socket[d]
  BY <1>1 DEF ServiceTypes, End, Move, accepting
<1>3. c \in workers
  BY <1>2 DEF ServiceInv, WorkersFit, Alive
<1>4. /\ stage' \in [Connections -> {"unused", "backlog", "accepted", "ended"} \cup Alive]
      /\ socket' \in [Connections -> {"none", "open", "shut", "closed"}]
      /\ state' \in {"NEW", "STARTING", "RUNNING", "DRAINING", "CLOSED"}
      /\ stop' \in BOOLEAN /\ failure' \in BOOLEAN
  BY <1>1 DEF ServiceTypes, ServiceInv, TypeOK, End, Move, Fatal
<1>5. PermitsFit'
  BY DEF ServiceInv, PermitsFit, PermitsAccounted, End, Move, Fatal, lifecycle, accepting,
         work, closing
<1>6. WorkersFit'
  BY <1>1 DEF ServiceTypes, ServiceInv, WorkersFit, Alive, End, Move, Fatal, lifecycle,
              accepting, work, closing
<1>7. AcceptorFits'
  BY <1>1 DEF ServiceTypes, ServiceInv, AcceptorFits, End, Move, Fatal, lifecycle,
              accepting, work, closing
<1>8. SocketsFit'
  BY <1>2, <1>3 DEF ServiceInv, SocketsFit
<1>9. CoreFits'
  BY <1>1 DEF ServiceTypes, ServiceInv, CoreFits, End, Move, Fatal, lifecycle, accepting,
              work, closing
<1>10. LandedFits'
  BY <1>1 DEF ServiceTypes, ServiceInv, LandedFits, InJournal, End, Move, Fatal, lifecycle,
              accepting, work, closing
<1>11. RepliesFit'
  BY <1>1 DEF ServiceTypes, ServiceInv, RepliesFit, RepliesTruthful, InJournal, End, Move,
              Fatal, lifecycle, accepting, work, closing
<1>12. LifecycleFits'
  BY <1>1 DEF ServiceTypes, ServiceInv, LifecycleFits, Starting, Closing, End, Move, Fatal,
              lifecycle, accepting, work, closing
<1>13. ClosedOwnsNothing'
  BY <1>1 DEF ServiceTypes, ServiceInv, ClosedOwnsNothing, Alive, End, Move, Fatal,
              lifecycle, accepting, work, closing
<1>14. TypeOK'
  BY <1>4 DEF ServiceInv, TypeOK, End, accepting, work, closing
<1> QED BY <1>5, <1>6, <1>7, <1>8, <1>9, <1>10, <1>11, <1>12, <1>13, <1>14 DEF ServiceInv

\* close() stops the service.
LEMMA CloseEnterStep ==
    ASSUME ServiceInv, NEW o \in Owners, CloseEnter(o)
    PROVE  ServiceInv'
<1>1. ServiceTypes
  BY TypesOfService
<1>2. /\ PermitsFit' /\ WorkersFit' /\ AcceptorFits' /\ SocketsFit'
      /\ CoreFits' /\ LandedFits' /\ RepliesFit'
  BY DEF ServiceInv, PermitsFit, WorkersFit, AcceptorFits, SocketsFit, CoreFits, LandedFits,
         RepliesFit, PermitsAccounted, Alive, InJournal, RepliesTruthful, CloseEnter, Owner,
         lifecycle, accepting, work, closing
<1>3. LifecycleFits'
  BY <1>1 DEF ServiceTypes, ServiceInv, LifecycleFits, Starting, Closing, CloseEnter, Owner,
              lifecycle, accepting, work, closing
<1>4. ClosedOwnsNothing'
  BY <1>1 DEF ServiceTypes, ServiceInv, ClosedOwnsNothing, Alive, CloseEnter, Owner,
              lifecycle, accepting, work, closing
<1>5. TypeOK'
  BY <1>1 DEF ServiceTypes, ServiceInv, TypeOK, CloseEnter, Owner, lifecycle, accepting,
              work, closing
<1> QED BY <1>2, <1>3, <1>4, <1>5 DEF ServiceInv

\* One close() goes on at a time.
LEMMA CloseLockStep ==
    ASSUME ServiceInv, NEW o \in Owners, CloseLock(o) \/ Join(o)
    PROVE  ServiceInv'
<1>1. ServiceTypes
  BY TypesOfService
<1>2. /\ PermitsFit' /\ WorkersFit' /\ AcceptorFits' /\ SocketsFit'
      /\ CoreFits' /\ LandedFits' /\ RepliesFit' /\ ClosedOwnsNothing'
  BY DEF ServiceInv, PermitsFit, WorkersFit, AcceptorFits, SocketsFit, CoreFits, LandedFits,
         RepliesFit, ClosedOwnsNothing, PermitsAccounted, Alive, InJournal, RepliesTruthful,
         CloseLock, Join, Owner, lifecycle, accepting, work, closing
<1>3. LifecycleFits'
  BY <1>1 DEF ServiceTypes, ServiceInv, LifecycleFits, Starting, Closing, CloseLock, Join,
              Owner, lifecycle, accepting, work, closing
<1>4. TypeOK'
  BY <1>1 DEF ServiceTypes, ServiceInv, TypeOK, CloseLock, Join, Owner, lifecycle,
              accepting, work, closing
<1> QED BY <1>2, <1>3, <1>4 DEF ServiceInv

\* close() waited for the start() under way.
LEMMA CloseListenerStep ==
    ASSUME ServiceInv, NEW o \in Owners, NEW ok \in BOOLEAN, CloseListener(o, ok)
    PROVE  ServiceInv'
<1>1. ServiceTypes
  BY TypesOfService
<1>2. /\ PermitsFit' /\ WorkersFit' /\ AcceptorFits' /\ SocketsFit'
      /\ CoreFits' /\ LandedFits' /\ RepliesFit'
  BY DEF ServiceInv, PermitsFit, WorkersFit, AcceptorFits, SocketsFit, CoreFits, LandedFits,
         RepliesFit, PermitsAccounted, Alive, InJournal, RepliesTruthful, CloseListener,
         StartDone, Owner, lifecycle, accepting, work, closing
<1>3. LifecycleFits'
  BY <1>1 DEF ServiceTypes, ServiceInv, LifecycleFits, Starting, Closing, CloseListener,
              StartDone, Owner, lifecycle, accepting, work, closing
<1>4. ClosedOwnsNothing'
  BY <1>1 DEF ServiceTypes, ServiceInv, ClosedOwnsNothing, Alive, CloseListener, StartDone,
              Owner, lifecycle, accepting, work, closing
<1>5. TypeOK'
  BY <1>1 DEF ServiceTypes, ServiceInv, TypeOK, CloseListener, StartDone, Owner, lifecycle,
              accepting, work, closing
<1> QED BY <1>2, <1>3, <1>4, <1>5 DEF ServiceInv

\* close() looks at the workers and shuts readers down.
LEMMA SweepStep ==
    ASSUME ServiceInv, NEW o \in Owners, Sweep(o) \/ Shut(o)
    PROVE  ServiceInv'
<1>1. ServiceTypes
  BY TypesOfService
<1>2. /\ PermitsFit' /\ WorkersFit' /\ AcceptorFits' /\ CoreFits'
      /\ LandedFits' /\ RepliesFit'
  BY DEF ServiceInv, PermitsFit, WorkersFit, AcceptorFits, CoreFits, LandedFits, RepliesFit,
         PermitsAccounted, Alive, InJournal, RepliesTruthful, Sweep, Shut, Owner, lifecycle,
         accepting, work, closing
<1>3. SocketsFit'
  BY <1>1 DEF ServiceTypes, ServiceInv, SocketsFit, Sweep, Shut, Owner, lifecycle,
              accepting, work, closing
<1>4. LifecycleFits'
  BY <1>1 DEF ServiceTypes, ServiceInv, LifecycleFits, Starting, Closing, Sweep, Shut,
              Owner, lifecycle, accepting, work, closing
<1>5. ClosedOwnsNothing'
  BY <1>1 DEF ServiceTypes, ServiceInv, ClosedOwnsNothing, Alive, Sweep, Shut, Owner,
              lifecycle, accepting, work, closing
<1>6. TypeOK'
  BY <1>1 DEF ServiceTypes, ServiceInv, TypeOK, Sweep, Shut, Owner, lifecycle, accepting,
              work, closing
<1> QED BY <1>2, <1>3, <1>4, <1>5, <1>6 DEF ServiceInv

\* close() announces CLOSED only when nothing is left.
LEMMA SettleStep ==
    ASSUME ServiceInv, NEW o \in Owners, NEW stuck \in SUBSET Connections,
           Settle(o, stuck)
    PROVE  ServiceInv'
<1>1. ServiceTypes
  BY TypesOfService
<1> DEFINE shutNow == (Ended \cup Orphan) \ stuck
           done == {c \in workers : stage[c] = "ended" /\ (socket[c] = "closed" \/ c \in shutNow)}
<1>2. /\ owner[o] = "settling"
      /\ socket' = [c \in Connections |-> IF c \in shutNow THEN "closed" ELSE socket[c]]
      /\ pending' = IF pending \in shutNow THEN NoConnection ELSE pending
      /\ workers' = workers \ done /\ permits' = permits + Cardinality(done)
      /\ UNCHANGED <<stop, started, failure, listener, acceptor, reserved, stage, work>>
      /\ \/ state' = state
         \/ /\ state' = "CLOSED" /\ listener = "none" /\ pending' = NoConnection
            /\ workers' = {} /\ acceptor \in {"none", "dead"}
  BY DEF Settle, NothingRetained
<1>3. /\ done \in SUBSET workers
      /\ \A c \in done : stage[c] = "ended" /\ (socket[c] = "closed" \/ c \in shutNow)
  OBVIOUS
<1>4. \A c \in shutNow : /\ c \in Connections
                         /\ \/ stage[c] = "ended"
                            \/ c = pending /\ acceptor \in {"none", "dead"}
  BY DEF ServiceInv, TypeOK, Ended, Orphan
<1> HIDE DEF shutNow, done
<1>5. /\ IsFiniteSet(workers') /\ Cardinality(done) \in Nat
      /\ Cardinality(workers') = Cardinality(workers) - Cardinality(done)
      /\ Cardinality(workers') \in Nat
  BY <1>2, <1>3, ReapFacts DEF ServiceInv
<1>6. /\ Cardinality(workers) \in Nat /\ permits \in Nat /\ MaxWorkers \in Nat
      /\ permits <= MaxWorkers - Cardinality(workers)
  BY PermitsRange, ServiceAssumption DEF ServiceInv
<1>7. /\ permits' \in 0..MaxWorkers
      /\ permits' + Cardinality(workers') = permits + Cardinality(workers)
  BY <1>2, <1>5, <1>6
<1>8. /\ owner' \in [Owners -> {"idle", "starting", "listening", "entered", "owning",
                               "sweeping", "shutting", "joining", "settling"}]
      /\ report' \in [Owners -> {"nothing", "closed", "failed", "retained"}]
      /\ closer' \in Owners \cup {NoOwner}
      /\ swept' \subseteq Connections /\ doomed' \subseteq Connections
  BY <1>1 DEF ServiceTypes, ServiceInv, TypeOK, Settle, Leave
<1>9. /\ socket' \in [Connections -> {"none", "open", "shut", "closed"}]
      /\ pending' \in Connections \cup {NoConnection} /\ workers' \subseteq Connections
      /\ state' \in {"NEW", "STARTING", "RUNNING", "DRAINING", "CLOSED"}
  BY <1>1, <1>2 DEF ServiceTypes, ServiceInv, TypeOK
<1>10. /\ pending # NoConnection => stage[pending] = "accepted"
       /\ pending' # NoConnection => pending' = pending /\ pending \notin shutNow
  BY <1>2 DEF ServiceInv, AcceptorFits
<1>11. ASSUME NEW c \in Connections
       PROVE  /\ c \in shutNow => socket'[c] = "closed"
              /\ c \notin shutNow => socket'[c] = socket[c]
  BY <1>2
<1>12. CoreFits' /\ LandedFits' /\ RepliesFit'
  BY DEF ServiceInv, CoreFits, LandedFits, RepliesFit, InJournal, RepliesTruthful, Settle,
         Leave, NothingRetained, lifecycle, accepting, work
<1>13. PermitsFit'
  BY <1>2, <1>5, <1>6, <1>7 DEF ServiceInv, PermitsFit, PermitsAccounted, TypeOK
<1>14. WorkersFit'
  BY <1>2, <1>3 DEF ServiceInv, WorkersFit, Alive
<1>15. AcceptorFits'
  <2>1. acceptor \in {"holding", "reserved", "dropping", "failing"} => pending \notin shutNow
    BY <1>4, <1>10 DEF ServiceInv, AcceptorFits
  <2> QED BY <1>2, <1>10, <2>1 DEF ServiceInv, AcceptorFits
<1>16. SocketsFit'
  <2> SUFFICES ASSUME NEW c \in Connections
               PROVE  /\ stage[c] \in {"unused", "backlog"} => socket'[c] = "none"
                      /\ stage[c] = "accepted" => socket'[c] = "closed" \/ pending' = c
                      /\ stage[c] = "ended" => socket'[c] = "closed" \/ c \in workers'
    BY <1>2 DEF SocketsFit
  <2>1. /\ stage[c] \in {"unused", "backlog"} => socket[c] = "none"
        /\ stage[c] = "accepted" => socket[c] = "closed" \/ pending = c
        /\ stage[c] = "ended" => socket[c] = "closed" \/ c \in workers
    BY DEF ServiceInv, SocketsFit
  <2>2. CASE c \in shutNow
    <3>1. socket'[c] = "closed" /\ (stage[c] = "ended" \/ c = pending)
      <4>1. socket'[c] = "closed"
        BY <1>11, <2>2
      <4>2. stage[c] = "ended" \/ c = pending
        BY <1>4, <2>2
      <4> QED BY <4>1, <4>2
    <3>2. c = pending => stage[c] = "accepted"
      BY <1>10, ServiceAssumption
    <3> QED BY <3>1, <3>2
  <2>3. CASE c \notin shutNow
    BY <1>2, <1>3, <1>10, <1>11, <2>1, <2>3
  <2> QED BY <2>2, <2>3
<1>17. LifecycleFits'
  BY <1>1 DEF ServiceTypes, ServiceInv, LifecycleFits, Starting, Closing, Settle, Leave,
              NothingRetained, lifecycle, accepting, work
<1>18. ClosedOwnsNothing'
  <2> SUFFICES ASSUME state' = "CLOSED" PROVE ClosedOwnsNothing'
    BY DEF ClosedOwnsNothing
  <2>1. listener = "none" /\ acceptor \in {"none", "dead"} /\ workers' = {}
        /\ \A c \in Connections : pending' = c => socket'[c] \in {"none", "closed"}
    BY <1>2, <1>10, <1>11, ServiceAssumption DEF ServiceInv, ClosedOwnsNothing
  <2>2. started
    BY <1>2 DEF ServiceInv, LifecycleFits, Closing
  <2>3. permits' = MaxWorkers
    BY <1>2, <1>6, <1>7, <1>13, <2>1, FS_EmptySet
       DEF ServiceInv, AcceptorFits, PermitsFit, PermitsAccounted
  <2>4. \A c \in Connections : stage[c] \notin Alive
    BY <1>2, <1>14, <2>1 DEF WorkersFit
  <2>5. core = NoConnection
    BY <2>4 DEF ServiceInv, TypeOK, CoreFits, Alive
  <2>6. \A c \in Connections : socket'[c] \in {"none", "closed"}
    BY <1>1, <1>2, <1>16, <2>1, <2>4 DEF ServiceTypes, SocketsFit
  <2> QED BY <1>2, <2>1, <2>2, <2>3, <2>4, <2>5, <2>6 DEF ClosedOwnsNothing, work
<1>19. TypeOK'
  BY <1>2, <1>7, <1>8, <1>9 DEF ServiceInv, TypeOK, Settle, work
<1> QED BY <1>12, <1>13, <1>14, <1>15, <1>16, <1>17, <1>18, <1>19 DEF ServiceInv

\* close() gives up waiting.
LEMMA TimesOutStep ==
    ASSUME ServiceInv, NEW o \in Owners, CloseTimesOut(o)
    PROVE  ServiceInv'
<1>1. ServiceTypes
  BY TypesOfService
<1>2. /\ PermitsFit' /\ WorkersFit' /\ AcceptorFits' /\ SocketsFit'
      /\ CoreFits' /\ LandedFits' /\ RepliesFit' /\ ClosedOwnsNothing'
  BY DEF ServiceInv, PermitsFit, WorkersFit, AcceptorFits, SocketsFit, CoreFits, LandedFits,
         RepliesFit, ClosedOwnsNothing, PermitsAccounted, Alive, InJournal, RepliesTruthful,
         CloseTimesOut, BoundedWaits, Leave, lifecycle, accepting, work
<1>3. LifecycleFits'
  BY <1>1 DEF ServiceTypes, ServiceInv, LifecycleFits, Starting, Closing, CloseTimesOut,
              BoundedWaits, Leave, lifecycle, accepting, work
<1>4. TypeOK'
  BY <1>1 DEF ServiceTypes, ServiceInv, TypeOK, CloseTimesOut, BoundedWaits, Leave,
              lifecycle, accepting, work
<1> QED BY <1>2, <1>3, <1>4 DEF ServiceInv

\* A stuttering step changes nothing.
LEMMA StutterStep ==
    ASSUME ServiceInv, UNCHANGED vars
    PROVE  ServiceInv'
<1>1. ServiceTypes
  BY TypesOfService
<1>2. /\ PermitsFit' /\ WorkersFit' /\ AcceptorFits' /\ SocketsFit'
      /\ CoreFits' /\ LandedFits' /\ RepliesFit' /\ LifecycleFits'
      /\ ClosedOwnsNothing'
  BY DEF ServiceInv, PermitsFit, WorkersFit, AcceptorFits, SocketsFit, CoreFits, LandedFits,
         RepliesFit, LifecycleFits, ClosedOwnsNothing, PermitsAccounted, Alive, InJournal,
         RepliesTruthful, Starting, Closing, vars, lifecycle, accepting, work, closing
<1>3. TypeOK'
  BY <1>1 DEF ServiceTypes, ServiceInv, TypeOK, vars, lifecycle, accepting, work, closing
<1> QED BY <1>2, <1>3 DEF ServiceInv

-----------------------------------------------------------------------------
(***************************************************************************)
(* The invariant holds of every behaviour.                                 *)
(***************************************************************************)
\* The service as it is created satisfies the invariant.
LEMMA InitLemma == Init => ServiceInv
<1> SUFFICES ASSUME Init PROVE ServiceInv
  OBVIOUS
<1>1. IsFiniteSet(workers) /\ Cardinality(workers) = 0 /\ MaxWorkers \in Nat
  BY FS_EmptySet, ServiceAssumption DEF Init
<1>2. TypeOK
  <2>1. journal \in Seq(Requests)
    BY DEF Init
  <2>2. /\ stage \in [Connections -> {"unused", "backlog", "accepted", "ended"} \cup Alive]
        /\ socket \in [Connections -> {"none", "open", "shut", "closed"}]
        /\ request \in [Connections -> Requests \cup {NoRequest}]
        /\ outcome \in [Connections -> {"none", "unknown", "complete"}]
        /\ payload \in [Connections -> Frame \cup {NoFrame}]
    BY DEF Init
  <2>3. /\ owner \in [Owners -> {"idle", "starting", "listening", "entered", "owning",
                                "sweeping", "shutting", "joining", "settling"}]
        /\ report \in [Owners -> {"nothing", "closed", "failed", "retained"}]
    BY DEF Init
  <2>4. permits \in 0..MaxWorkers
    BY <1>1 DEF Init
  <2> QED BY <2>1, <2>2, <2>3, <2>4 DEF Init, TypeOK
<1>3. PermitsFit
  BY <1>1 DEF Init, PermitsFit, PermitsAccounted
<1>4. WorkersFit /\ AcceptorFits /\ SocketsFit /\ CoreFits /\ LandedFits
  BY DEF Init, WorkersFit, AcceptorFits, SocketsFit, CoreFits, LandedFits, Alive
<1>5. RepliesFit /\ LifecycleFits /\ ClosedOwnsNothing
  BY DEF Init, RepliesFit, RepliesTruthful, LifecycleFits, ClosedOwnsNothing, Starting, Closing
<1> QED BY <1>2, <1>3, <1>4, <1>5 DEF ServiceInv

\* Every step of the service, of a client or of another process keeps it.
LEMMA StepLemma == ServiceInv /\ [Next]_vars => ServiceInv'
<1> SUFFICES ASSUME ServiceInv, [Next]_vars PROVE ServiceInv'
  OBVIOUS
<1>1. CASE Acceptor
  BY <1>1, LoopStep, AcceptStep, PollStep, ReserveStep, HandOverStep, HandOverFailsStep, DropStep
     DEF Acceptor
<1>2. ASSUME NEW c \in Connections, Worker(c) PROVE ServiceInv'
  <2>1. CASE \/ Reject(c) \/ Unavailable(c) \/ StoreRefuses(c) \/ Respond(c) \/ RespondFails(c)
             \/ \E o \in {"none", "unknown", "complete"} : StoreRaises(c, o)
    <3>1. PICK from, frame, o : Replies(c, from, frame, o)
      BY <2>1, ReplyFacts
    <3> QED BY <3>1, ReplyStep
  <2>2. CASE Admit(c) \/ Enter(c) \/ Land(c) \/ StoreReturns(c) \/ StoreInterrupted(c)
    BY <2>2, AdmitStep, EnterStep, LandStep, ReturnsStep, InterruptedStep
  <2>3. CASE \E ok \in BOOLEAN : Send(c, ok) \/ End(c, ok)
    BY <2>3, SendStep, EndStep
  <2> QED BY <1>2, <2>1, <2>2, <2>3 DEF Worker
<1>3. ASSUME NEW o \in Owners, Start(o) \/ Starter(o) \/ CloseEnter(o)
      PROVE  ServiceInv'
  BY <1>3, StartStep, ListenStep, RunStep, StartFailsStep, CloseEnterStep DEF Starter
<1>4. ASSUME NEW o \in Owners, Closer(o) PROVE ServiceInv'
  BY <1>4, CloseLockStep, CloseListenerStep, SweepStep, SettleStep, TimesOutStep DEF Closer
<1>5. CASE Others \/ \E c \in Connections, r \in Requests : Connect(c, r)
  BY <1>5, OtherStep, ConnectStep DEF Others
<1>6. CASE UNCHANGED vars
  BY <1>6, StutterStep
<1> QED BY <1>1, <1>2, <1>3, <1>4, <1>5, <1>6 DEF Next, Service

\* The inductive invariant of the service.
THEOREM ServiceInvariant == Spec => []ServiceInv
BY InitLemma, StepLemma, PTL DEF Spec

-----------------------------------------------------------------------------
(***************************************************************************)
(* Whoever starts, connects, fails and closes, and whenever: every permit  *)
(* that is out belongs to a registered worker or to the connection the     *)
(* acceptor is about to hand over (_reap, _accept, close()); CLOSED is     *)
(* announced only when no listener, thread, socket, permit or store call   *)
(* is left; and a reply says no more of its request than the journal       *)
(* bears out (_Operation.observe).                                         *)
(***************************************************************************)
THEOREM ServiceIsSound == Spec => []ServiceSound
<1>1. ServiceInv => ServiceSound
  BY DEF ServiceInv, ServiceSound, PermitsFit, RepliesFit
<1> QED BY <1>1, ServiceInvariant, PTL

\* In a closed service nobody is left that could stop it again or commit.
LEMMA ClosedStep ==
    ServiceInv /\ [Next]_vars => (state = "CLOSED" => state' = "CLOSED" /\ landed' = landed)
<1> SUFFICES ASSUME ServiceInv, [Next]_vars, state = "CLOSED"
             PROVE  state' = "CLOSED" /\ landed' = landed
  OBVIOUS
<1>1. /\ acceptor \in {"none", "dead"} /\ started /\ stop
      /\ \A c \in Connections : stage[c] \notin Alive
      /\ \A o \in Owners : owner[o] \notin {"starting", "listening"}
  BY DEF ServiceInv, ClosedOwnsNothing, LifecycleFits, Starting
<1>2. CASE Acceptor
  BY <1>1, <1>2 DEF Acceptor, Loop, Accept, Poll, AcceptFails, Reserve, HandOver,
                    HandOverFails, Drop
<1>3. ASSUME NEW c \in Connections, Worker(c) PROVE FALSE
  <2>1. stage[c] \in Alive
    BY <1>3 DEF Worker, Admit, Reject, Enter, Unavailable, Land, StoreReturns, StoreRefuses,
                StoreRaises, StoreInterrupted, Respond, RespondFails, Send, End, Answer, Move,
                Alive
  <2> QED BY <1>1, <2>1
<1>4. ASSUME NEW o \in Owners, Start(o) \/ Starter(o) \/ CloseEnter(o)
      PROVE  state' = "CLOSED" /\ landed' = landed
  BY <1>1, <1>4 DEF Start, Starter, Listen, Run, StartFails, CloseEnter, Owner, work, lifecycle
<1>5. ASSUME NEW o \in Owners, Closer(o) PROVE state' = "CLOSED" /\ landed' = landed
  <2>1. CASE \E stuck \in SUBSET Connections : Settle(o, stuck)
    BY <2>1 DEF Settle, work
  <2>2. CASE \/ CloseLock(o) \/ Sweep(o) \/ Shut(o) \/ Join(o) \/ CloseTimesOut(o)
             \/ \E ok \in BOOLEAN : CloseListener(o, ok)
    BY <2>2 DEF CloseLock, Sweep, Shut, Join, CloseTimesOut, CloseListener, work, lifecycle
  <2> QED BY <1>5, <2>1, <2>2 DEF Closer
<1>6. CASE Others \/ \E c \in Connections, r \in Requests : Connect(c, r)
  BY <1>6 DEF Others, OtherCommit, Connect, lifecycle
<1>7. CASE UNCHANGED vars
  BY <1>7 DEF vars, lifecycle, work
<1> QED BY <1>2, <1>3, <1>4, <1>5, <1>6, <1>7 DEF Next, Service

(***************************************************************************)
(* A closed service stays closed and commits nothing any more: _fatal,     *)
(* which sets DRAINING whatever the state was, has no caller left.         *)
(***************************************************************************)
THEOREM ClosedStaysClosed == Spec => ClosedIsFinal
<1>1. ServiceInv /\ [Next]_vars =>
          [state = "CLOSED" => state' = "CLOSED" /\ landed' = landed]_vars
  BY ClosedStep
<1> QED BY <1>1, ServiceInvariant, PTL DEF Spec, ClosedIsFinal

-----------------------------------------------------------------------------
(***************************************************************************)
(* WorkflowClient: the inductive invariant.                                *)
(***************************************************************************)
\* Frames are made by workers, and what was delivered is the frame of a worker that is done.
FramesFit ==
    \A c \in Connections :
        /\ payload[c].found => payload[c].outcome = "complete"
        /\ stage[c] = "replying" => payload[c] # NoFrame
        /\ c \in delivered => payload[c] # NoFrame /\ stage[c] \in {"closing", "ended"}

\* The attempt on a connection committed nothing and never will.
Past(c) ==
    /\ c \notin landed
    /\ c = NoConnection \/ stage[c] \in {"closing", "ended"} \/ request[c].op # "append"

\* What a client waits for is what the service was asked on its connection.
CallsFit ==
    \A k \in Clients :
        /\ last[k] # NoConnection => stage[last[k]] # "unused"
        /\ intent[k] \in Requests =>
               intent[k].op = "append" /\ \E id \in RequestIds : intent[k].id = NamespaceId(k, id)
        /\ asked[k] # "none" =>
               /\ held[k] # NoConnection /\ last[k] = held[k] /\ answer[k] = "nothing"
               /\ intent[k] \in Requests
               /\ request[held[k]] = [intent[k] EXCEPT !.op = asked[k]]

\* What a call that ended told its caller stays true.
AnswersFit ==
    \A k \in Clients :
        /\ answer[k] = "none" => Past(last[k])
        /\ answer[k] \in {"commit", "complete"} => InJournal(intent[k])
        /\ answer[k] = "absent" => ~before[k]

\* A lookup of what was in the journal at the call is on the way to finding it.
LookupsFit ==
    \A k \in Clients :
        asked[k] # "none" /\ before[k] =>
            /\ asked[k] = "lookup" /\ InJournal(intent[k])
            /\ stage[held[k]] = "returned" => outcome[held[k]] = "complete"
            /\ payload[held[k]].status = "ok" => payload[held[k]].found

ClientInv ==
    ServiceInv /\ ClientTypeOK /\ FramesFit /\ CallsFit /\ AnswersFit /\ LookupsFit

-----------------------------------------------------------------------------
\* What a step of the service may do to a connection, as its client sees it.
Progress(c) ==
    /\ request'[c] = request[c]
    /\ stage[c] # "unused" => stage'[c] # "unused"
    /\ stage[c] \in {"closing", "ended"} => stage'[c] \in {"closing", "ended"}
    /\ c \in landed' => c \in landed \/ (stage[c] = "core" /\ request[c].op = "append")
    /\ \/ payload'[c] = payload[c] /\ (stage'[c] = "replying" => stage[c] = "replying")
       \/ /\ payload'[c] \in Frame /\ stage[c] \in {"reading", "admitted", "core", "returned"}
          /\ payload'[c].found => payload'[c].outcome = "complete"
          /\ payload'[c].status = "ok" =>
                 stage[c] = "returned" /\ (payload'[c].found <=> outcome[c] = "complete")
    /\ c \in delivered' => c \in delivered \/ (stage[c] = "replying" /\ stage'[c] = "closing")
    /\ stage'[c] = "returned" =>
           \/ stage[c] = "returned" /\ outcome'[c] = outcome[c]
           \/ request[c].op # "snapshot" /\ InJournal(request[c]) => outcome'[c] = "complete"

\* A step that works on no request.
LEMMA QuietProgress ==
    ASSUME NEW c \in Connections, UNCHANGED work,
           \/ stage'[c] = stage[c]
           \/ stage[c] = "backlog" /\ stage'[c] = "accepted"
           \/ stage[c] = "accepted" /\ stage'[c] = "reading"
    PROVE  Progress(c)
BY DEF Progress, work

\* A step of a worker, for its own connection and for the others.
LEMMA WorkerProgress ==
    ASSUME ServiceInv, NEW d \in Connections, Worker(d), NEW c \in Connections
    PROVE  Progress(c)
<1>1. ServiceTypes
  BY TypesOfService
<1>2. CASE \/ Reject(d) \/ Unavailable(d) \/ StoreRefuses(d) \/ Respond(d) \/ RespondFails(d)
           \/ \E o \in {"none", "unknown", "complete"} : StoreRaises(d, o)
  <2>1. PICK from, frame, o : Replies(d, from, frame, o)
    BY <1>2, ReplyFacts
  <2>2. /\ stage'[d] = "replying" /\ payload'[d] = frame
        /\ c # d => stage'[c] = stage[c] /\ payload'[c] = payload[c]
        /\ c # d => outcome'[c] = outcome[c]
        /\ UNCHANGED <<request, landed, delivered>>
    BY <1>1, <2>1 DEF Replies, Answer, Move, ServiceTypes
  <2>3. /\ stage[d] = from /\ from \in {"reading", "admitted", "core", "returned"}
        /\ frame \in Frame
        /\ frame.found => frame.outcome = "complete"
        /\ frame.status = "ok" => from = "returned" /\ (frame.found <=> outcome[d] = "complete")
    BY <2>1 DEF Replies, Answer, Move
  <2>4. CASE c = d
    BY <2>2, <2>3, <2>4 DEF Progress
  <2>5. CASE c # d
    BY <2>2, <2>5 DEF Progress
  <2> QED BY <2>4, <2>5
<1>3. CASE \/ Admit(d) \/ Enter(d) \/ StoreInterrupted(d)
           \/ \E ok \in BOOLEAN : Send(d, ok) \/ End(d, ok)
  <2>1. /\ UNCHANGED <<request, landed, payload>>
        /\ stage'[c] = stage[c] \/ c = d
        /\ outcome'[c] = outcome[c] \/ c = d
        /\ \/ stage[d] = "reading" /\ stage'[d] = "admitted"
           \/ stage[d] = "admitted" /\ stage'[d] = "core"
           \/ stage[d] = "core" /\ stage'[d] = "closing"
           \/ stage[d] = "replying" /\ stage'[d] = "closing"
           \/ stage[d] = "closing" /\ stage'[d] = "ended"
        /\ c \in delivered' =>
               c \in delivered \/ (c = d /\ stage[d] = "replying" /\ stage'[d] = "closing")
    BY <1>1, <1>3 DEF Admit, Enter, StoreInterrupted, Send, End, Move, ServiceTypes, work
  <2> QED BY <2>1 DEF Progress
<1>4. CASE Land(d)
  BY <1>4 DEF Land, Progress
<1>5. CASE StoreReturns(d)
  <2>1. /\ UNCHANGED <<request, landed, payload, delivered>>
        /\ c # d => stage'[c] = stage[c] /\ outcome'[c] = outcome[c]
        /\ stage[d] = "core" /\ stage'[d] = "returned"
    BY <1>1, <1>5 DEF StoreReturns, Move, ServiceTypes
  <2>2. request[d].op # "snapshot" /\ InJournal(request[d]) => outcome'[d] = "complete"
    BY <1>1, <1>5 DEF StoreReturns, ServiceTypes
  <2> QED BY <2>1, <2>2 DEF Progress
<1> QED BY <1>2, <1>3, <1>4, <1>5 DEF Worker

\* Every step of the service and of other processes.
LEMMA ServiceProgress ==
    ASSUME ServiceInv, Service \/ Others
    PROVE  /\ \A c \in Connections : Progress(c)
           /\ \A q : InJournal(q) => InJournal(q)'
<1>1. ServiceTypes
  BY TypesOfService
<1>2. ASSUME NEW c \in Connections PROVE Progress(c)
  <2>1. CASE Acceptor
    <3>1. UNCHANGED work
      BY <2>1 DEF Acceptor, Loop, Accept, Poll, AcceptFails, Reserve, HandOver, HandOverFails,
                  Drop, work
    <3>2. \/ stage'[c] = stage[c]
          \/ stage[c] = "backlog" /\ stage'[c] = "accepted"
          \/ stage[c] = "accepted" /\ stage'[c] = "reading"
      BY <1>1, <2>1 DEF Acceptor, Loop, Accept, Poll, AcceptFails, Reserve, HandOver,
                        HandOverFails, Drop, Move, ServiceTypes
    <3> QED BY <3>1, <3>2, QuietProgress
  <2>2. CASE \E d \in Connections : Worker(d)
    BY <2>2, WorkerProgress
  <2>3. ASSUME NEW o \in Owners, Start(o) \/ Starter(o) \/ CloseEnter(o) \/ Closer(o)
        PROVE  Progress(c)
    <3>1. UNCHANGED work /\ stage' = stage
      BY <2>3 DEF Start, Starter, Listen, Run, StartFails, CloseEnter, Closer, CloseLock,
                  CloseListener, Sweep, Shut, Join, Settle, CloseTimesOut
    <3> QED BY <3>1, QuietProgress
  <2>4. CASE Others
    BY <2>4 DEF Others, OtherCommit, Progress
  <2> QED BY <2>1, <2>2, <2>3, <2>4 DEF Service
<1>3. journal' = journal \/ \E r \in Requests : journal' = Append(journal, r)
  <2>1. ASSUME NEW d \in Connections, Land(d)
        PROVE  \E r \in Requests : journal' = Append(journal, r)
    <3>1. request[d] \in Requests
      BY <1>1, <2>1 DEF Land, NoRequest, ServiceTypes
    <3> QED BY <2>1, <3>1 DEF Land
  <2>2. ASSUME NEW d \in Connections, Worker(d), ~Land(d) PROVE journal' = journal
    BY <2>2 DEF Worker, Admit, Reject, Enter, Unavailable, StoreReturns, StoreRefuses,
                StoreRaises, StoreInterrupted, Respond, RespondFails, Send, End, work
  <2>3. CASE Acceptor
    BY <2>3 DEF Acceptor, Loop, Accept, Poll, AcceptFails, Reserve, HandOver, HandOverFails,
                Drop, work
  <2>4. ASSUME NEW o \in Owners, Start(o) \/ Starter(o) \/ CloseEnter(o) \/ Closer(o)
        PROVE  journal' = journal
    BY <2>4 DEF Start, Starter, Listen, Run, StartFails, CloseEnter, Closer, CloseLock,
                CloseListener, Sweep, Shut, Join, Settle, CloseTimesOut, work
  <2>5. CASE Others
    BY <2>5 DEF Others, OtherCommit
  <2> QED BY <2>1, <2>2, <2>3, <2>4, <2>5 DEF Service
<1>4. \A q : InJournal(q) => InJournal(q)'
  <2>1. journal' = journal => \A q : InJournal(q) => InJournal(q)'
    BY DEF InJournal
  <2>2. ASSUME NEW r \in Requests, journal' = Append(journal, r)
        PROVE  \A q : InJournal(q) => InJournal(q)'
    BY <2>2, JournalGrows DEF ServiceInv, TypeOK
  <2> QED BY <1>3, <2>1, <2>2
<1> QED BY <1>2, <1>4

\* The journal does not tell the operations on a request apart.
LEMMA SameRequest ==
    ASSUME NEW r \in Requests, NEW op \in Operations
    PROVE  /\ InJournal([r EXCEPT !.op = op]) <=> InJournal(r)
           /\ [r EXCEPT !.op = op].op = op /\ [r EXCEPT !.op = op].id = r.id
<1>1. PICK ids : Requests \subseteq [op: Operations, id: ids, expected: Nat]
  BY ServiceAssumption
<1>2. r \in [op: Operations, id: ids, expected: Nat]
  BY <1>1
<1>3. [[r EXCEPT !.op = op] EXCEPT !.op = "append"] = [r EXCEPT !.op = "append"]
  BY <1>2
<1> QED BY <1>2, <1>3 DEF InJournal

-----------------------------------------------------------------------------
(***************************************************************************)
(* WorkflowClient: the steps.                                              *)
(***************************************************************************)
\* What the parts of the invariant say of the types of a client.
LEMMA ClientTypes ==
    ASSUME ClientInv, NEW k \in Clients
    PROVE  /\ held[k] \in Connections \cup {NoConnection}
           /\ last[k] \in Connections \cup {NoConnection}
           /\ landed \subseteq Connections /\ NoConnection \notin Connections
           /\ asked[k] # "none" => held[k] \in Connections /\ asked[k] \in Operations
<1>1. /\ held[k] \in Connections \cup {NoConnection}
      /\ last[k] \in Connections \cup {NoConnection}
      /\ asked[k] \in Operations \cup {"none"} /\ landed \subseteq Connections
  BY DEF ClientInv, ClientTypeOK, TypeOK
<1>2. asked[k] # "none" => held[k] # NoConnection
  BY DEF ClientInv, CallsFit
<1> QED BY <1>1, <1>2, ServiceAssumption

\* The service goes on, or another process appends.
LEMMA ServiceStepOfClients ==
    ASSUME ClientInv, Service \/ Others, UNCHANGED client
    PROVE  ClientInv'
<1>1. /\ \A c \in Connections : Progress(c)
      /\ \A q : InJournal(q) => InJournal(q)'
  BY ServiceProgress DEF ClientInv
<1>2. ServiceInv'
  BY StepLemma DEF ClientInv, Next
<1>3. ClientTypeOK'
  BY <1>2 DEF ClientInv, ClientTypeOK, ServiceInv, client
<1>4. FramesFit'
  <2>1. \A c \in Connections : payload'[c] \in Frame => payload'[c] # NoFrame
    BY DEF Frame, NoFrame
  <2> SUFFICES ASSUME NEW c \in Connections
               PROVE  /\ payload'[c].found => payload'[c].outcome = "complete"
                      /\ stage'[c] = "replying" => payload'[c] # NoFrame
                      /\ c \in delivered' =>
                             payload'[c] # NoFrame /\ stage'[c] \in {"closing", "ended"}
    BY DEF FramesFit
  <2>2. /\ payload[c].found => payload[c].outcome = "complete"
        /\ stage[c] = "replying" => payload[c] # NoFrame
        /\ c \in delivered => payload[c] # NoFrame /\ stage[c] \in {"closing", "ended"}
    BY DEF ClientInv, FramesFit
  <2> QED BY <1>1, <2>1, <2>2 DEF Progress
<1>5. ASSUME NEW k \in Clients, InJournal(intent[k]) PROVE InJournal(intent[k])'
  <2>1. PICK q : q = intent[k]
    OBVIOUS
  <2>2. InJournal(q)'
    BY <1>1, <1>5, <2>1
  <2> QED BY <2>1, <2>2 DEF InJournal, client
<1>6. ASSUME NEW k \in Clients
      PROVE  /\ last[k] # NoConnection => stage'[last[k]] # "unused"
             /\ intent[k] \in Requests =>
                    /\ intent[k].op = "append"
                    /\ \E id \in RequestIds : intent[k].id = NamespaceId(k, id)
             /\ asked[k] # "none" =>
                    /\ held[k] # NoConnection /\ last[k] = held[k] /\ answer[k] = "nothing"
                    /\ intent[k] \in Requests
                    /\ request'[held[k]] = [intent[k] EXCEPT !.op = asked[k]]
  <2>1. /\ last[k] # NoConnection => stage[last[k]] # "unused"
        /\ intent[k] \in Requests =>
               /\ intent[k].op = "append"
               /\ \E id \in RequestIds : intent[k].id = NamespaceId(k, id)
        /\ asked[k] # "none" =>
               /\ held[k] # NoConnection /\ last[k] = held[k] /\ answer[k] = "nothing"
               /\ intent[k] \in Requests
               /\ request[held[k]] = [intent[k] EXCEPT !.op = asked[k]]
    BY DEF ClientInv, CallsFit
  <2>2. \A c \in Connections : request'[c] = request[c]
                               /\ (stage[c] # "unused" => stage'[c] # "unused")
    BY <1>1 DEF Progress
  <2> QED BY <2>1, <2>2, ClientTypes
<1>7. CallsFit'
  BY <1>6 DEF CallsFit, client
<1>8. ASSUME NEW c \in Connections \cup {NoConnection}, Past(c) PROVE Past(c)'
  <2>1. CASE c = NoConnection
    <3>1. landed' \subseteq Connections
      BY <1>2 DEF ServiceInv, TypeOK
    <3> QED BY <2>1, <3>1, ServiceAssumption DEF Past
  <2>2. CASE c \in Connections
    BY <1>1, <1>8, <2>2, ServiceAssumption DEF Past, Progress
  <2> QED BY <2>1, <2>2
<1>9. ASSUME NEW k \in Clients, Past(last[k]) PROVE Past(last[k])'
  <2>1. PICK c \in Connections \cup {NoConnection} : c = last[k]
    BY ClientTypes
  <2>2. Past(c)'
    BY <1>8, <1>9, <2>1
  <2> QED BY <2>1, <2>2 DEF Past, client
<1>10. AnswersFit'
  BY <1>5, <1>9 DEF ClientInv, AnswersFit, client
<1>11. LookupsFit'
  <2> SUFFICES ASSUME NEW k \in Clients, asked[k] # "none", before[k]
               PROVE  /\ asked[k] = "lookup" /\ InJournal(intent[k])'
                      /\ stage'[held[k]] = "returned" => outcome'[held[k]] = "complete"
                      /\ payload'[held[k]].status = "ok" => payload'[held[k]].found
    BY DEF LookupsFit, client
  <2>1. PICK c \in Connections : c = held[k]
    BY ClientTypes
  <2>2. /\ asked[k] = "lookup" /\ InJournal(intent[k])
        /\ stage[c] = "returned" => outcome[c] = "complete"
        /\ payload[c].status = "ok" => payload[c].found
    BY <2>1 DEF ClientInv, LookupsFit
  <2>3. request[c].op = "lookup" /\ InJournal(request[c])
    <3>1. intent[k] \in Requests /\ request[c] = [intent[k] EXCEPT !.op = "lookup"]
      BY <2>1, <2>2 DEF ClientInv, CallsFit
    <3>2. PICK r \in Requests : r = intent[k]
      BY <3>1
    <3>3. [r EXCEPT !.op = "lookup"].op = "lookup"
          /\ (InJournal([r EXCEPT !.op = "lookup"]) <=> InJournal(r))
      BY SameRequest DEF Operations
    <3> QED BY <2>2, <3>1, <3>2, <3>3
  <2>4. Progress(c)
    BY <1>1
  <2>5. stage'[c] = "returned" => outcome'[c] = "complete"
    BY <2>2, <2>3, <2>4 DEF Progress
  <2>6. payload'[c].status = "ok" => payload'[c].found
    BY <2>2, <2>4 DEF Progress
  <2> QED BY <1>5, <2>1, <2>2, <2>5, <2>6
<1> QED BY <1>2, <1>3, <1>4, <1>7, <1>10, <1>11 DEF ClientInv

\* A call goes out on a connection of its own, with a request the service knows.
LEMMA CallStep ==
    ASSUME ClientInv, NEW k \in Clients, NEW op \in Calls, NEW c \in Connections,
           NEW r \in Requests, Call(k, op, c, r)
    PROVE  ClientInv'
<1>1. /\ stage[c] = "unused" /\ stage' = [stage EXCEPT ![c] = "backlog"]
      /\ request' = [request EXCEPT ![c] = [r EXCEPT !.op = op]]
      /\ UNCHANGED <<socket, outcome, payload, delivered, journal, landed>>
      /\ asked[k] = "none" /\ held[k] = NoConnection
      /\ intent' = [intent EXCEPT ![k] = r] /\ asked' = [asked EXCEPT ![k] = op]
      /\ held' = [held EXCEPT ![k] = c] /\ last' = [last EXCEPT ![k] = c]
      /\ answer' = [answer EXCEPT ![k] = "nothing"]
      /\ before' = [before EXCEPT ![k] = op = "lookup" /\ InJournal(r)]
  BY DEF Call, MayCall, Connect, Move
<1>2. r.op = "append" /\ \E id \in RequestIds : r.id = NamespaceId(k, id)
  <2>1. r = intent[k] \/ \E id \in RequestIds, e \in 0..Len(journal) : r = Prepared(k, id, e)
    BY DEF Call, Sendable
  <2>2. CASE r = intent[k]
    BY <2>2 DEF ClientInv, CallsFit
  <2>3. ASSUME NEW id \in RequestIds, NEW e \in 0..Len(journal), r = Prepared(k, id, e)
        PROVE  r.op = "append" /\ r.id = NamespaceId(k, id)
    BY <2>3 DEF Prepared
  <2> QED BY <2>1, <2>2, <2>3
<1>3. op \in Operations /\ [r EXCEPT !.op = op] \in Requests
  BY <1>2, ClientAssumption
<1>4. ServiceInv'
  <2>1. PICK q \in Requests : q = [r EXCEPT !.op = op]
    BY <1>3
  <2>2. Connect(c, q)
    BY <2>1 DEF Call
  <2> QED BY <2>2, ConnectStep DEF ClientInv
<1>5. c \notin landed /\ c \notin delivered /\ payload[c] = NoFrame
  BY <1>1 DEF ClientInv, ServiceInv, LandedFits, RepliesFit, FramesFit
<1>6. /\ stage \in [Connections -> {"unused", "backlog", "accepted", "ended"} \cup Alive]
      /\ request \in [Connections -> Requests \cup {NoRequest}]
      /\ intent \in [Clients -> Requests \cup {NoIntent}]
      /\ asked \in [Clients -> Operations \cup {"none"}]
      /\ held \in [Clients -> Connections \cup {NoConnection}]
      /\ last \in [Clients -> Connections \cup {NoConnection}]
      /\ answer \in [Clients -> {"nothing", "snapshot", "commit", "absent",
                                 "none", "unknown", "complete"}]
      /\ before \in [Clients -> BOOLEAN]
  BY DEF ClientInv, ClientTypeOK, TypeOK
<1>7. ClientTypeOK'
  <2>1. TypeOK'
    BY <1>4 DEF ServiceInv
  <2>2. before' \in [Clients -> BOOLEAN]
    BY <1>1, <1>6
  <2> QED BY <1>1, <1>3, <1>6, <2>1, <2>2 DEF ClientTypeOK
<1>8. FramesFit'
  BY <1>1, <1>5, <1>6 DEF ClientInv, FramesFit
<1>9. /\ intent'[k] = r /\ asked'[k] = op /\ held'[k] = c /\ last'[k] = c
      /\ answer'[k] = "nothing" /\ (before'[k] => op = "lookup" /\ InJournal(r))
      /\ stage'[c] = "backlog" /\ request'[c] = [r EXCEPT !.op = op]
  BY <1>1, <1>6
<1>10. ASSUME NEW j \in Clients, j # k
       PROVE  /\ intent'[j] = intent[j] /\ asked'[j] = asked[j] /\ held'[j] = held[j]
              /\ last'[j] = last[j] /\ answer'[j] = answer[j] /\ before'[j] = before[j]
  BY <1>1, <1>6, <1>10
<1>11. ASSUME NEW d \in Connections, d # c
       PROVE  stage'[d] = stage[d] /\ request'[d] = request[d]
  BY <1>1, <1>6, <1>11
<1>12. \A q : InJournal(q) <=> InJournal(q)'
  BY <1>1 DEF InJournal
<1>13. ASSUME NEW j \in Clients PROVE last[j] # c /\ (asked[j] # "none" => held[j] # c)
  <2>1. last[j] # NoConnection => stage[last[j]] # "unused"
    BY DEF ClientInv, CallsFit
  <2>2. asked[j] # "none" => held[j] # NoConnection /\ last[j] = held[j]
    BY DEF ClientInv, CallsFit
  <2> QED BY <1>1, <2>1, <2>2, ServiceAssumption
<1>14. CallsFit'
  <2> SUFFICES ASSUME NEW j \in Clients
               PROVE  /\ last'[j] # NoConnection => stage'[last'[j]] # "unused"
                      /\ intent'[j] \in Requests =>
                             /\ intent'[j].op = "append"
                             /\ \E id \in RequestIds : intent'[j].id = NamespaceId(j, id)
                      /\ asked'[j] # "none" =>
                             /\ held'[j] # NoConnection /\ last'[j] = held'[j]
                             /\ answer'[j] = "nothing" /\ intent'[j] \in Requests
                             /\ request'[held'[j]] = [intent'[j] EXCEPT !.op = asked'[j]]
    BY DEF CallsFit
  <2>1. CASE j = k
    BY <1>2, <1>9, <2>1, ServiceAssumption
  <2>2. CASE j # k
    <3>1. /\ last[j] # NoConnection => stage[last[j]] # "unused"
          /\ intent[j] \in Requests =>
                 /\ intent[j].op = "append"
                 /\ \E id \in RequestIds : intent[j].id = NamespaceId(j, id)
          /\ asked[j] # "none" =>
                 /\ held[j] # NoConnection /\ last[j] = held[j] /\ answer[j] = "nothing"
                 /\ intent[j] \in Requests
                 /\ request[held[j]] = [intent[j] EXCEPT !.op = asked[j]]
      BY DEF ClientInv, CallsFit
    <3>2. last[j] \in Connections \cup {NoConnection} /\ held[j] \in Connections \cup {NoConnection}
      BY ClientTypes
    <3> QED BY <1>10, <1>11, <1>13, <2>2, <3>1, <3>2
  <2> QED BY <2>1, <2>2
<1>15. ASSUME NEW d \in Connections \cup {NoConnection}, d # c, Past(d) PROVE Past(d)'
  BY <1>1, <1>11, <1>15 DEF Past
<1>16. AnswersFit'
  <2> SUFFICES ASSUME NEW j \in Clients
               PROVE  /\ answer'[j] = "none" => Past(last[j])'
                      /\ answer'[j] \in {"commit", "complete"} => InJournal(intent[j])'
                      /\ answer'[j] = "absent" => ~before'[j]
    BY DEF AnswersFit
  <2>1. CASE j = k
    BY <1>9, <2>1
  <2>2. CASE j # k
    <3>1. /\ answer[j] = "none" => Past(last[j])
          /\ answer[j] \in {"commit", "complete"} => InJournal(intent[j])
          /\ answer[j] = "absent" => ~before[j]
      BY DEF ClientInv, AnswersFit
    <3>2. Past(last[j]) => Past(last[j])'
      <4>1. PICK d \in Connections \cup {NoConnection} : d = last[j]
        BY ClientTypes
      <4>2. Past(d) => Past(d)'
        BY <1>13, <1>15, <4>1
      <4>3. d = last'[j]
        BY <1>10, <2>2, <4>1
      <4> QED BY <4>1, <4>2, <4>3 DEF Past
    <3>3. InJournal(intent[j]) => InJournal(intent[j])'
      <4>1. PICK q : q = intent[j]
        OBVIOUS
      <4>2. q = intent'[j] /\ (InJournal(q) <=> InJournal(q)')
        BY <1>10, <1>12, <2>2, <4>1
      <4> QED BY <4>1, <4>2 DEF InJournal
    <3> QED BY <1>10, <2>2, <3>1, <3>2, <3>3
  <2> QED BY <2>1, <2>2
<1>17. LookupsFit'
  <2> SUFFICES ASSUME NEW j \in Clients, asked'[j] # "none", before'[j]
               PROVE  /\ asked'[j] = "lookup" /\ InJournal(intent[j])'
                      /\ stage'[held'[j]] = "returned" => outcome'[held'[j]] = "complete"
                      /\ payload'[held'[j]].status = "ok" => payload'[held'[j]].found
    BY DEF LookupsFit
  <2>1. CASE j = k
    <3>1. InJournal(intent[k])'
      <4>1. PICK q : q = r
        OBVIOUS
      <4>2. q = intent'[k] /\ InJournal(q)'
        BY <1>9, <1>12, <2>1, <4>1
      <4> QED BY <4>1, <4>2 DEF InJournal
    <3>2. payload'[c] = NoFrame /\ NoFrame.status # "ok"
      BY <1>1, <1>5 DEF NoFrame
    <3> QED BY <1>9, <2>1, <3>1, <3>2
  <2>2. CASE j # k
    <3>1. /\ asked[j] = "lookup" /\ InJournal(intent[j])
          /\ stage[held[j]] = "returned" => outcome[held[j]] = "complete"
          /\ payload[held[j]].status = "ok" => payload[held[j]].found
      BY <1>10, <2>2 DEF ClientInv, LookupsFit
    <3>2. InJournal(intent[j])'
      <4>1. PICK q : q = intent[j]
        OBVIOUS
      <4>2. q = intent'[j] /\ InJournal(q)'
        BY <1>10, <1>12, <2>2, <3>1, <4>1
      <4> QED BY <4>1, <4>2 DEF InJournal
    <3>3. held[j] \in Connections /\ held[j] # c
      BY <1>13, <3>1, ClientTypes
    <3> QED BY <1>1, <1>10, <1>11, <2>2, <3>1, <3>2, <3>3
  <2> QED BY <2>1, <2>2
<1> QED BY <1>4, <1>7, <1>8, <1>14, <1>16, <1>17 DEF ClientInv

\* The store, the service and what the client waits for stay; only the end of the call
\* is recorded.
LEMMA EndOfCall ==
    ASSUME ClientInv, UNCHANGED <<vars, intent, before>>, NEW k \in Clients,
           asked' \in [Clients -> Operations \cup {"none"}],
           held' \in [Clients -> Connections \cup {NoConnection}],
           last' \in [Clients -> Connections \cup {NoConnection}],
           answer' \in [Clients -> {"nothing", "snapshot", "commit", "absent",
                                    "none", "unknown", "complete"}],
           asked'[k] = "none", last'[k] \in {last[k], NoConnection},
           \A j \in Clients : j # k => /\ asked'[j] = asked[j] /\ held'[j] = held[j]
                                       /\ last'[j] = last[j] /\ answer'[j] = answer[j],
           answer'[k] = "none" => Past(last'[k]),
           answer'[k] \in {"commit", "complete"} => InJournal(intent[k]),
           answer'[k] = "absent" => ~before[k]
    PROVE  ClientInv'
<1>1. ServiceInv'
  BY StutterStep DEF ClientInv
<1>2. ClientTypeOK'
  BY <1>1 DEF ClientInv, ClientTypeOK, ServiceInv
<1>3. FramesFit'
  BY DEF ClientInv, FramesFit, vars, work
<1>4. CallsFit'
  <2> SUFFICES ASSUME NEW j \in Clients
               PROVE  /\ last'[j] # NoConnection => stage[last'[j]] # "unused"
                      /\ intent[j] \in Requests =>
                             /\ intent[j].op = "append"
                             /\ \E id \in RequestIds : intent[j].id = NamespaceId(j, id)
                      /\ asked'[j] # "none" =>
                             /\ held'[j] # NoConnection /\ last'[j] = held'[j]
                             /\ answer'[j] = "nothing" /\ intent[j] \in Requests
                             /\ request[held'[j]] = [intent[j] EXCEPT !.op = asked'[j]]
    BY DEF CallsFit, vars, work
  <2>1. /\ last[j] # NoConnection => stage[last[j]] # "unused"
        /\ intent[j] \in Requests =>
               /\ intent[j].op = "append"
               /\ \E id \in RequestIds : intent[j].id = NamespaceId(j, id)
        /\ asked[j] # "none" =>
               /\ held[j] # NoConnection /\ last[j] = held[j] /\ answer[j] = "nothing"
               /\ intent[j] \in Requests
               /\ request[held[j]] = [intent[j] EXCEPT !.op = asked[j]]
    BY DEF ClientInv, CallsFit
  <2>2. CASE j = k
    BY <2>1, <2>2
  <2>3. CASE j # k
    BY <2>1, <2>3
  <2> QED BY <2>2, <2>3
<1>5. /\ \A d : Past(d) => Past(d)'
      /\ \A q : InJournal(q) => InJournal(q)'
  BY DEF Past, InJournal, vars, work
<1>6. AnswersFit'
  <2> SUFFICES ASSUME NEW j \in Clients
               PROVE  /\ answer'[j] = "none" => Past(last[j])'
                      /\ answer'[j] \in {"commit", "complete"} => InJournal(intent[j])'
                      /\ answer'[j] = "absent" => ~before'[j]
    BY DEF AnswersFit
  <2>1. /\ answer'[j] = "none" => Past(last'[j])
        /\ answer'[j] \in {"commit", "complete"} => InJournal(intent[j])
        /\ answer'[j] = "absent" => ~before[j]
    <3>1. CASE j = k
      BY <3>1
    <3>2. CASE j # k
      BY <3>2 DEF ClientInv, AnswersFit
    <3> QED BY <3>1, <3>2
  <2>2. PICK d : d = last'[j]
    OBVIOUS
  <2>3. Past(d) => Past(last[j])'
    BY <1>5, <2>2 DEF Past
  <2>4. PICK q : q = intent[j]
    OBVIOUS
  <2>5. InJournal(q) => InJournal(intent[j])'
    BY <1>5, <2>4 DEF InJournal
  <2> QED BY <2>1, <2>2, <2>3, <2>4, <2>5
<1>7. LookupsFit'
  <2> SUFFICES ASSUME NEW j \in Clients, asked'[j] # "none", before'[j]
               PROVE  /\ asked'[j] = "lookup" /\ InJournal(intent[j])'
                      /\ stage'[held'[j]] = "returned" => outcome'[held'[j]] = "complete"
                      /\ payload'[held'[j]].status = "ok" => payload'[held'[j]].found
    BY DEF LookupsFit
  <2>1. /\ j # k /\ asked'[j] = asked[j] /\ held'[j] = held[j] /\ before'[j] = before[j]
        /\ stage' = stage /\ outcome' = outcome /\ payload' = payload
    BY DEF vars, work
  <2>2. /\ asked[j] = "lookup" /\ InJournal(intent[j])
        /\ stage[held[j]] = "returned" => outcome[held[j]] = "complete"
        /\ payload[held[j]].status = "ok" => payload[held[j]].found
    BY <2>1 DEF ClientInv, LookupsFit
  <2>3. PICK q : q = intent[j]
    OBVIOUS
  <2>4. InJournal(q) => InJournal(intent[j])'
    BY <1>5, <2>3 DEF InJournal
  <2> QED BY <2>1, <2>2, <2>3, <2>4
<1> QED BY <1>1, <1>2, <1>3, <1>4, <1>6, <1>7 DEF ClientInv

\* No connection came about, or the service answered, or the client gave up.
LEMMA AnswerStep ==
    ASSUME ClientInv, NEW k \in Clients,
           CallFails(k) \/ \E closed \in BOOLEAN : Receive(k, closed) \/ GiveUp(k, closed)
    PROVE  ClientInv'
<1>1. /\ asked \in [Clients -> Operations \cup {"none"}]
      /\ held \in [Clients -> Connections \cup {NoConnection}]
      /\ last \in [Clients -> Connections \cup {NoConnection}]
      /\ answer \in [Clients -> {"nothing", "snapshot", "commit", "absent",
                                 "none", "unknown", "complete"}]
      /\ NoConnection \notin landed
  BY ServiceAssumption DEF ClientInv, ClientTypeOK, TypeOK
<1>2. CASE CallFails(k)
  <2>1. /\ UNCHANGED <<vars, intent, before, asked, held>> /\ asked[k] = "none"
        /\ last' = [last EXCEPT ![k] = NoConnection] /\ answer' = [answer EXCEPT ![k] = "none"]
    BY <1>2 DEF CallFails, MayCall
  <2>2. Past(NoConnection)
    BY <1>1 DEF Past
  <2> QED BY <1>1, <2>1, <2>2, EndOfCall
<1>3. ASSUME NEW closed \in BOOLEAN, NEW result, NEW o, Finish(k, result, o, closed),
             result \in {"error", "snapshot", "commit", "absent"},
             o \in {"none", "unknown", "complete"},
             o = "none" => Past(last[k]),
             result = "commit" \/ o = "complete" => InJournal(intent[k]),
             result = "absent" => ~before[k]
      PROVE  ClientInv'
  <2>1. /\ UNCHANGED <<vars, intent, last, before>>
        /\ asked' = [asked EXCEPT ![k] = "none"]
        /\ held' = [held EXCEPT ![k] = NoConnection] \/ held' = held
        /\ \/ answer' = [answer EXCEPT ![k] = result] /\ result # "error"
           \/ answer' = [answer EXCEPT ![k] = o]
    BY <1>3 DEF Finish
  <2>2. /\ asked' \in [Clients -> Operations \cup {"none"}] /\ asked'[k] = "none"
        /\ held' \in [Clients -> Connections \cup {NoConnection}]
        /\ answer' \in [Clients -> {"nothing", "snapshot", "commit", "absent",
                                    "none", "unknown", "complete"}]
        /\ answer'[k] = o \/ (answer'[k] = result /\ result # "error")
        /\ \A j \in Clients : j # k => /\ asked'[j] = asked[j] /\ held'[j] = held[j]
                                       /\ answer'[j] = answer[j]
    BY <1>1, <1>3, <2>1
  <2> QED BY <1>1, <1>3, <2>1, <2>2, EndOfCall
<1>4. ASSUME NEW closed \in BOOLEAN, Receive(k, closed) PROVE ClientInv'
  <2>1. PICK c \in Connections : c = held[k] /\ c = last[k]
    BY <1>4, ClientTypes DEF Receive, ClientInv, CallsFit
  <2>2. /\ payload[c] \in Frame /\ stage[c] \in {"closing", "ended"}
        /\ payload[c].found => payload[c].outcome = "complete"
    BY <1>4, <2>1 DEF Receive, ClientInv, FramesFit, ClientTypeOK, TypeOK
  <2>3. /\ payload[c].outcome = "none" => c \notin landed
        /\ payload[c].outcome = "complete" => InJournal(request[c])
    BY <2>2 DEF ClientInv, ServiceInv, RepliesFit, RepliesTruthful, Frame, NoFrame
  <2>4. /\ payload[c].status \in {"ok", "refused", "unavailable", "internal"}
        /\ payload[c].outcome \in {"none", "unknown", "complete"}
    BY <2>2 DEF Frame
  <2>5. InJournal(request[c]) => InJournal(intent[k])
    <3>1. /\ asked[k] \in Operations /\ intent[k] \in Requests
          /\ request[c] = [intent[k] EXCEPT !.op = asked[k]]
      BY <1>4, <2>1, ClientTypes DEF Receive, ClientInv, CallsFit
    <3>2. PICK r \in Requests : r = intent[k]
      BY <3>1
    <3>3. InJournal([r EXCEPT !.op = asked[k]]) <=> InJournal(r)
      BY <3>1, SameRequest
    <3> QED BY <3>1, <3>2, <3>3
  <2>6. before[k] /\ payload[c].status = "ok" => payload[c].found
    BY <1>4, <2>1 DEF Receive, ClientInv, LookupsFit
  <2>7. PICK result : result = Decode(asked[k], payload[c])
    OBVIOUS
  <2>8. /\ result \in {"error", "snapshot", "commit", "absent"}
        /\ result = "commit" => payload[c].found
        /\ result = "absent" => payload[c].status = "ok" /\ ~payload[c].found
    BY <2>4, <2>7 DEF Decode
  <2>9. Finish(k, result, payload[c].outcome, closed)
    BY <1>4, <2>1, <2>7 DEF Receive
  <2>10. Past(last[k]) \/ payload[c].outcome # "none"
    BY <2>1, <2>2, <2>3 DEF Past
  <2> QED BY <1>3, <2>2, <2>3, <2>4, <2>5, <2>6, <2>8, <2>9, <2>10
<1>5. ASSUME NEW closed \in BOOLEAN, GiveUp(k, closed) PROVE ClientInv'
  <2>1. asked[k] # "none" /\ Finish(k, "error", OutcomeInFlight(asked[k]), closed)
    BY <1>5 DEF GiveUp
  <2>2. OutcomeInFlight(asked[k]) = "none" => Past(last[k])
    <3>1. PICK c \in Connections : c = held[k] /\ c = last[k]
      BY <2>1, ClientTypes DEF ClientInv, CallsFit
    <3>2. /\ asked[k] \in Operations /\ intent[k] \in Requests
          /\ request[c] = [intent[k] EXCEPT !.op = asked[k]]
      BY <2>1, <3>1, ClientTypes DEF ClientInv, CallsFit
    <3>3. PICK r \in Requests : r = intent[k]
      BY <3>2
    <3>4. request[c].op = asked[k]
      BY <3>2, <3>3, SameRequest
    <3>5. c \in landed => request[c].op = "append"
      BY DEF ClientInv, ServiceInv, LandedFits
    <3> QED BY <3>1, <3>4, <3>5 DEF OutcomeInFlight, Past
  <2>3. OutcomeInFlight(asked[k]) \in {"none", "unknown"}
    BY DEF OutcomeInFlight
  <2> QED BY <1>3, <2>1, <2>2, <2>3
<1> QED BY <1>2, <1>4, <1>5

\* A retained connection is closed at another try.
LEMMA CloseRetainedStep ==
    ASSUME ClientInv, NEW k \in Clients, CloseRetained(k)
    PROVE  ClientInv'
<1>1. /\ UNCHANGED <<vars, intent, before, asked, last, answer>> /\ asked[k] = "none"
      /\ held' = [held EXCEPT ![k] = NoConnection]
  BY DEF CloseRetained
<1>2. /\ asked \in [Clients -> Operations \cup {"none"}]
      /\ held \in [Clients -> Connections \cup {NoConnection}]
      /\ last \in [Clients -> Connections \cup {NoConnection}]
      /\ answer \in [Clients -> {"nothing", "snapshot", "commit", "absent",
                                 "none", "unknown", "complete"}]
  BY DEF ClientInv, ClientTypeOK
<1>3. /\ answer[k] = "none" => Past(last[k])
      /\ answer[k] \in {"commit", "complete"} => InJournal(intent[k])
      /\ answer[k] = "absent" => ~before[k]
  BY DEF ClientInv, AnswersFit
<1> QED BY <1>1, <1>2, <1>3, EndOfCall

\* A running service, and clients that asked nothing yet.
LEMMA ClientInitLemma == ClientInit => ClientInv
<1> SUFFICES ASSUME ClientInit PROVE ClientInv
  OBVIOUS
<1>1. IsFiniteSet(workers) /\ Cardinality(workers) = 0 /\ MaxWorkers \in Nat
  BY FS_EmptySet, ServiceAssumption DEF ClientInit, RunningService
<1>2. TypeOK
  <2>1. journal \in Seq(Requests) /\ permits \in 0..MaxWorkers
    BY <1>1 DEF ClientInit, RunningService
  <2>2. /\ stage \in [Connections -> {"unused", "backlog", "accepted", "ended"} \cup Alive]
        /\ socket \in [Connections -> {"none", "open", "shut", "closed"}]
        /\ request \in [Connections -> Requests \cup {NoRequest}]
        /\ outcome \in [Connections -> {"none", "unknown", "complete"}]
        /\ payload \in [Connections -> Frame \cup {NoFrame}]
    BY DEF ClientInit, RunningService
  <2>3. /\ owner \in [Owners -> {"idle", "starting", "listening", "entered", "owning",
                                "sweeping", "shutting", "joining", "settling"}]
        /\ report \in [Owners -> {"nothing", "closed", "failed", "retained"}]
    BY DEF ClientInit, RunningService
  <2> QED BY <2>1, <2>2, <2>3 DEF ClientInit, RunningService, TypeOK
<1>3. PermitsFit
  BY <1>1 DEF ClientInit, RunningService, PermitsFit, PermitsAccounted
<1>4. WorkersFit /\ AcceptorFits /\ SocketsFit /\ CoreFits /\ LandedFits
  BY DEF ClientInit, RunningService, WorkersFit, AcceptorFits, SocketsFit, CoreFits,
         LandedFits, Alive
<1>5. RepliesFit /\ LifecycleFits /\ ClosedOwnsNothing
  BY DEF ClientInit, RunningService, RepliesFit, RepliesTruthful, LifecycleFits,
         ClosedOwnsNothing, Starting, Closing
<1>6. ClientTypeOK
  BY <1>2 DEF ClientInit, NothingAsked, ClientTypeOK
<1>7. FramesFit
  BY DEF ClientInit, RunningService, FramesFit, NoFrame
<1>8. CallsFit /\ AnswersFit /\ LookupsFit
  BY ClientAssumption DEF ClientInit, NothingAsked, CallsFit, AnswersFit, LookupsFit
<1> QED BY <1>2, <1>3, <1>4, <1>5, <1>6, <1>7, <1>8 DEF ClientInv, ServiceInv

(***************************************************************************)
(* Whatever is lost, late or given up between a client and the service,    *)
(* and whoever closes the service meanwhile: an error with outcome none    *)
(* means that the attempt committed nothing and never will, a commit is in *)
(* the journal, and a lookup reports no absence of what was committed      *)
(* before it was called (_request, _decode, the outcome of an error).      *)
(***************************************************************************)
THEOREM CallersAreToldTruth == ClientSpec => []CallersToldTruth
<1>1. ClientInv /\ [ClientNext]_systemVars => ClientInv'
  <2> SUFFICES ASSUME ClientInv, [ClientNext]_systemVars PROVE ClientInv'
    OBVIOUS
  <2>1. CASE (Service \/ Others) /\ UNCHANGED client
    BY <2>1, ServiceStepOfClients
  <2>2. ASSUME NEW k \in Clients, NEW op \in Calls, NEW c \in Connections, NEW r \in Requests,
               Call(k, op, c, r)
        PROVE  ClientInv'
    BY <2>2, CallStep
  <2>3. ASSUME NEW k \in Clients,
               CallFails(k) \/ \E closed \in BOOLEAN : Receive(k, closed) \/ GiveUp(k, closed)
        PROVE  ClientInv'
    BY <2>3, AnswerStep
  <2>4. ASSUME NEW k \in Clients, CloseRetained(k) PROVE ClientInv'
    BY <2>4, CloseRetainedStep
  <2>5. CASE UNCHANGED systemVars
    <3>1. ServiceInv'
      BY <2>5, StutterStep DEF ClientInv, systemVars
    <3>2. ClientTypeOK'
      BY <2>5, <3>1 DEF ClientInv, ClientTypeOK, ServiceInv, systemVars, client
    <3>3. FramesFit' /\ CallsFit' /\ AnswersFit' /\ LookupsFit'
      BY <2>5 DEF ClientInv, FramesFit, CallsFit, AnswersFit, LookupsFit, Past, InJournal,
                  systemVars, client, vars, work
    <3> QED BY <3>1, <3>2, <3>3 DEF ClientInv
  <2> QED BY <2>1, <2>2, <2>3, <2>4, <2>5 DEF ClientNext
<1>2. ClientInv => CallersToldTruth
  <2> SUFFICES ASSUME ClientInv PROVE CallersToldTruth
    OBVIOUS
  <2>1. AnswersTruthful
    BY DEF ClientInv, AnswersFit, Past, AnswersTruthful
  <2>2. AbsenceWasTrue
    BY DEF ClientInv, AnswersFit, AbsenceWasTrue
  <2>3. RepliesTruthful
    BY DEF ClientInv, ServiceInv, RepliesFit
  <2> QED BY <2>1, <2>2, <2>3 DEF CallersToldTruth
<1> QED BY <1>1, <1>2, ClientInitLemma, PTL DEF ClientSpec

-----------------------------------------------------------------------------
(***************************************************************************)
(* The rate limit.  What a bucket has paid since any admission, with what  *)
(* is left in it, never exceeds the window since then, and is all of it    *)
(* since one of them unless the bucket is full.                            *)
(***************************************************************************)
Paid(name) == PaidBy(name, 1, Len(admitted))

Count(name, i) == Cardinality(PaidBy(name, i, Len(admitted)))

\* Whatever the bucket b of name paid for fits a window that ends at b.at.
Covers(name, b) ==
    \A i \in Paid(name) :
        Count(name, i) * Second + b.credit <= Rate(name) * (Second + b.at - admitted[i].at)

\* What is missing in the bucket b of name was paid out.
Accounts(name, b) ==
    \/ b.credit = Rate(name) * Second
    \/ \E i \in Paid(name) :
           Count(name, i) * Second + b.credit >= Rate(name) * (Second + b.at - admitted[i].at)

BucketsFit ==
    \A name \in Names : Covers(name, buckets[name]) /\ Accounts(name, buckets[name])

RateInv == RatesKept /\ BucketsFit

LEMMA RateTypes ==
    /\ Second \in Nat \ {0} /\ Everyone \notin Actors /\ Everyone \in Names /\ MaxTime \in Nat
    /\ \A name \in Names : Rate(name) \in Nat \ {0} /\ Rate(name) * Second \in Nat
    /\ \A a \in Actors : a \in Names
<1>1. /\ ActorRate \in Nat \ {0} /\ GlobalRate \in Nat \ {0} /\ Second \in Nat \ {0}
      /\ Everyone \notin Actors /\ MaxTime \in Nat
  BY RateAssumption
<1>2. \A name \in Names : Rate(name) \in Nat \ {0}
  BY <1>1 DEF Rate
<1>3. \A r, s \in Nat : r * s \in Nat
  OBVIOUS
<1> QED BY <1>1, <1>2, <1>3 DEF Names

\* What a refill makes of a credit c, at the rate r, p ticks after the last one.
Topped(r, s, c, p) ==
    LET more == c + (IF p > s THEN s ELSE p) * r
    IN  IF more > r * s THEN r * s ELSE more

LEMMA RefillArithmetic ==
    ASSUME NEW r \in Nat \ {0}, NEW s \in Nat \ {0}, NEW c \in Nat, c <= r * s, NEW p \in Nat
    PROVE  /\ Topped(r, s, c, p) \in Nat /\ Topped(r, s, c, p) <= r * s
           /\ Topped(r, s, c, p) <= c + r * p
           /\ Topped(r, s, c, p) = r * s \/ Topped(r, s, c, p) = c + r * p
<1>1. r * s \in Nat /\ r * p \in Nat
  OBVIOUS
<1>2. CASE p > s
  <2>1. r * s <= r * p /\ c + s * r >= r * s /\ s * r = r * s
    BY <1>2
  <2>2. Topped(r, s, c, p) = r * s
    BY <1>1, <1>2, <2>1 DEF Topped
  <2> QED BY <1>1, <2>1, <2>2
<1>3. CASE ~(p > s)
  <2>1. Topped(r, s, c, p) = IF c + r * p > r * s THEN r * s ELSE c + r * p
    BY <1>3 DEF Topped
  <2> QED BY <1>1, <2>1
<1> QED BY <1>2, <1>3

LEMMA RefilledFacts ==
    ASSUME RateTypeOK, NEW name \in Names
    PROVE  /\ Refilled(name) = [credit |-> Refilled(name).credit, at |-> now]
           /\ Refilled(name).credit \in Nat /\ Refilled(name).at = now
           /\ Refilled(name).credit <= Rate(name) * Second
           /\ Refilled(name).credit
                  <= buckets[name].credit + Rate(name) * (now - buckets[name].at)
           /\ \/ Refilled(name).credit = Rate(name) * Second
              \/ Refilled(name).credit
                     = buckets[name].credit + Rate(name) * (now - buckets[name].at)
<1> DEFINE c == buckets[name].credit
           p == now - buckets[name].at
           f == Topped(Rate(name), Second, c, p)
<1>1. Refilled(name) = [credit |-> f, at |-> now]
  BY DEF Refilled, Topped
<1>2. c \in Nat /\ c <= Rate(name) * Second /\ p \in Nat
  <2>1. buckets[name] \in [credit: Nat, at: 0..now] /\ now \in Nat
    BY RateTypes DEF RateTypeOK
  <2> QED BY <2>1 DEF RateTypeOK
<1>3. Rate(name) \in Nat \ {0} /\ Second \in Nat \ {0}
  BY RateTypes
<1> HIDE DEF c, p
<1>4. /\ f \in Nat /\ f <= Rate(name) * Second /\ f <= c + Rate(name) * p
      /\ f = Rate(name) * Second \/ f = c + Rate(name) * p
  BY <1>2, <1>3, RefillArithmetic
<1> HIDE DEF f
<1>5. Refilled(name).credit = f /\ Refilled(name).at = now
  BY <1>1
<1> QED BY <1>1, <1>4, <1>5 DEF c, p

\* What is admitted, by place.
LEMMA LogTypes ==
    ASSUME RateTypeOK
    PROVE  /\ Len(admitted) \in Nat /\ now \in Nat
           /\ \A i \in 1..Len(admitted) : admitted[i] \in [actor: Actors, at: 0..now]
           /\ \A name \in Names, i, j \in Int :
                  IsFiniteSet(PaidBy(name, i, j)) /\ Cardinality(PaidBy(name, i, j)) \in Nat
           /\ \A name \in Names : Paid(name) \subseteq 1..Len(admitted)
<1>1. Len(admitted) \in Nat /\ now \in Nat
  BY RateTypes DEF RateTypeOK
<1>2. \A i \in 1..Len(admitted) : admitted[i] \in [actor: Actors, at: 0..now]
  BY ElementOfSeq DEF RateTypeOK
<1>3. ASSUME NEW name \in Names, NEW i \in Int, NEW j \in Int
      PROVE  IsFiniteSet(PaidBy(name, i, j)) /\ Cardinality(PaidBy(name, i, j)) \in Nat
  <2>1. IsFiniteSet(i..j)
    BY FS_Interval
  <2>2. PaidBy(name, i, j) \subseteq i..j
    BY DEF PaidBy
  <2> QED BY <2>1, <2>2, FS_Subset, FS_CardinalityType
<1>4. \A name \in Names : Paid(name) \subseteq 1..Len(admitted)
  BY DEF Paid, PaidBy
<1> QED BY <1>1, <1>2, <1>3, <1>4

LEMMA RefillKeeps ==
    ASSUME RateTypeOK, NEW name \in Names
    PROVE  /\ Covers(name, buckets[name]) => Covers(name, Refilled(name))
           /\ Accounts(name, buckets[name]) => Accounts(name, Refilled(name))
<1> DEFINE r == Rate(name)
           c == buckets[name].credit
           b == buckets[name].at
           f == Refilled(name).credit
<1>1. /\ r \in Nat \ {0} /\ Second \in Nat \ {0} /\ r * Second \in Nat
      /\ now \in Nat /\ c \in Nat /\ b \in 0..now
  BY RateTypes, LogTypes DEF RateTypeOK
<1>2. /\ f \in Nat /\ f <= c + r * (now - b) /\ Refilled(name).at = now
      /\ f = r * Second \/ f = c + r * (now - b)
  BY RefilledFacts
<1>3. ASSUME NEW i \in Paid(name)
      PROVE  /\ admitted[i].at \in Nat /\ Count(name, i) * Second \in Nat
             /\ r * (Second + now - admitted[i].at)
                    = r * (Second + b - admitted[i].at) + r * (now - b)
             /\ r * (Second + b - admitted[i].at) \in Int /\ r * (now - b) \in Int
  <2>1. admitted[i].at \in Nat /\ Count(name, i) \in Nat
    BY LogTypes DEF Count
  <2>2. \A x, y, z, k \in Int : x * (y + z) = x * y + x * z /\ x * y \in Int
    OBVIOUS
  <2> DEFINE u == Second + b - admitted[i].at
             v == now - b
  <2>3. u \in Int /\ v \in Int /\ Second + now - admitted[i].at = u + v
    BY <1>1, <2>1
  <2>4. r * (u + v) = r * u + r * v /\ r * u \in Int /\ r * v \in Int
    <3> HIDE DEF u, v, r
    <3> QED BY <1>1, <2>2, <2>3
  <2>5. Count(name, i) * Second \in Nat
    <3>1. \A x, y \in Nat : x * y \in Nat
      OBVIOUS
    <3> QED BY <1>1, <2>1, <3>1
  <2> QED BY <2>1, <2>3, <2>4, <2>5
<1> HIDE DEF r, c, b, f
<1>4. ASSUME Covers(name, buckets[name]) PROVE Covers(name, Refilled(name))
  <2> SUFFICES ASSUME NEW i \in Paid(name)
               PROVE  Count(name, i) * Second + f <= r * (Second + now - admitted[i].at)
    BY <1>2 DEF Covers, r, f
  <2>1. Count(name, i) * Second + c <= r * (Second + b - admitted[i].at)
    BY <1>4 DEF Covers, r, c, b
  <2>2. r * (now - b) \in Int /\ r * (Second + b - admitted[i].at) \in Int
        /\ Count(name, i) * Second \in Nat
    BY <1>3
  <2>3. \A n, x, y, t \in Int : n + c <= x /\ f <= c + t => n + f <= x + t
    BY <1>1, <1>2
  <2> QED BY <1>2, <1>3, <2>1, <2>2, <2>3
<1>5. ASSUME Accounts(name, buckets[name]) PROVE Accounts(name, Refilled(name))
  <2>1. CASE f = r * Second
    BY <2>1 DEF Accounts, r, f
  <2>2. CASE f # r * Second
    <3>1. f = c + r * (now - b)
      BY <1>2, <2>2
    <3>2. c # r * Second
      <4>1. f <= r * Second
        BY RefilledFacts DEF f, r
      <4>2. r * (now - b) \in Nat
        <5>1. \A x, y \in Nat : x * y \in Nat
          OBVIOUS
        <5>2. now - b \in Nat
          BY <1>1
        <5> QED BY <1>1, <5>1, <5>2
      <4> QED BY <1>1, <2>2, <3>1, <4>1, <4>2
    <3>3. PICK i \in Paid(name) :
              Count(name, i) * Second + c >= r * (Second + b - admitted[i].at)
      BY <1>5, <3>2 DEF Accounts, r, c, b
    <3>4. \A n, x, t \in Int : n + c >= x => n + (c + t) >= x + t
      BY <1>1
    <3>5. Count(name, i) * Second + f >= r * (Second + now - admitted[i].at)
      BY <1>3, <3>1, <3>3, <3>4
    <3> QED BY <1>2, <3>5 DEF Accounts, r, f
  <2> QED BY <2>1, <2>2
<1> QED BY <1>4, <1>5

\* What an admission adds to the log of the buckets that pay for it.
LEMMA LogGrows ==
    ASSUME RateTypeOK, NEW a \in Actors, LetThrough(a), NEW name \in Names,
           NEW n, n = Len(admitted)
    PROVE  /\ Len(admitted') = n + 1 /\ admitted'[n + 1] = [actor |-> a, at |-> now]
           /\ \A i \in 1..n : admitted'[i] = admitted[i]
           /\ \A i, j \in 1..n : PaidBy(name, i, j)' = PaidBy(name, i, j)
           /\ name \notin {a, Everyone} =>
                  /\ Paid(name)' = Paid(name)
                  /\ \A i \in 1..n : Count(name, i)' = Count(name, i)
           /\ name \in {a, Everyone} =>
                  /\ Paid(name)' = Paid(name) \cup {n + 1}
                  /\ \A i \in 1..n : Count(name, i)' = Count(name, i) + 1
                  /\ Count(name, n + 1)' = 1
<1> DEFINE q == [actor |-> a, at |-> now]
<1>1. /\ admitted \in Seq([actor: Actors, at: 0..now]) /\ admitted' = Append(admitted, q)
      /\ q \in [actor: Actors, at: 0..now] /\ n \in Nat
  BY LogTypes DEF RateTypeOK, LetThrough
<1>2. /\ Len(admitted') = n + 1 /\ admitted'[n + 1] = q
      /\ \A i \in 1..n : admitted'[i] = admitted[i]
  BY <1>1, AppendProperties
<1>3. ASSUME NEW i \in 1..n, NEW j \in 1..n PROVE PaidBy(name, i, j)' = PaidBy(name, i, j)
  <2>1. i..j \subseteq 1..n
    BY <1>1
  <2> QED BY <1>2, <2>1 DEF PaidBy
<1>4. name \in {q.actor, Everyone} <=> name \in {a, Everyone}
  OBVIOUS
<1> HIDE DEF q
<1>5. ASSUME NEW i \in 1..n
      PROVE  PaidBy(name, i, Len(admitted))' =
                 IF name \in {a, Everyone} THEN PaidBy(name, i, Len(admitted)) \cup {n + 1}
                 ELSE PaidBy(name, i, Len(admitted))
  <2>1. \A k : k \in i..(n + 1) <=> k \in i..n \/ k = n + 1
    BY <1>1
  <2>2. \A k \in i..n : admitted'[k] = admitted[k]
    BY <1>1, <1>2
  <2>3. \A k : k \in PaidBy(name, i, Len(admitted))' <=>
                   k \in i..(n + 1) /\ name \in {admitted'[k].actor, Everyone}
    BY <1>2 DEF PaidBy
  <2>4. \A k : k \in PaidBy(name, i, Len(admitted)) <=>
                   k \in i..n /\ name \in {admitted[k].actor, Everyone}
    BY DEF PaidBy
  <2> QED BY <1>2, <1>4, <2>1, <2>2, <2>3, <2>4
<1>6. ASSUME name \in {a, Everyone} PROVE PaidBy(name, n + 1, Len(admitted))' = {n + 1}
  <2>1. \A k : k \in (n + 1)..(n + 1) <=> k = n + 1
    BY <1>1
  <2> QED BY <1>2, <1>4, <1>6, <2>1 DEF PaidBy
<1>7. Paid(name)' = IF name \in {a, Everyone} THEN Paid(name) \cup {n + 1} ELSE Paid(name)
  <2>1. CASE n = 0
    <3>1. PaidBy(name, 1, Len(admitted)) = {} /\ n + 1 = 1
      BY <2>1 DEF PaidBy
    <3>2. name \in {a, Everyone} => PaidBy(name, 1, Len(admitted))' = {1}
      BY <1>6, <2>1
    <3>3. name \notin {a, Everyone} => PaidBy(name, 1, Len(admitted))' = {}
      BY <1>2, <1>4, <2>1 DEF PaidBy
    <3> QED BY <3>1, <3>2, <3>3 DEF Paid
  <2>2. CASE n # 0
    <3>1. 1 \in 1..n
      BY <1>1, <2>2
    <3> QED BY <1>5, <3>1 DEF Paid
  <2> QED BY <2>1, <2>2
<1>8. ASSUME NEW i \in 1..n, name \in {a, Everyone} PROVE Count(name, i)' = Count(name, i) + 1
  <2>1. n + 1 \notin PaidBy(name, i, Len(admitted))
    BY <1>1 DEF PaidBy
  <2>2. IsFiniteSet(PaidBy(name, i, Len(admitted)))
    BY LogTypes
  <2>3. Cardinality(PaidBy(name, i, Len(admitted)) \cup {n + 1})
            = Cardinality(PaidBy(name, i, Len(admitted))) + 1
    BY <2>1, <2>2, FS_AddElement
  <2> QED BY <1>5, <1>8, <2>3 DEF Count
<1>9. ASSUME NEW i \in 1..n, name \notin {a, Everyone} PROVE Count(name, i)' = Count(name, i)
  BY <1>5, <1>9 DEF Count
<1>10. name \in {a, Everyone} => Count(name, n + 1)' = 1
  BY <1>6, FS_Singleton DEF Count
<1> QED BY <1>2, <1>3, <1>7, <1>8, <1>9, <1>10 DEF q

LEMMA RateStarts == RateInit => RateInv
<1> SUFFICES ASSUME RateInit PROVE RateInv
  OBVIOUS
<1>1. /\ now = 0 /\ admitted = <<>> /\ Len(admitted) = 0 /\ refusal = NoRefusal
      /\ buckets = [name \in Names |-> [credit |-> Rate(name) * Second, at |-> 0]]
  BY DEF RateInit
<1>2. \A name \in Names : Paid(name) = {} /\ PaidBy(name, 1, Len(admitted)) = {}
  BY <1>1 DEF Paid, PaidBy
<1>3. \A name \in Names :
          /\ buckets[name].credit = Rate(name) * Second /\ Rate(name) * Second \in Nat
          /\ [credit |-> Rate(name) * Second, at |-> 0] \in [credit: Nat, at: 0..0]
  BY <1>1, RateTypes
<1>4. RateTypeOK
  <2>1. admitted \in Seq([actor: Actors, at: 0..now])
    BY <1>1
  <2>2. buckets \in [Names -> [credit: Nat, at: 0..now]]
    BY <1>1, <1>3
  <2>3. now \in 0..MaxTime
    BY <1>1, RateTypes
  <2> QED BY <1>1, <1>3, <2>1, <2>2, <2>3 DEF RateTypeOK
<1>5. WindowsBounded
  BY <1>2 DEF WindowsBounded
<1>6. BucketsFit
  BY <1>2, <1>3 DEF BucketsFit, Covers, Accounts
<1> QED BY <1>1, <1>4, <1>5, <1>6 DEF RateInv, RatesKept, RefusalsEarned

\* An admission takes from a refilled bucket what it adds to the log.
LEMMA AdmissionKeeps ==
    ASSUME RateInv, NEW a \in Actors, LetThrough(a), NEW name \in {a, Everyone}
    PROVE  Covers(name, buckets[name])' /\ Accounts(name, buckets[name])'
<1> DEFINE f == Refilled(name).credit
           r == Rate(name)
<1>1. PICK n : n = Len(admitted)
  OBVIOUS
<1>2. /\ RateTypeOK /\ name \in Names /\ n \in Nat /\ now \in Nat
      /\ r \in Nat \ {0} /\ Second \in Nat \ {0} /\ r * Second \in Nat
      /\ Covers(name, Refilled(name)) /\ Accounts(name, Refilled(name))
  BY <1>1, RateTypes, LogTypes, RefillKeeps DEF RateInv, RatesKept, BucketsFit
<1>3. /\ f \in Nat /\ f <= r * Second /\ f >= Second /\ Refilled(name).at = now
      /\ Refilled(name) = [credit |-> f, at |-> now]
  BY <1>2, RefilledFacts DEF LetThrough, Affordable
<1>4. buckets'[name] = [credit |-> f - Second, at |-> now]
  <2>1. buckets'[name] = [Refilled(name) EXCEPT !.credit = @ - Second]
    BY <1>2 DEF LetThrough
  <2> HIDE DEF f
  <2> QED BY <1>3, <2>1
<1>5. /\ admitted'[n + 1] = [actor |-> a, at |-> now]
      /\ \A i \in 1..n : admitted'[i] = admitted[i]
      /\ Paid(name)' = Paid(name) \cup {n + 1}
      /\ \A i \in 1..n : Count(name, i)' = Count(name, i) + 1
      /\ Count(name, n + 1)' = 1
  BY <1>1, <1>2, LogGrows
<1>6. buckets'[name].credit = f - Second /\ buckets'[name].at = now
  BY <1>4
<1> HIDE DEF f, r
<1>7. ASSUME NEW i \in Paid(name)
      PROVE  /\ Count(name, i)' * Second + buckets'[name].credit = Count(name, i) * Second + f
             /\ r * (Second + now - admitted'[i].at) = r * (Second + now - admitted[i].at)
  <2>1. i \in 1..n /\ Count(name, i) \in Nat
    BY <1>1, <1>2, LogTypes DEF Count
  <2>2. Count(name, i)' = Count(name, i) + 1 /\ admitted'[i] = admitted[i]
    BY <1>5, <2>1
  <2>3. \A k, s, c \in Int : (k + 1) * s + (c - s) = k * s + c
    OBVIOUS
  <2>4. (Count(name, i) + 1) * Second + (f - Second) = Count(name, i) * Second + f
    BY <1>2, <1>3, <2>1, <2>3
  <2> QED BY <1>6, <2>2, <2>4
<1>8. /\ Count(name, n + 1)' * Second + buckets'[name].credit = f
      /\ r * (Second + now - admitted'[n + 1].at) = r * Second
  <2>1. 1 * Second + (f - Second) = f /\ Second + now - now = Second
    BY <1>2, <1>3
  <2> QED BY <1>5, <1>6, <2>1
<1>9. /\ \A i \in Paid(name) : Count(name, i) * Second + f <= r * (Second + now - admitted[i].at)
      /\ \/ f = r * Second
         \/ \E i \in Paid(name) :
                Count(name, i) * Second + f >= r * (Second + now - admitted[i].at)
  BY <1>2, <1>3 DEF Covers, Accounts, f, r
<1>10. ASSUME NEW i \in Paid(name)'
       PROVE  Count(name, i)' * Second + buckets'[name].credit
                  <= r * (Second + now - admitted'[i].at)
  <2>1. CASE i \in Paid(name)
    BY <1>7, <1>9, <2>1
  <2>2. CASE i = n + 1
    BY <1>3, <1>8, <2>2
  <2> QED BY <1>5, <2>1, <2>2
<1>11. Covers(name, buckets[name])'
  BY <1>6, <1>10 DEF Covers, r
<1>12. \E i \in Paid(name)' : Count(name, i)' * Second + buckets'[name].credit
                                  >= r * (Second + now - admitted'[i].at)
  <2>1. CASE f = r * Second
    <3>1. n + 1 \in Paid(name)'
      BY <1>5
    <3>2. r * Second >= r * Second
      BY <1>2
    <3> QED BY <1>8, <2>1, <3>1, <3>2
  <2>2. CASE f # r * Second
    <3>1. PICK i \in Paid(name) :
              Count(name, i) * Second + f >= r * (Second + now - admitted[i].at)
      BY <1>9, <2>2
    <3>2. i \in Paid(name)'
      BY <1>5, <3>1
    <3> QED BY <1>7, <3>1, <3>2
  <2> QED BY <2>1, <2>2
<1>13. Accounts(name, buckets[name])'
  BY <1>6, <1>12 DEF Accounts, r
<1> QED BY <1>11, <1>13

LEMMA LetThroughStep ==
    ASSUME RateInv, NEW a \in Actors, LetThrough(a)
    PROVE  RateInv'
<1>1. PICK n : n = Len(admitted)
  OBVIOUS
<1>2. /\ RateTypeOK /\ WindowsBounded /\ BucketsFit /\ n \in Nat /\ now \in Nat
      /\ now' = now /\ refusal' = NoRefusal
  BY <1>1, LogTypes DEF RateInv, RatesKept, LetThrough
<1>3. \A name \in Names :
          buckets'[name] = IF name \in {a, Everyone}
                           THEN [Refilled(name) EXCEPT !.credit = @ - Second] ELSE buckets[name]
  BY DEF LetThrough
<1>4. ASSUME NEW name \in Names, name \notin {a, Everyone}
      PROVE  Covers(name, buckets[name])' /\ Accounts(name, buckets[name])'
  <2>1. /\ \A i \in 1..n : admitted'[i] = admitted[i] /\ Count(name, i)' = Count(name, i)
        /\ Paid(name)' = Paid(name) /\ Paid(name) \subseteq 1..n /\ buckets'[name] = buckets[name]
    <3>1. Paid(name) \subseteq 1..n
      BY <1>1, <1>2, LogTypes
    <3>2. /\ \A i \in 1..n : admitted'[i] = admitted[i] /\ Count(name, i)' = Count(name, i)
          /\ Paid(name)' = Paid(name)
      BY <1>1, <1>2, <1>4, LogGrows
    <3> QED BY <1>3, <1>4, <3>1, <3>2
  <2> QED BY <1>2, <2>1 DEF BucketsFit, Covers, Accounts
<1>5. BucketsFit'
  <2> SUFFICES ASSUME NEW name \in Names
               PROVE  Covers(name, buckets[name])' /\ Accounts(name, buckets[name])'
    BY DEF BucketsFit
  <2>1. name \in {a, Everyone} \/ name \notin {a, Everyone}
    OBVIOUS
  <2> QED BY <1>4, <2>1, AdmissionKeeps
<1>6. RateTypeOK'
  <2>1. ASSUME NEW name \in Names
        PROVE  buckets'[name] \in [credit: Nat, at: 0..now]
               /\ buckets'[name].credit <= Rate(name) * Second
    <3> DEFINE f == Refilled(name).credit
    <3>1. CASE name \in {a, Everyone}
      <4>1. /\ Refilled(name) = [credit |-> f, at |-> now] /\ f \in Nat
            /\ f <= Rate(name) * Second /\ f >= Second
            /\ Rate(name) * Second \in Nat /\ Second \in Nat
        BY <1>2, <3>1, RefilledFacts, RateTypes DEF LetThrough, Affordable
      <4> HIDE DEF f
      <4>2. buckets'[name] = [credit |-> f - Second, at |-> now]
        BY <1>3, <3>1, <4>1
      <4>3. f - Second \in Nat /\ f - Second <= Rate(name) * Second /\ now \in 0..now
        BY <1>2, <4>1
      <4> QED BY <4>2, <4>3
    <3>2. CASE name \notin {a, Everyone}
      BY <1>2, <1>3, <3>2 DEF RateTypeOK
    <3> QED BY <3>1, <3>2
  <2>2. buckets' \in [Names -> [credit: Nat, at: 0..now]]
    <3>1. buckets' = [name \in Names |-> buckets'[name]]
      BY DEF LetThrough
    <3> QED BY <2>1, <3>1
  <2>3. admitted' \in Seq([actor: Actors, at: 0..now])
    <3>1. [actor |-> a, at |-> now] \in [actor: Actors, at: 0..now]
      BY <1>2
    <3> QED BY <1>2, <3>1, AppendProperties DEF RateTypeOK, LetThrough
  <2> QED BY <1>2, <2>1, <2>2, <2>3 DEF RateTypeOK
<1>7. ASSUME NEW name \in Names, NEW i \in Paid(name)', NEW j \in Paid(name)', i <= j
      PROVE  Cardinality(PaidBy(name, i, j))' * Second
                 <= Rate(name) * (Second + admitted'[j].at - admitted'[i].at)
  <2>1. /\ Paid(name)' \subseteq Paid(name) \cup {n + 1} /\ Paid(name) \subseteq 1..n
        /\ name \notin {a, Everyone} => Paid(name)' = Paid(name)
        /\ \A k, l \in 1..n : PaidBy(name, k, l)' = PaidBy(name, k, l)
        /\ \A k \in 1..n : admitted'[k] = admitted[k]
        /\ Len(admitted') = n + 1 /\ admitted'[n + 1] = [actor |-> a, at |-> now]
    <3>1. Paid(name) \subseteq 1..n
      BY <1>1, <1>2, LogTypes
    <3>2. /\ Len(admitted') = n + 1 /\ admitted'[n + 1] = [actor |-> a, at |-> now]
          /\ \A k \in 1..n : admitted'[k] = admitted[k]
          /\ \A k, l \in 1..n : PaidBy(name, k, l)' = PaidBy(name, k, l)
      BY <1>1, <1>2, LogGrows
    <3>3. /\ name \notin {a, Everyone} => Paid(name)' = Paid(name)
          /\ name \in {a, Everyone} => Paid(name)' = Paid(name) \cup {n + 1}
      BY <1>1, <1>2, LogGrows
    <3> QED BY <3>1, <3>2, <3>3
  <2>2. CASE j = n + 1
    <3>1. name \in {a, Everyone}
      BY <1>2, <2>1, <2>2
    <3>2. Covers(name, buckets[name])'
      BY <3>1, AdmissionKeeps
    <3>3. Count(name, i)' = Cardinality(PaidBy(name, i, j))'
      BY <2>1, <2>2 DEF Count
    <3>4. buckets'[name].at = now /\ buckets'[name].credit \in Nat
      <4>1. buckets'[name] = [Refilled(name) EXCEPT !.credit = @ - Second]
            /\ Refilled(name) = [credit |-> Refilled(name).credit, at |-> now]
        BY <1>2, <1>3, <3>1, RefilledFacts
      <4>2. buckets'[name].at = now
        BY <4>1
      <4>3. buckets'[name].credit \in Nat
        BY <1>6 DEF RateTypeOK
      <4> QED BY <4>2, <4>3
    <3>5. Count(name, i)' * Second + buckets'[name].credit
              <= Rate(name) * (Second + admitted'[j].at - admitted'[i].at)
      BY <2>1, <2>2, <3>2, <3>4 DEF Covers
    <3>6. /\ Count(name, i)' * Second \in Int
          /\ Rate(name) * (Second + admitted'[j].at - admitted'[i].at) \in Int
      <4>1. \A x, y \in Int : x * y \in Int
        OBVIOUS
      <4>2. i \in 1..(n + 1) /\ j \in 1..(n + 1) /\ i \in Int /\ j \in Int
        BY <1>2, <2>1
      <4>3. Cardinality(PaidBy(name, i, j))' \in Nat
        <5>1. PaidBy(name, i, j)' \subseteq i..j
          BY DEF PaidBy
        <5> QED BY <4>2, <5>1, FS_Interval, FS_Subset, FS_CardinalityType
      <4>4. admitted'[i].at \in Nat /\ admitted'[j].at \in Nat
        <5>1. \A k \in 1..(n + 1) : admitted'[k] \in [actor: Actors, at: 0..now]
          BY <1>2, <1>6, <2>1, ElementOfSeq DEF RateTypeOK
        <5> QED BY <1>2, <4>2, <5>1
      <4> QED BY <3>3, <4>1, <4>3, <4>4, RateTypes
    <3> QED BY <3>3, <3>4, <3>5, <3>6
  <2>3. CASE j # n + 1
    <3>1. j \in 1..n /\ i \in 1..n /\ i \in Paid(name) /\ j \in Paid(name)
      BY <1>2, <1>7, <2>1, <2>3
    <3>2. PaidBy(name, i, j)' = PaidBy(name, i, j)
          /\ admitted'[i] = admitted[i] /\ admitted'[j] = admitted[j]
      BY <2>1, <3>1
    <3>3. Cardinality(PaidBy(name, i, j)) * Second
              <= Rate(name) * (Second + admitted[j].at - admitted[i].at)
      BY <1>2, <1>7, <3>1 DEF WindowsBounded, Paid
    <3> QED BY <3>2, <3>3
  <2> QED BY <2>2, <2>3
<1>8. WindowsBounded'
  BY <1>7 DEF WindowsBounded, Paid
<1> QED BY <1>2, <1>5, <1>6, <1>8 DEF RateInv, RatesKept, RefusalsEarned

LEMMA TurnAwayStep ==
    ASSUME RateInv, NEW a \in Actors, TurnAway(a)
    PROVE  RateInv'
<1>1. /\ RateTypeOK /\ WindowsBounded /\ BucketsFit /\ now \in Nat
      /\ now' = now /\ admitted' = admitted /\ refusal' = [actor |-> a, at |-> now]
  BY LogTypes DEF RateInv, RatesKept, TurnAway
<1>2. \A name \in Names :
          buckets'[name] = IF name \in {a, Everyone} THEN Refilled(name) ELSE buckets[name]
  BY DEF TurnAway, AfterRefusal
<1>3. RateTypeOK'
  <2>1. ASSUME NEW name \in Names
        PROVE  buckets'[name] \in [credit: Nat, at: 0..now]
               /\ buckets'[name].credit <= Rate(name) * Second
    <3> DEFINE f == Refilled(name).credit
    <3>1. /\ Refilled(name) = [credit |-> f, at |-> now] /\ f \in Nat
          /\ f <= Rate(name) * Second /\ now \in 0..now
      BY <1>1, RefilledFacts
    <3> HIDE DEF f
    <3>2. Refilled(name) \in [credit: Nat, at: 0..now]
          /\ Refilled(name).credit <= Rate(name) * Second
      BY <3>1
    <3> QED BY <1>1, <1>2, <3>2 DEF RateTypeOK
  <2>2. buckets' \in [Names -> [credit: Nat, at: 0..now]]
    <3>1. buckets' = [name \in Names |-> buckets'[name]]
      BY DEF TurnAway, AfterRefusal
    <3> QED BY <2>1, <3>1
  <2>3. refusal' \in [actor: Actors, at: 0..now]
    BY <1>1
  <2> QED BY <1>1, <2>1, <2>2, <2>3 DEF RateTypeOK
<1>4. \A name \in Names : /\ Paid(name)' = Paid(name)
                          /\ \A i : Count(name, i)' = Count(name, i)
                          /\ \A i, j : PaidBy(name, i, j)' = PaidBy(name, i, j)
  BY <1>1 DEF Paid, Count, PaidBy
<1>5. WindowsBounded'
  BY <1>1, <1>4 DEF WindowsBounded
<1>6. ASSUME NEW name \in Names
      PROVE  Covers(name, Refilled(name)) /\ Accounts(name, Refilled(name))
  BY <1>1, RefillKeeps DEF BucketsFit
<1>7. BucketsFit'
  <2> SUFFICES ASSUME NEW name \in Names
               PROVE  Covers(name, buckets[name])' /\ Accounts(name, buckets[name])'
    BY DEF BucketsFit
  <2>1. CASE name \in {a, Everyone}
    BY <1>1, <1>2, <1>4, <1>6, <2>1 DEF Covers, Accounts
  <2>2. CASE name \notin {a, Everyone}
    BY <1>1, <1>2, <1>4, <2>2 DEF BucketsFit, Covers, Accounts
  <2> QED BY <2>1, <2>2
<1>8. ASSUME NEW name \in {a, Everyone}, ~(Refilled(name).credit >= Second)
      PROVE  UsedUp(name, now)
  <2> DEFINE f == Refilled(name).credit
  <2>1. /\ name \in Names /\ Rate(name) \in Nat \ {0} /\ Second \in Nat \ {0}
        /\ f \in Nat /\ Refilled(name).at = now
    BY <1>1, RateTypes, RefilledFacts
  <2>2. f < Second
    BY <1>8, <2>1
  <2>3. f # Rate(name) * Second
    <3>1. Rate(name) * Second >= Second
      BY <2>1
    <3> QED BY <2>1, <2>2, <3>1
  <2>4. PICK i \in Paid(name) :
            Count(name, i) * Second + f >= Rate(name) * (Second + now - admitted[i].at)
    BY <1>6, <2>1, <2>3 DEF Accounts
  <2> HIDE DEF f
  <2>5. /\ Count(name, i) \in Nat
        /\ Rate(name) * (Second + now - admitted[i].at) \in Int
    <3>1. i \in 1..Len(admitted)
      BY <1>1, <2>1, LogTypes
    <3>2. Count(name, i) \in Nat /\ admitted[i].at \in Nat
      BY <1>1, <2>1, <3>1, LogTypes DEF Count
    <3>3. \A x, y \in Int : x * y \in Int
      OBVIOUS
    <3> QED BY <1>1, <2>1, <3>2, <3>3
  <2>6. (Count(name, i) + 1) * Second > Rate(name) * (Second + now - admitted[i].at)
    <3>1. (Count(name, i) + 1) * Second = Count(name, i) * Second + Second
          /\ Count(name, i) * Second \in Nat
      BY <2>1, <2>5
    <3> QED BY <2>1, <2>2, <2>4, <2>5, <3>1
  <2> QED BY <2>6 DEF UsedUp, Count, Paid
<1>9. RefusalsEarned'
  <2>1. UsedUp(a, now) \/ UsedUp(Everyone, now)
    BY <1>8 DEF TurnAway, Affordable
  <2>2. refusal'.actor = a /\ refusal'.at = now
    BY <1>1
  <2>3. \A name, at : UsedUp(name, at)' <=> UsedUp(name, at)
    BY <1>1 DEF UsedUp, PaidBy
  <2> QED BY <2>1, <2>2, <2>3 DEF RefusalsEarned
<1> QED BY <1>3, <1>5, <1>7, <1>9 DEF RateInv, RatesKept

LEMMA ClockStep ==
    ASSUME RateInv, ClockTicks
    PROVE  RateInv'
<1>1. /\ RateTypeOK /\ WindowsBounded /\ BucketsFit /\ RefusalsEarned /\ now \in Nat
      /\ now < MaxTime /\ now' = now + 1 /\ MaxTime \in Nat
      /\ admitted' = admitted /\ refusal' = refusal /\ buckets' = buckets
  BY LogTypes, RateTypes DEF RateInv, RatesKept, ClockTicks
<1>2. 0..now \subseteq 0..now' /\ now' \in 0..MaxTime
  BY <1>1
<1>3. RateTypeOK'
  <2>1. admitted \in Seq([actor: Actors, at: 0..now'])
    <3>1. \A i \in 1..Len(admitted) : admitted[i] \in [actor: Actors, at: 0..now']
      BY <1>1, <1>2, LogTypes
    <3>2. admitted \in Seq([actor: Actors, at: 0..now]) /\ Len(admitted) \in Nat
      BY <1>1, LogTypes DEF RateTypeOK
    <3>3. admitted \in [1..Len(admitted) -> [actor: Actors, at: 0..now']]
      BY <3>1, <3>2
    <3> DEFINE T == [actor: Actors, at: 0..now']
    <3>4. admitted \in [1..Len(admitted) -> T]
      BY <3>3
    <3> HIDE DEF T
    <3>5. \A k \in Nat : [1..k -> T] \subseteq Seq(T)
      OBVIOUS
    <3>6. admitted \in Seq(T)
      BY <3>2, <3>4, <3>5
    <3> QED BY <3>6 DEF T
  <2>2. buckets \in [Names -> [credit: Nat, at: 0..now']]
    BY <1>1, <1>2 DEF RateTypeOK
  <2>3. refusal \in [actor: Actors, at: 0..now'] \cup {NoRefusal}
    BY <1>1, <1>2 DEF RateTypeOK
  <2> QED BY <1>1, <1>2, <2>1, <2>2, <2>3 DEF RateTypeOK
<1>4. WindowsBounded'
  BY <1>1 DEF WindowsBounded, PaidBy
<1>5. RefusalsEarned'
  BY <1>1 DEF RefusalsEarned, UsedUp, PaidBy
<1>6. BucketsFit'
  <2>1. \A name \in Names :
            /\ Paid(name)' = Paid(name) /\ \A i : Count(name, i)' = Count(name, i)
            /\ buckets'[name] = buckets[name]
    BY <1>1 DEF Paid, Count, PaidBy
  <2> QED BY <1>1, <2>1 DEF BucketsFit, Covers, Accounts
<1> QED BY <1>3, <1>4, <1>5, <1>6 DEF RateInv, RatesKept

LEMMA RateStep == RateInv /\ [RateNext]_rateVars => RateInv'
<1>1. RateInv /\ UNCHANGED rateVars => RateInv'
  BY DEF rateVars, RateInv, RatesKept, RateTypeOK, WindowsBounded, RefusalsEarned, UsedUp,
         BucketsFit, Covers, Accounts, Paid, Count, PaidBy
<1> QED BY <1>1, ClockStep, LetThroughStep, TurnAwayStep DEF RateNext

\* For any number of actors, any rates and any clock, no window of time lets through more
\* than burst and rate allow, and whoever is refused has used up what some window allows
\* (_rate, _Bucket.refill).
THEOREM RatesAreKept == RateSpec => []RatesKept
<1>1. RateInv => RatesKept
  BY DEF RateInv
<1> QED BY <1>1, RateStarts, RateStep, PTL DEF RateSpec
=============================================================================
