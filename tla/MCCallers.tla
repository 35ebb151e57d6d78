----------------------------- MODULE MCCallers ------------------------------
(***************************************************************************)
(* What callers are told: a client of the service, whose append runs on in *)
(* a worker after it gave up, while it looks the request up or somebody    *)
(* else appends; two actors under the rate limits; and the service itself  *)
(* from its start to its close(), with one permit for two connections.     *)
(***************************************************************************)
EXTENDS WorkflowClient, RateLimit, TLC

MCActorOf == [k \in Clients |-> "ann"]

\* What the clients ask, and an append under the same public IDs by another actor
\* that opened the store itself.
MCRequests ==
    [op: Operations, id: {NamespaceId(k, id) : k \in Clients, id \in RequestIds},
     expected: 0..(MaxJournal - 1)]
        \cup [op: {"append"}, id: {"bob"} \X RequestIds, expected: 0..(MaxJournal - 1)]

VARIABLE system     \* which component this behaviour is of

\* The variables of the service are those of the client's.
Serving == INSTANCE WorkflowService WITH
    Owners <- {"o"}, MaxWorkers <- 1,
    Requests <- {[op |-> "append", id |-> "r", expected |-> 0]}

CallersInit ==
    /\ system \in {"client", "serve", "rate"}
    /\ IF system = "serve" THEN Serving!Init /\ NothingAsked ELSE ClientInit
    /\ RateInit

\* The components share nothing: a behaviour is one of a single component, beside
\* the initial states of the others.
CallersNext ==
    \/ system = "client" /\ ClientNext /\ UNCHANGED <<system, rateVars>>
    \/ system = "serve" /\ Serving!Next /\ UNCHANGED <<system, client, rateVars>>
    \/ system = "rate" /\ RateNext /\ UNCHANGED <<system, systemVars>>

allVars == <<system, systemVars, rateVars>>

\* The connections of the client run out; the other components never have to stop.
Stopped == system = "client" /\ UNCHANGED allVars

CallersSpec == CallersInit /\ [][CallersNext \/ Stopped]_allVars

Symmetry == Permutations(Connections)

-----------------------------------------------------------------------------
\* With two connections for one permit no permit is lost or returned twice, and CLOSED
\* leaves nothing of either connection behind (workflow_service.py); nor do the clients'
\* calls lose one.
PermitsKept ==
    /\ system = "serve" => Serving!TypeOK /\ Serving!PermitsAccounted /\ Serving!ClosedOwnsNothing
    /\ system = "client" => ClientTypeOK /\ PermitsAccounted
=============================================================================
