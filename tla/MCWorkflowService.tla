-------------------------- MODULE MCWorkflowService --------------------------
(***************************************************************************)
(* The service with a connection, and two owners who start and close it.   *)
(***************************************************************************)
EXTENDS WorkflowService, TLC

Ask(op, id, expected) == [op |-> op, id |-> id, expected |-> expected]

\* An append, and the lookup of the same request.
MCRequests == {Ask("append", "r1", 0), Ask("lookup", "r1", 0)}

\* A stopped service drains by itself, every close() returns, and while the service runs
\* the permits of ended workers come back (workflow_service.py).
ServiceProceeds == Drains /\ CloseEnds /\ PermitsReturn
=============================================================================
