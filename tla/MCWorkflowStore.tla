--------------------------- MODULE MCWorkflowStore ---------------------------
(***************************************************************************)
(* The workflow store with the real authority replay and two processes.    *)
(***************************************************************************)
EXTENDS WorkflowStore, MCStoreValues, TLC

Symmetry == Permutations(Callers) \cup Permutations(RequestIds)
=============================================================================
