---------------------------- MODULE MCPublication ----------------------------
(***************************************************************************)
(* Two publishers that must not replace and one that may.                  *)
(***************************************************************************)
EXTENDS Publication, TLC

Symmetry == Permutations(Publishers \ Replacing)
=============================================================================
