------------------------------- MODULE MCConsole -------------------------------
(***************************************************************************)
(* An instance of the pages on the demo flow for TLC.                      *)
(***************************************************************************)
EXTENDS Console, TLC

Symmetry == Permutations(Clients) \cup Permutations(PositionIds)
================================================================================
