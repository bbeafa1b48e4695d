------------------------------- MODULE MCQuoting -------------------------------
(***************************************************************************)
(* An instance of onboarding and quoting for TLC.                          *)
(***************************************************************************)
EXTENDS Quoting, TLC

Symmetry == Permutations(Loads) \cup Permutations(Customers)
================================================================================
