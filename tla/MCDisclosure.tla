----------------------------- MODULE MCDisclosure ------------------------------
(***************************************************************************)
(* An instance of disclosure and the auditor's view for TLC.               *)
(***************************************************************************)
EXTENDS Disclosure, TLC

Symmetry == Permutations(Positions)
================================================================================
