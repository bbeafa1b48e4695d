-------------------------- MODULE MCCreditLineHistory --------------------------
(***************************************************************************)
(* The instance of the credit line that remembers a double pledge.         *)
(***************************************************************************)
EXTENDS MCCreditLine, CreditLineHistory
================================================================================
