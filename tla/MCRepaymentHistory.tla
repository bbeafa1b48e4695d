--------------------------- MODULE MCRepaymentHistory ---------------------------
(***************************************************************************)
(* An instance of the repayment-history registry for TLC.                  *)
(***************************************************************************)
EXTENDS RepaymentHistory, TLC

CONSTANTS p1, p2

Repayment(p, amount, paid, due) ==
  [position_id |-> p, repayment_amount |-> amount, paid_ledger |-> paid, due_ledger |-> due]

With(secret, repayment) == repayment @@ [leaf_secret |-> secret]

\* A repayment of p1 on time, with either of two secrets, one on its due ledger and
\* one late, one that moved nothing, and one of p2.
MCLeaves ==
  {With("a", Repayment(p1, 3, 1, 2)), With("b", Repayment(p1, 3, 1, 2)),
   With("a", Repayment(p1, 3, 2, 2)), With("a", Repayment(p1, 4, 3, 2)),
   With("a", Repayment(p1, 0, 1, 2)), With("a", Repayment(p2, 3, 1, 2))}

MCDates == {<<1, 2>>, <<2, 1>>}
=================================================================================
