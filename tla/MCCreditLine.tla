------------------------------ MODULE MCCreditLine ------------------------------
(***************************************************************************)
(* Instances of the credit line for TLC.                                   *)
(***************************************************************************)
EXTENDS CreditLineProperties, TLC

\* One eligible policy; a stricter and a laxer one; an ineligible one.
OnePolicy ==
  {[eligible |-> TRUE, haircut_bps |-> 1, max_tenor_days |-> 2, max_staleness_ledgers |-> 9]}

NoHaircut ==
  {[eligible |-> TRUE, haircut_bps |-> 0, max_tenor_days |-> 2, max_staleness_ledgers |-> 9]}

SeveralPolicies ==
  {[eligible |-> TRUE,  haircut_bps |-> 0, max_tenor_days |-> 1, max_staleness_ledgers |-> 1],
   [eligible |-> TRUE,  haircut_bps |-> 1, max_tenor_days |-> 2, max_staleness_ledgers |-> 0],
   [eligible |-> FALSE, haircut_bps |-> 0, max_tenor_days |-> 5, max_staleness_ledgers |-> 1]}

NoQuotes == {}

\* Two-digit prices: a feed with more digits (rounding 19 down to 1 and 9 to
\* nothing), with fewer (30, an overflow), and a feed that answers a negative price.
SomeQuotes == {<<19, 2>>, <<9, 2>>, <<3, 0>>, <<-1, 1>>}

FreshStamp == {0}
AnyStamp == {-1, 0, 1}

Symmetry == Permutations(PositionIds) \cup Permutations(LockKeys) \cup Permutations(Nullifiers)
===============================================================================
