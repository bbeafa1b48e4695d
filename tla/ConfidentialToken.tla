--------------------------- MODULE ConfidentialToken ---------------------------
(***************************************************************************)
(* The confidential tokens as the credit line uses them: the collateral    *)
(* wrappers hold the pledged accounts and can freeze them; the credit      *)
(* token carries the draw and the repayment.  The token logic itself is    *)
(* the OpenZeppelin library; the freeze and unfreeze entry points are this *)
(* repository's.                                                           *)
(*                                                                         *)
(* A Pedersen commitment is represented by the amount it opens to: it is   *)
(* binding, and the contracts only ever compare commitments for equality.  *)
(***************************************************************************)
EXTENDS Chain

CONSTANT Amounts    \* bound: amounts a balance or a transfer may have

ASSUME AmountAssumption == Amounts \subseteq Nat /\ 0 \in Amounts

VARIABLES
  spendable,   \* confidential_balance(account).spendable_balance, opened
  frozen,      \* the accounts whose compliance flag is set
  creditMoved  \* history: what the credit token moved for each position

tokenVars == <<spendable, frozen, creditMoved>>

\* `drawn` went from the facility to the anchor, `repaid` the other way.
NothingMoved == [drawn |-> 0, repaid |-> 0]

TokenTypeOK ==
  /\ spendable \in [Accounts -> Amounts]
  /\ frozen \subseteq Accounts
  /\ creditMoved \in [PositionIds -> [drawn : Amounts, repaid : Amounts]]

TokenInit ==
  /\ spendable \in [Accounts -> Amounts]
  /\ frozen = {}
  /\ creditMoved = [p \in PositionIds |-> NothingMoved]

\* Variant with a plausible bug: opening forgets to encumber the account.
mut_freeze_nothing(account) == account \in Accounts /\ UNCHANGED frozen

\* The flag is a boolean, not a count: freezing twice is freezing once.
freeze(account) == frozen' = frozen \cup {account}

unfreeze(account) == frozen' = frozen \ {account}

\* The holder spends from the account (transfer, withdraw, set_spender), which
\* the compliance hook refuses while it is frozen, or its balance grows.
move_collateral(account, amount) ==
  /\ amount < spendable[account] => account \notin frozen
  /\ spendable' = [spendable EXCEPT ![account] = amount]
  /\ UNCHANGED <<frozen, creditMoved>>

\* confidential_transfer_from() and confidential_transfer(): the amount is
\* inside the opaque transfer_data, proved well-formed to the token alone.
draw_transfer(p, amount) ==
  creditMoved' = [creditMoved EXCEPT ![p].drawn = amount]

repay_transfer(p, amount) ==
  creditMoved' = [creditMoved EXCEPT ![p].repaid = amount]
==============================================================================
