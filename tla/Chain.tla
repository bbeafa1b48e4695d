-------------------------------- MODULE Chain --------------------------------
(***************************************************************************)
(* The Soroban host as the contracts see it: the addresses and 32-byte     *)
(* keys that name things, the ledger sequence number, and the arithmetic   *)
(* on it.  A contract call is atomic: it is one step, and a panic anywhere *)
(* in its call tree undoes it, so a failing call is simply not a step.     *)
(***************************************************************************)
EXTENDS Integers

CONSTANTS
  Anchors,        \* accounts of the anchors that pledge and borrow
  Tokens,         \* confidential token contracts used as collateral
  PositionIds,    \* BytesN<32> position ids the callers choose
  LockKeys,       \* BytesN<32> lock keys the callers choose
  Nullifiers,     \* BytesN<32> position nullifiers
  None,           \* an absent entry of persistent storage
  LedgersPerDay,  \* 17_280 in the code
  MaxLedger       \* bound: the last ledger a behaviour reaches

ASSUME ChainAssumption ==
  /\ LedgersPerDay \in Nat \ {0}
  /\ MaxLedger \in Nat

VARIABLE ledger   \* e.ledger().sequence()

\* A confidential account: one holder's balance in one confidential token.
Accounts == Anchors \X Tokens

\* u32::saturating_sub.  (saturating_add and saturating_mul are the plain
\* operations: five days of ledgers are far below 2^32.)
SatSub(a, b) == IF a < b THEN 0 ELSE a - b

\* The ledger `tenor` days after the present one.
LedgerAfter(tenor) == ledger + tenor * LedgersPerDay

\* The network closes a ledger.
CloseLedger ==
  /\ ledger < MaxLedger
  /\ ledger' = ledger + 1
==============================================================================
