-------------------------- MODULE CreditLineProperties --------------------------
(***************************************************************************)
(* What makes the credit line correct.                                     *)
(***************************************************************************)
EXTENDS CreditLine

\* A step in which the position appears.
Opens(p) == ~exists(p) /\ position'[p] # None

\* The last ledger of the term a position was opened for.
TermEnd(p) == position[p].opened_ledger + position[p].tenor_days * LedgersPerDay

-------------------------------------------------------------------------------
(* Whatever the operator and the anchors do (Spec).                        *)

\* A proof opens at most one position: every position has a nullifier of its
\* own, and the nullifier stays burnt after the position is closed.
\* (open_credit writes UsedNullifier before it calls the verifier.)
NullifierSpentOnce ==
  \A p \in PositionIds : exists(p) =>
    /\ position[p].position_nullifier \in usedNullifier
    /\ \A q \in PositionIds \ {p} :
         exists(q) => position[q].position_nullifier # position[p].position_nullifier

\* At the moment a position opens, the collateral really in the account, at
\* the price and haircut then in force, covers the credit: no statement proved
\* against an earlier balance, price or haircut gets through.
CoveredWhenOpened ==
  [][\A p \in PositionIds : Opens(p) =>
       LET new == position'[p] IN
       Sufficient(spendable[<<new.anchor, new.collateral_token>>],
                  new.credit_commitment,
                  prices[new.collateral_token].price_e7,
                  policies[new.collateral_token].haircut_bps)]_vars

\* No position opens on a price that was written longer ago than the policy's
\* staleness bound, however the operator stamped it.  (The oracle refuses
\* future stamps because the credit line's check trusts the stamp.)
NoStalePriceAdmitted ==
  [][\A p \in PositionIds : Opens(p) =>
       LET t == position'[p].collateral_token IN
       ledger - pricedAt[t] <= policies[t].max_staleness_ledgers]_vars

\* Positions can always wind down, paused or not: an outstanding position can
\* be repaid, and once its term is over it can be liquidated, whatever became
\* of its lock.  (pause's doc comment.)
WindDownStaysPossible ==
  \A p \in PositionIds : Outstanding(p) =>
    /\ ENABLED \E m \in TransferAmounts : repay(p, m)
    /\ ledger > TermEnd(p) => ENABLED liquidate(p)

\* Each position lives the life CreditLifecycle describes.
PhaseOf(p) ==
  IF ~exists(p) THEN "none"
  ELSE IF position[p].defaulted THEN "seized"
  ELSE IF ~position[p].open THEN "repaid"
  ELSE IF position[p].drawn THEN "drawn"
  ELSE "opened"

Lifecycle == INSTANCE CreditLifecycle WITH
  now <- ledger,
  phase <- [p \in PositionIds |-> PhaseOf(p)],
  due <- [p \in PositionIds |-> IF exists(p) THEN TermEnd(p) ELSE 0],
  paidOut <- [p \in PositionIds |-> creditMoved[p].drawn],
  paidBack <- [p \in PositionIds |-> creditMoved[p].repaid]

LivesItsLifecycle == Lifecycle!LSpec

\* The part of it that the models of what is off chain rely on.
OnChain == INSTANCE PositionPhases WITH phase <- [p \in PositionIds |-> PhaseOf(p)]

-------------------------------------------------------------------------------
(* When registry and unfreeze are reached through the credit line only     *)
(* (ProtocolSpec).                                                         *)

HoldsItsLock(p) ==
  IsOpen(p) => locks[position[p].lock_key] =
                 [active |-> TRUE, owner |-> position[p].anchor,
                  collateral_token |-> position[p].collateral_token,
                  position_id |-> p, expiry_ledger |-> position[p].due_ledger]

HasHolder(k) ==
  is_locked(k) => /\ IsOpen(locks[k].position_id)
                  /\ position[locks[k].position_id].lock_key = k

\* The registry and the credit line agree: every open position holds an active
\* lock that names it, its anchor and its token and lasts to its due ledger,
\* and every active lock is held by an open position.  So no two open
\* positions share a key, a closing position releases its own lock, and a
\* seized one keeps its lock for good.
LocksMatchPositions ==
  /\ \A p \in PositionIds : HoldsItsLock(p)
  /\ \A k \in LockKeys : HasHolder(k)

\* The freeze on the account of an open position is lifted by one thing only:
\* the repayment of an outstanding position on that account.
FreezeLiftedByRepaymentOnly ==
  [][\A p \in PositionIds :
       (IsOpen(p) /\ AccountOf(p) \in frozen /\ AccountOf(p) \notin frozen') =>
         \E q \in PositionIds :
           Outstanding(q) /\ AccountOf(q) = AccountOf(p) /\ ~position'[q].open]_vars

-------------------------------------------------------------------------------
(* When besides that no account secures two open positions at a time.      *)

\* The account of an open position, seized ones included, is frozen and still
\* holds at least the collateral the position was opened against.
OpenPositionIsSecured ==
  \A p \in PositionIds : IsOpen(p) =>
    /\ AccountOf(p) \in frozen
    /\ spendable[AccountOf(p)] >= position[p].collateral_commitment

-------------------------------------------------------------------------------
(* What comments and documentation say and the contracts alone do not do.  *)

\* README.md: CollateralLockRegistry "prevents double-pledging the same
\* confidential collateral".  Two open positions never rest on one account.
CollateralPledgedOnce ==
  \A p, q \in PositionIds :
    (p # q /\ IsOpen(p) /\ IsOpen(q)) => AccountOf(p) # AccountOf(q)
===============================================================================
