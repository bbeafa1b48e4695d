----------------------------- MODULE CreditLineProofs -----------------------------
(***************************************************************************)
(* Theorems about the credit line, for every choice of the constants: types, *)
(* the safety invariants, the life cycle of positions, and from it the     *)
(* phases that the models of what is off chain are built on.               *)
(***************************************************************************)
EXTENDS CreditLineHistory, TLAPS

-------------------------------------------------------------------------------
(* Type correctness, one lemma for the registries the steps write.         *)

\* The registry operations keep the lock table well typed.
LEMMA LockTyped ==
  ASSUME LockTypeOK, ledger \in Nat,
         NEW k \in LockKeys, NEW a \in Anchors, NEW t \in Tokens,
         NEW p \in PositionIds, NEW n \in Nat, lock(k, a, t, p, n)
  PROVE  LockTypeOK'
<1>1. LedgerAfter(n) \in Nat
  BY ChainAssumption DEF LedgerAfter
<1>2. [active |-> TRUE, owner |-> a, collateral_token |-> t, position_id |-> p,
       expiry_ledger |-> LedgerAfter(n)] \in CollateralLock
  BY <1>1 DEF CollateralLock
<1> QED
  BY <1>2 DEF lock, LockTypeOK

LEMMA ReleaseTyped ==
  ASSUME LockTypeOK, NEW k \in LockKeys, release(k)
  PROVE  LockTypeOK'
BY DEF release, LockTypeOK, CollateralLock

\* The operator's maintenance of the three registries keeps them well typed.
LEMMA AdmissionTyped ==
  ASSUME AdmissionTypeOK, ledger \in Nat, AdmissionStep
  PROVE  AdmissionTypeOK'
<1>1. ASSUME NEW a \in Anchors, NEW ok \in BOOLEAN, NEW x \in Expiries,
             set_participant(a, ok, x)
      PROVE  AdmissionTypeOK'
  BY <1>1, AdmissionAssumption DEF set_participant, AdmissionTypeOK, ParticipantStatus
<1>2. ASSUME NEW t \in Tokens, NEW pol \in Policies, set_policy(t, pol)
      PROVE  AdmissionTypeOK'
  <2>1. pol \in CollateralPolicy
    BY <1>2, AdmissionAssumption DEF set_policy, CollateralPolicy
  <2> QED
    BY <1>2, <2>1 DEF set_policy, AdmissionTypeOK
<1>3. ASSUME NEW t \in Tokens, NEW price, NEW u \in Nat, store_price(t, price, u)
      PROVE  AdmissionTypeOK'
  <2>1. [price_e7 |-> price, updated_ledger |-> u] \in PriceData
    BY <1>3 DEF store_price, PriceData
  <2> QED
    BY <1>3, <2>1 DEF store_price, AdmissionTypeOK
<1>4. ASSUME NEW t \in Tokens, NEW pr \in SetPrices, NEW lag \in StampLags,
             set_price(t, pr, ledger - lag)
      PROVE  AdmissionTypeOK'
  <2>1. ledger - lag \in Nat /\ store_price(t, pr, ledger - lag)
    BY <1>4 DEF set_price
  <2> QED
    BY <1>3, <2>1
<1>5. ASSUME NEW t \in Tokens, NEW q \in FeedQuotes, refresh_from_reflector(t, q)
      PROVE  AdmissionTypeOK'
  BY <1>3, <1>5 DEF refresh_from_reflector
<1> QED
  BY <1>1, <1>2, <1>4, <1>5 DEF AdmissionStep

\* open_credit stores a well-formed position.
LEMMA NewPositionTyped ==
  ASSUME TypeOK, NEW p \in PositionIds, NEW a \in Anchors, NEW t \in Tokens,
         NEW s \in Statement, open_credit(p, a, t, s)
  PROVE  /\ s.tenor_days \in Nat
         /\ new_position(a, t, s) \in CreditPosition
<1>1. /\ s.tenor_days \in Nat /\ s.lock_key \in LockKeys
      /\ s.position_nullifier \in Nullifiers /\ s.tenor_days \in 1 .. 5
      /\ s.c_spend \in Amounts /\ s.credit_commitment \in CreditAmounts
  BY CreditAssumption DEF Statement, open_credit
<1>2. LedgerAfter(s.tenor_days) \in Nat
  BY <1>1, ChainAssumption DEF LedgerAfter, TypeOK
<1> QED
  BY <1>1, <1>2 DEF new_position, CreditPosition, TypeOK

LEMMA OpenTyped ==
  ASSUME TypeOK, NEW p \in PositionIds, NEW a \in Anchors, NEW t \in Tokens,
         NEW s \in Statement, open_credit(p, a, t, s)
  PROVE  TypeOK'
<1>1. /\ s.tenor_days \in Nat /\ s.lock_key \in LockKeys
      /\ s.position_nullifier \in Nullifiers
  BY NewPositionTyped DEF Statement
<1>2. LockTypeOK'
  BY <1>1, LockTyped DEF open_credit, TypeOK
<1>3. position' \in [PositionIds -> CreditPosition \cup {None}]
  BY NewPositionTyped DEF open_credit, TypeOK
<1>4. usedNullifier' \subseteq Nullifiers
  BY <1>1 DEF open_credit, spend_nullifier, TypeOK
<1>5. TokenTypeOK'
  <2>1. <<a, t>> \in Accounts
    BY DEF Accounts
  <2> QED
    BY <2>1 DEF open_credit, freeze, TokenTypeOK, TypeOK
<1> QED
  BY <1>2, <1>3, <1>4, <1>5 DEF open_credit, TypeOK, AdmissionTypeOK, admissionVars

\* The calls on an existing position.
LEMMA SettleTyped ==
  ASSUME TypeOK, NEW p \in PositionIds
  PROVE  /\ \A c \in CreditAmounts, m \in TransferAmounts : execute_draw(p, c, m) => TypeOK'
         /\ \A m \in TransferAmounts : repay(p, m) => TypeOK'
         /\ liquidate(p) => TypeOK'
<1>1. Outstanding(p) => position[p] \in CreditPosition
  BY DEF Outstanding, IsOpen, exists, TypeOK
<1>2. TransferAmounts \subseteq Amounts
  BY CreditAssumption
<1>3. ASSUME NEW c \in CreditAmounts, NEW m \in TransferAmounts, execute_draw(p, c, m)
      PROVE  TypeOK'
  <2>1. [position[p] EXCEPT !.drawn = TRUE] \in CreditPosition
    BY <1>1, <1>3 DEF execute_draw, CreditPosition
  <2>2. position' \in [PositionIds -> CreditPosition \cup {None}]
    BY <1>3, <2>1 DEF execute_draw, TypeOK
  <2>3. TokenTypeOK'
    BY <1>2, <1>3 DEF execute_draw, draw_transfer, TokenTypeOK, TypeOK
  <2> QED
    BY <1>3, <2>2, <2>3 DEF execute_draw, TypeOK, LockTypeOK, AdmissionTypeOK, admissionVars
<1>4. ASSUME NEW m \in TransferAmounts, repay(p, m)
      PROVE  TypeOK'
  <2>1. [position[p] EXCEPT !.open = FALSE] \in CreditPosition
    BY <1>1, <1>4 DEF repay, CreditPosition
  <2>2. position' \in [PositionIds -> CreditPosition \cup {None}]
    BY <1>4, <2>1 DEF repay, TypeOK
  <2>3. position[p].lock_key \in LockKeys
    BY <1>1, <1>4 DEF repay, CreditPosition
  <2>4. LockTypeOK'
    BY <1>4, <2>3, ReleaseTyped DEF repay, TypeOK
  <2>5. TokenTypeOK'
    BY <1>2, <1>4 DEF repay, repay_transfer, unfreeze, TokenTypeOK, TypeOK
  <2> QED
    BY <1>4, <2>2, <2>4, <2>5 DEF repay, TypeOK, AdmissionTypeOK, admissionVars
<1>5. ASSUME liquidate(p)
      PROVE  TypeOK'
  <2>1. [position[p] EXCEPT !.defaulted = TRUE] \in CreditPosition
    BY <1>1, <1>5 DEF liquidate, CreditPosition
  <2>2. position' \in [PositionIds -> CreditPosition \cup {None}]
    BY <1>5, <2>1 DEF liquidate, TypeOK
  <2> QED
    BY <1>5, <2>2 DEF liquidate, TypeOK, LockTypeOK, AdmissionTypeOK, TokenTypeOK,
                      admissionVars, tokenVars
<1> QED
  BY <1>3, <1>4, <1>5

LEMMA TypeInit == Init => TypeOK
<1> SUFFICES ASSUME Init
             PROVE  TypeOK
  OBVIOUS
<1>1. LockTypeOK
  BY DEF Init, LockInit, LockTypeOK
<1>2. AdmissionTypeOK
  BY DEF Init, AdmissionInit, AdmissionTypeOK, ParticipantStatus
<1>3. TokenTypeOK
  BY AmountAssumption DEF Init, TokenInit, TokenTypeOK, NothingMoved
<1> QED
  BY <1>1, <1>2, <1>3 DEF Init, TypeOK

LEMMA TypeStep == TypeOK /\ [Next]_vars => TypeOK'
<1> SUFFICES ASSUME TypeOK, [Next]_vars
             PROVE  TypeOK'
  OBVIOUS
<1>1. CASE CreditLineStep
  <2>1. CASE pause \/ unpause
    BY <2>1 DEF pause, unpause, TypeOK, LockTypeOK, AdmissionTypeOK, TokenTypeOK,
                admissionVars, tokenVars
  <2> QED
    BY <1>1, <2>1, OpenTyped, SettleTyped DEF CreditLineStep
<1>2. CASE AdmissionStep
  <2>1. AdmissionTypeOK'
    BY <1>2, AdmissionTyped DEF TypeOK
  <2> QED
    BY <1>2, <2>1 DEF AdmissionStep, TypeOK, LockTypeOK, TokenTypeOK, tokenVars, creditLineVars
<1>3. CASE EnvironmentStep
  <2>1. CASE \E acc \in Accounts, m \in Amounts :
               move_collateral(acc, m) /\ UNCHANGED <<ledger, locks, admissionVars, creditLineVars>>
    BY <2>1 DEF move_collateral, TypeOK, LockTypeOK, AdmissionTypeOK, TokenTypeOK,
                admissionVars, creditLineVars
  <2>2. CASE \E acc \in Accounts :
               freeze(acc) /\ UNCHANGED <<ledger, locks, admissionVars, spendable, creditMoved, creditLineVars>>
    BY <2>2 DEF freeze, TypeOK, LockTypeOK, AdmissionTypeOK, TokenTypeOK,
                admissionVars, creditLineVars
  <2>3. CASE CloseLedger /\ UNCHANGED <<locks, admissionVars, tokenVars, creditLineVars>>
    BY <2>3 DEF CloseLedger, TypeOK, LockTypeOK, AdmissionTypeOK, TokenTypeOK,
                admissionVars, tokenVars, creditLineVars
  <2> QED
    BY <1>3, <2>1, <2>2, <2>3 DEF EnvironmentStep
<1>4. CASE DirectStep
  <2>1. CASE /\ \E k \in LockKeys, a \in Anchors, t \in Tokens, p \in PositionIds : lock(k, a, t, p, 1)
             /\ UNCHANGED <<ledger, admissionVars, tokenVars, creditLineVars>>
    <3>1. LockTypeOK'
      BY <2>1, LockTyped DEF TypeOK
    <3> QED
      BY <2>1, <3>1 DEF TypeOK, AdmissionTypeOK, TokenTypeOK, admissionVars, tokenVars, creditLineVars
  <2>2. CASE /\ \E k \in LockKeys : release(k)
             /\ UNCHANGED <<ledger, admissionVars, tokenVars, creditLineVars>>
    <3>1. LockTypeOK'
      BY <2>2, ReleaseTyped DEF TypeOK
    <3> QED
      BY <2>2, <3>1 DEF TypeOK, AdmissionTypeOK, TokenTypeOK, admissionVars, tokenVars, creditLineVars
  <2>3. CASE /\ \E acc \in Accounts : unfreeze(acc)
             /\ UNCHANGED <<ledger, locks, admissionVars, spendable, creditMoved, creditLineVars>>
    BY <2>3 DEF unfreeze, TypeOK, LockTypeOK, AdmissionTypeOK, TokenTypeOK,
                admissionVars, creditLineVars
  <2> QED
    BY <1>4, <2>1, <2>2, <2>3 DEF DirectStep
<1>5. CASE UNCHANGED vars
  BY <1>5 DEF vars, TypeOK, LockTypeOK, AdmissionTypeOK, TokenTypeOK,
              admissionVars, tokenVars, creditLineVars
<1> QED
  BY <1>1, <1>2, <1>3, <1>4, <1>5 DEF Next

\* Every variable keeps its type, whoever calls what: no price below one is
\* ever stored (InvalidPrice) and every position has a legal tenor (TenorTooLong).
THEOREM TypeCorrect == Spec => []TypeOK
<1> QED
  BY TypeInit, TypeStep, PTL DEF Spec

-------------------------------------------------------------------------------
(* Which steps touch a position.                                           *)

\* The steps that write a position are the four calls of the credit line.
LEMMA PositionSteps ==
  ASSUME [Next]_vars
  PROVE  \/ \E p \in PositionIds, a \in Anchors, t \in Tokens, s \in Statement :
              open_credit(p, a, t, s)
         \/ \E p \in PositionIds, c \in CreditAmounts, m \in TransferAmounts :
              execute_draw(p, c, m)
         \/ \E p \in PositionIds, m \in TransferAmounts : repay(p, m)
         \/ \E p \in PositionIds : liquidate(p)
         \/ UNCHANGED <<position, usedNullifier>>
BY DEF Next, CreditLineStep, AdmissionStep, EnvironmentStep, DirectStep, pause, unpause,
       vars, creditLineVars

\* A call on an existing position changes its three flags and nothing else,
\* and no other position.
SameTerms(p) ==
  exists(p) => /\ position'[p].anchor = position[p].anchor
               /\ position'[p].collateral_token = position[p].collateral_token
               /\ position'[p].lock_key = position[p].lock_key
               /\ position'[p].collateral_commitment = position[p].collateral_commitment
               /\ position'[p].position_nullifier = position[p].position_nullifier
               /\ position'[p].credit_commitment = position[p].credit_commitment
               /\ position'[p].tenor_days = position[p].tenor_days
               /\ position'[p].opened_ledger = position[p].opened_ledger
               /\ position'[p].due_ledger = position[p].due_ledger

LEMMA SettleKeepsTerms ==
  ASSUME TypeOK, NEW p \in PositionIds,
         \/ \E c \in CreditAmounts, m \in TransferAmounts : execute_draw(p, c, m)
         \/ \E m \in TransferAmounts : repay(p, m)
         \/ liquidate(p)
  PROVE  /\ Outstanding(p)
         /\ SameTerms(p)
         /\ position'[p] # None
         /\ \A q \in PositionIds \ {p} : position'[q] = position[q]
         /\ usedNullifier' = usedNullifier
<1>1. Outstanding(p) /\ position[p] \in CreditPosition
  BY DEF execute_draw, repay, liquidate, Outstanding, IsOpen, exists, TypeOK
<1>2. PICK f \in CreditPosition :
        /\ position' = [position EXCEPT ![p] = f]
        /\ f \in {[position[p] EXCEPT !.drawn = TRUE], [position[p] EXCEPT !.open = FALSE],
                  [position[p] EXCEPT !.defaulted = TRUE]}
  <2>1. /\ [position[p] EXCEPT !.drawn = TRUE] \in CreditPosition
        /\ [position[p] EXCEPT !.open = FALSE] \in CreditPosition
        /\ [position[p] EXCEPT !.defaulted = TRUE] \in CreditPosition
    BY <1>1 DEF CreditPosition
  <2> QED
    BY <2>1 DEF execute_draw, repay, liquidate, TypeOK
<1>3. position'[p] = f /\ f # None
  BY <1>2, PositionAssumption DEF TypeOK
<1>4. SameTerms(p)
  BY <1>1, <1>2, <1>3 DEF SameTerms, CreditPosition, exists, Outstanding, IsOpen
<1> QED
  BY <1>1, <1>2, <1>3, <1>4 DEF TypeOK, execute_draw, repay, liquidate

\* What open_credit writes.
LEMMA OpenWrites ==
  ASSUME TypeOK, NEW p \in PositionIds, NEW a \in Anchors, NEW t \in Tokens,
         NEW s \in Statement, open_credit(p, a, t, s)
  PROVE  /\ ~exists(p)
         /\ position'[p] = new_position(a, t, s)
         /\ position'[p] # None
         /\ \A q \in PositionIds \ {p} : position'[q] = position[q]
<1>1. position'[p] = new_position(a, t, s)
  BY DEF open_credit, TypeOK
<1>2. position'[p] # None
  BY <1>1, NewPositionTyped, PositionAssumption
<1> QED
  BY <1>1, <1>2 DEF open_credit, TypeOK

-------------------------------------------------------------------------------
(* The replay guard.                                                       *)

LEMMA NullifierStep ==
  ASSUME TypeOK, NullifierSpentOnce, [Next]_vars
  PROVE  NullifierSpentOnce'
<1>1. ASSUME NEW p \in PositionIds, NEW a \in Anchors, NEW t \in Tokens,
             NEW s \in Statement, open_credit(p, a, t, s)
      PROVE  NullifierSpentOnce'
  <2>1. /\ s.position_nullifier \notin usedNullifier
        /\ usedNullifier' = usedNullifier \cup {s.position_nullifier}
    BY <1>1 DEF open_credit, spend_nullifier
  <2>2. /\ ~exists(p)
        /\ position'[p] = new_position(a, t, s)
        /\ \A q \in PositionIds \ {p} : position'[q] = position[q]
    BY <1>1, OpenWrites
  <2>3. position'[p].position_nullifier = s.position_nullifier
    BY <2>2 DEF new_position
  <2> QED
    BY <2>1, <2>2, <2>3 DEF NullifierSpentOnce, exists
<1>2. ASSUME NEW p \in PositionIds,
             \/ \E c \in CreditAmounts, m \in TransferAmounts : execute_draw(p, c, m)
             \/ \E m \in TransferAmounts : repay(p, m)
             \/ liquidate(p)
      PROVE  NullifierSpentOnce'
  <2>1. /\ exists(p)
        /\ position'[p].position_nullifier = position[p].position_nullifier
        /\ \A q \in PositionIds \ {p} : position'[q] = position[q]
        /\ usedNullifier' = usedNullifier
    BY <1>2, SettleKeepsTerms DEF SameTerms, Outstanding, IsOpen
  <2> QED
    BY <2>1 DEF NullifierSpentOnce, exists
<1>3. CASE UNCHANGED <<position, usedNullifier>>
  BY <1>3 DEF NullifierSpentOnce, exists
<1> QED
  BY <1>1, <1>2, <1>3, PositionSteps

\* open_credit's replay guard: whoever calls what, a nullifier opens at most one
\* position, ever.
THEOREM NullifiersSpentOnce == Spec => []NullifierSpentOnce
<1>1. Init => NullifierSpentOnce
  BY DEF Init, NullifierSpentOnce, exists
<1>2. TypeOK /\ NullifierSpentOnce /\ [Next]_vars => NullifierSpentOnce'
  BY NullifierStep
<1> QED
  BY <1>1, <1>2, TypeCorrect, PTL DEF Spec

-------------------------------------------------------------------------------
(* The registry and the credit line agree.                                 *)

LEMMA ProtocolIsSpec == ProtocolSpec => Spec
<1>1. [ProtocolNext]_vars => [Next]_vars
  BY DEF ProtocolNext, Next
<1> QED
  BY <1>1, PTL DEF ProtocolSpec, Spec

\* The lock of an open position is active.
LEMMA HeldLockIsActive ==
  ASSUME TypeOK, LocksMatchPositions, NEW p \in PositionIds, IsOpen(p)
  PROVE  /\ position[p].lock_key \in LockKeys
         /\ is_locked(position[p].lock_key)
         /\ locks[position[p].lock_key].position_id = p
<1>1. position[p] \in CreditPosition
  BY DEF IsOpen, exists, TypeOK
<1>2. position[p].lock_key \in LockKeys
  BY <1>1 DEF CreditPosition
<1>3. locks[position[p].lock_key] =
         [active |-> TRUE, owner |-> position[p].anchor,
          collateral_token |-> position[p].collateral_token,
          position_id |-> p, expiry_ledger |-> position[p].due_ledger]
  BY DEF LocksMatchPositions, HoldsItsLock
<1>4. locks[position[p].lock_key] \in CollateralLock
  BY <1>1, <1>3 DEF CreditPosition, CollateralLock
<1>5. locks[position[p].lock_key].active = TRUE /\ locks[position[p].lock_key].position_id = p
  BY <1>3
<1>6. locks[position[p].lock_key] # None
  BY <1>4, LockAssumption
<1> QED
  BY <1>2, <1>5, <1>6 DEF is_locked

LEMMA LocksOpenStep ==
  ASSUME TypeOK, LocksMatchPositions,
         NEW p \in PositionIds, NEW a \in Anchors, NEW t \in Tokens,
         NEW s \in Statement, open_credit(p, a, t, s)
  PROVE  LocksMatchPositions'
<1> DEFINE key == s.lock_key
           new == [active |-> TRUE, owner |-> a, collateral_token |-> t,
                   position_id |-> p, expiry_ledger |-> LedgerAfter(s.tenor_days)]
<1>1. /\ key \in LockKeys
      /\ ~is_locked(key)
      /\ locks' = [locks EXCEPT ![key] = new]
  BY DEF Statement, open_credit, lock
<1>2. /\ ~exists(p)
      /\ position'[p] = new_position(a, t, s)
      /\ position'[p] # None
      /\ \A q \in PositionIds \ {p} : position'[q] = position[q]
  BY OpenWrites
<1>3. /\ position'[p].open /\ position'[p].lock_key = key
      /\ position'[p].anchor = a /\ position'[p].collateral_token = t
      /\ position'[p].due_ledger = LedgerAfter(s.tenor_days)
  BY <1>2 DEF new_position
<1>4. locks'[key] = new /\ \A k \in LockKeys \ {key} : locks'[k] = locks[k]
  BY <1>1 DEF TypeOK, LockTypeOK
<1>5. ASSUME NEW q \in PositionIds, IsOpen(q)'
      PROVE  HoldsItsLock(q)'
  <2>1. CASE q = p
    BY <1>3, <1>4, <2>1 DEF HoldsItsLock
  <2>2. CASE q # p
    <3>1. IsOpen(q) /\ position'[q] = position[q]
      BY <1>2, <1>5, <2>2 DEF IsOpen, exists
    <3>2. position[q].lock_key \in LockKeys \ {key}
      BY <1>1, <3>1, HeldLockIsActive
    <3> QED
      BY <1>4, <3>1, <3>2 DEF LocksMatchPositions, HoldsItsLock
  <2> QED
    BY <2>1, <2>2
<1>6. ASSUME NEW k \in LockKeys, is_locked(k)'
      PROVE  HasHolder(k)'
  <2>1. CASE k = key
    BY <1>2, <1>3, <1>4, <2>1 DEF HasHolder, IsOpen, exists
  <2>2. CASE k # key
    <3>1. is_locked(k) /\ locks'[k] = locks[k]
      BY <1>4, <1>6, <2>2 DEF is_locked
    <3>2. locks[k] \in CollateralLock
      BY <3>1 DEF is_locked, TypeOK, LockTypeOK
    <3>3. /\ locks[k].position_id \in PositionIds /\ IsOpen(locks[k].position_id)
          /\ position[locks[k].position_id].lock_key = k
      BY <3>1, <3>2 DEF LocksMatchPositions, HasHolder, CollateralLock
    <3> QED
      BY <1>2, <3>1, <3>3 DEF HasHolder, IsOpen, exists
  <2> QED
    BY <2>1, <2>2
<1> QED
  BY <1>5, <1>6 DEF LocksMatchPositions, HoldsItsLock, HasHolder

LEMMA LocksRepayStep ==
  ASSUME TypeOK, LocksMatchPositions,
         NEW p \in PositionIds, NEW m \in TransferAmounts, repay(p, m)
  PROVE  LocksMatchPositions'
<1>1. /\ IsOpen(p)
      /\ ~position'[p].open
      /\ \A q \in PositionIds \ {p} : position'[q] = position[q]
  BY DEF repay, Outstanding, IsOpen, exists, TypeOK, CreditPosition
<1>2. PICK key \in LockKeys : /\ key = position[p].lock_key
                             /\ is_locked(key) /\ locks[key].position_id = p
  BY <1>1, HeldLockIsActive
<1>3. /\ ~is_locked(key)'
      /\ \A k \in LockKeys \ {key} : locks'[k] = locks[k]
  <2>1. locks[key] \in CollateralLock
    BY <1>2 DEF is_locked, TypeOK, LockTypeOK
  <2>2. locks' = [locks EXCEPT ![key] = [locks[key] EXCEPT !.active = FALSE]]
    BY <1>2 DEF repay, release
  <2>3. locks'[key].active = FALSE
    BY <1>2, <2>1, <2>2 DEF TypeOK, LockTypeOK, CollateralLock
  <2>4. ~is_locked(key)'
    BY <2>3 DEF is_locked
  <2> QED
    BY <1>2, <2>2, <2>4 DEF TypeOK, LockTypeOK
<1>4. ASSUME NEW q \in PositionIds, IsOpen(q)'
      PROVE  HoldsItsLock(q)'
  <2>1. q # p /\ IsOpen(q) /\ position'[q] = position[q]
    BY <1>1, <1>4 DEF IsOpen, exists
  <2>2. position[q].lock_key \in LockKeys \ {key}
    BY <1>2, <2>1, HeldLockIsActive
  <2> QED
    BY <1>3, <2>1, <2>2 DEF LocksMatchPositions, HoldsItsLock
<1>5. ASSUME NEW k \in LockKeys, is_locked(k)'
      PROVE  HasHolder(k)'
  <2>0. k # key
    BY <1>3, <1>5
  <2>1. is_locked(k) /\ locks'[k] = locks[k]
    BY <1>3, <1>5, <2>0 DEF is_locked
  <2>2. locks[k] \in CollateralLock
    BY <2>1 DEF is_locked, TypeOK, LockTypeOK
  <2>3. /\ locks[k].position_id \in PositionIds /\ IsOpen(locks[k].position_id)
        /\ position[locks[k].position_id].lock_key = k
    BY <2>1, <2>2 DEF LocksMatchPositions, HasHolder, CollateralLock
  <2>4. locks[k].position_id # p
    BY <1>2, <2>0, <2>3
  <2> QED
    BY <1>1, <2>1, <2>3, <2>4 DEF HasHolder, IsOpen, exists
<1> QED
  BY <1>4, <1>5 DEF LocksMatchPositions, HoldsItsLock, HasHolder

\* A draw or a seizure leaves open positions open under the same terms, and
\* every lock as it is.
LEMMA LocksKeptStep ==
  ASSUME TypeOK, LocksMatchPositions, NEW p \in PositionIds,
         \/ \E c \in CreditAmounts, m \in TransferAmounts : execute_draw(p, c, m)
         \/ liquidate(p)
  PROVE  LocksMatchPositions'
<1>1. /\ locks' = locks
      /\ SameTerms(p) /\ IsOpen(p) /\ position'[p] # None
      /\ \A q \in PositionIds \ {p} : position'[q] = position[q]
  BY SettleKeepsTerms DEF execute_draw, liquidate, Outstanding
<1>2. position'[p].open = position[p].open
  BY <1>1 DEF execute_draw, liquidate, Outstanding, IsOpen, exists, TypeOK, CreditPosition
<1>3. \A q \in PositionIds : /\ IsOpen(q)' <=> IsOpen(q)
                             /\ IsOpen(q) => /\ position'[q].lock_key = position[q].lock_key
                                             /\ position'[q].anchor = position[q].anchor
                                             /\ position'[q].collateral_token = position[q].collateral_token
                                             /\ position'[q].due_ledger = position[q].due_ledger
  BY <1>1, <1>2 DEF SameTerms, IsOpen, exists
<1>4. ASSUME NEW k \in LockKeys, is_locked(k)'
      PROVE  HasHolder(k)'
  <2>1. is_locked(k) /\ locks[k] \in CollateralLock
    BY <1>1, <1>4 DEF is_locked, TypeOK, LockTypeOK
  <2> QED
    BY <1>1, <1>3, <2>1 DEF LocksMatchPositions, HasHolder, CollateralLock
<1> QED
  BY <1>1, <1>3, <1>4 DEF LocksMatchPositions, HoldsItsLock, HasHolder

LEMMA LocksStep == TypeOK /\ LocksMatchPositions /\ [ProtocolNext]_vars => LocksMatchPositions'
<1> SUFFICES ASSUME TypeOK, LocksMatchPositions, [ProtocolNext]_vars
             PROVE  LocksMatchPositions'
  OBVIOUS
<1>1. CASE CreditLineStep
  <2>1. CASE pause \/ unpause
    BY <2>1 DEF pause, unpause, LocksMatchPositions, HoldsItsLock, HasHolder, IsOpen, exists, is_locked
  <2> QED
    BY <1>1, <2>1, LocksOpenStep, LocksRepayStep, LocksKeptStep DEF CreditLineStep
<1>2. CASE UNCHANGED <<locks, position>>
  BY <1>2 DEF LocksMatchPositions, HoldsItsLock, HasHolder, IsOpen, exists, is_locked
<1>3. AdmissionStep \/ EnvironmentStep \/ UNCHANGED vars => UNCHANGED <<locks, position>>
  BY DEF AdmissionStep, EnvironmentStep, vars, creditLineVars
<1> QED
  BY <1>1, <1>2, <1>3 DEF ProtocolNext

\* open_credit locks and repay releases: as long as the registry is reached
\* through the credit line only, its active locks and the open positions are in one-to-one correspondence.
THEOREM LocksMatch == ProtocolSpec => []LocksMatchPositions
<1>1. Init => LocksMatchPositions
  BY DEF Init, LockInit, LocksMatchPositions, HoldsItsLock, HasHolder, IsOpen, exists, is_locked
<1>2. ProtocolSpec => []TypeOK
  BY ProtocolIsSpec, TypeCorrect
<1> QED
  BY <1>1, <1>2, LocksStep, PTL DEF ProtocolSpec

-------------------------------------------------------------------------------
(* Collateral under the rule of one pledge per account.                    *)

\* A position open after a step that opens none was open before it, on the
\* same account and against the same commitment.
LEMMA StillOpen ==
  ASSUME TypeOK, [Next]_vars,
         ~ \E p \in PositionIds, a \in Anchors, t \in Tokens, s \in Statement :
             open_credit(p, a, t, s)
  PROVE  \A q \in PositionIds : IsOpen(q)' =>
           /\ IsOpen(q)
           /\ AccountOf(q)' = AccountOf(q)
           /\ position'[q].collateral_commitment = position[q].collateral_commitment
<1>1. ASSUME NEW p \in PositionIds,
             \/ \E c \in CreditAmounts, m \in TransferAmounts : execute_draw(p, c, m)
             \/ \E m \in TransferAmounts : repay(p, m)
             \/ liquidate(p)
      PROVE  \A q \in PositionIds : IsOpen(q)' =>
               /\ IsOpen(q)
               /\ AccountOf(q)' = AccountOf(q)
               /\ position'[q].collateral_commitment = position[q].collateral_commitment
  <2>1. /\ SameTerms(p) /\ IsOpen(p)
        /\ \A q \in PositionIds \ {p} : position'[q] = position[q]
    BY <1>1, SettleKeepsTerms DEF Outstanding
  <2> QED
    BY <2>1 DEF SameTerms, IsOpen, exists, AccountOf
<1>2. CASE UNCHANGED position
  BY <1>2 DEF IsOpen, exists, AccountOf
<1> QED
  BY <1>1, <1>2, PositionSteps

LEMMA PledgedOnceStep ==
  ASSUME TypeOK, CollateralPledgedOnce, [DisciplinedNext]_vars
  PROVE  CollateralPledgedOnce'
<1>1. [Next]_vars
  BY DEF DisciplinedNext, ProtocolNext, Next
<1>2. ASSUME NEW p \in PositionIds, NEW a \in Anchors, NEW t \in Tokens,
             NEW s \in Statement, open_credit(p, a, t, s)
      PROVE  CollateralPledgedOnce'
  <2>1. /\ ~exists(p)
        /\ position'[p] # None
        /\ \A q \in PositionIds \ {p} : position'[q] = position[q]
    BY <1>2, OpenWrites
  <2>2. OnePledgePerAccount
    BY <2>1 DEF DisciplinedNext, vars, creditLineVars, exists
  <2>3. \A q \in PositionIds : IsOpen(q) => AccountOf(q) # AccountOf(p)'
    BY <2>1, <2>2 DEF OnePledgePerAccount, AccountOf
  <2>4. \A q \in PositionIds \ {p} : /\ IsOpen(q)' => IsOpen(q)
                                     /\ AccountOf(q)' = AccountOf(q)
    BY <2>1 DEF IsOpen, exists, AccountOf
  <2> QED
    BY <2>3, <2>4 DEF CollateralPledgedOnce
<1>3. CASE ~ \E p \in PositionIds, a \in Anchors, t \in Tokens, s \in Statement :
               open_credit(p, a, t, s)
  BY <1>1, <1>3, StillOpen DEF CollateralPledgedOnce
<1> QED
  BY <1>2, <1>3

\* Steps other than repaying leave accounts of open positions encumbered.
LEMMA SecuredStep ==
  ASSUME TypeOK, CollateralPledgedOnce, OpenPositionIsSecured, [DisciplinedNext]_vars
  PROVE  OpenPositionIsSecured'
<1> DEFINE Secured(q) == /\ AccountOf(q) \in frozen
                         /\ spendable[AccountOf(q)] >= position[q].collateral_commitment
<1>1. [Next]_vars
  BY DEF DisciplinedNext, ProtocolNext, Next
<1>2. ASSUME NEW p \in PositionIds, NEW a \in Anchors, NEW t \in Tokens,
             NEW s \in Statement, open_credit(p, a, t, s),
             NEW q \in PositionIds, IsOpen(q)'
      PROVE  Secured(q)'
  <2>1. /\ position'[p] = new_position(a, t, s)
        /\ \A r \in PositionIds \ {p} : position'[r] = position[r]
    BY <1>2, OpenWrites
  <2>2. /\ frozen' = frozen \cup {<<a, t>>}
        /\ spendable' = spendable
        /\ s.c_spend = spendable[<<a, t>>]
    BY <1>2 DEF open_credit, freeze, public_inputs_match
  <2>3. CASE q = p
    <3>1. AccountOf(q)' = <<a, t>> /\ position'[q].collateral_commitment = s.c_spend
      BY <2>1, <2>3 DEF new_position, AccountOf
    <3>2. spendable[<<a, t>>] \in Nat
      BY AmountAssumption DEF TypeOK, TokenTypeOK, Accounts
    <3> QED
      BY <2>2, <3>1, <3>2
  <2>4. CASE q # p
    BY <1>2, <2>1, <2>2, <2>4 DEF OpenPositionIsSecured, IsOpen, exists, AccountOf
  <2> QED
    BY <2>3, <2>4
<1>3. ASSUME NEW q \in PositionIds, IsOpen(q)',
             ~ \E p \in PositionIds, a \in Anchors, t \in Tokens, s \in Statement :
                 open_credit(p, a, t, s)
      PROVE  Secured(q)'
  <2>1. /\ IsOpen(q)
        /\ AccountOf(q)' = AccountOf(q)
        /\ position'[q].collateral_commitment = position[q].collateral_commitment
    BY <1>1, <1>3, StillOpen
  <2>2. AccountOf(q) \in frozen /\ spendable[AccountOf(q)] >= position[q].collateral_commitment
    BY <2>1 DEF OpenPositionIsSecured
  <2>3. position[q] \in CreditPosition
    BY <2>1 DEF IsOpen, exists, TypeOK
  <2>4. AccountOf(q) \in Accounts /\ position[q].collateral_commitment \in Nat
    BY <2>3, AmountAssumption DEF AccountOf, Accounts, CreditPosition
  <2>5. ASSUME NEW p \in PositionIds, NEW m \in TransferAmounts, repay(p, m)
        PROVE  Secured(q)'
    <3>1. /\ IsOpen(p) /\ ~position'[p].open
          /\ frozen' = frozen \ {AccountOf(p)} /\ spendable' = spendable
      BY <2>5 DEF repay, unfreeze, Outstanding, IsOpen, exists, TypeOK, CreditPosition
    <3>2. q # p
      BY <1>3, <3>1 DEF IsOpen
    <3>3. AccountOf(q) # AccountOf(p)
      BY <2>1, <3>1, <3>2 DEF CollateralPledgedOnce
    <3> QED
      BY <2>1, <2>2, <3>1, <3>3
  <2>6. ASSUME NEW acc \in Accounts, NEW m \in Amounts, move_collateral(acc, m)
        PROVE  Secured(q)'
    <3>1. frozen' = frozen /\ spendable' = [spendable EXCEPT ![acc] = m]
      BY <2>6 DEF move_collateral
    <3>2. acc = AccountOf(q) => m >= spendable[acc]
      <4>1. m \in Nat /\ spendable[acc] \in Nat
        BY AmountAssumption DEF TypeOK, TokenTypeOK
      <4> QED
        BY <2>2, <2>6, <4>1 DEF move_collateral
    <3>3. spendable'[AccountOf(q)] >= spendable[AccountOf(q)]
      <4>1. spendable[AccountOf(q)] \in Nat
        BY <2>4, AmountAssumption DEF TypeOK, TokenTypeOK
      <4> QED
        BY <2>4, <3>1, <3>2, <4>1 DEF TypeOK, TokenTypeOK
    <3>4. spendable'[AccountOf(q)] \in Nat /\ spendable[AccountOf(q)] \in Nat
      BY <2>4, <3>1, AmountAssumption DEF TypeOK, TokenTypeOK
    <3> QED
      BY <2>1, <2>2, <2>4, <3>1, <3>3, <3>4
  <2>7. CASE spendable' = spendable /\ frozen \subseteq frozen'
    BY <2>1, <2>2, <2>7
  <2>8. \/ \E p \in PositionIds, m \in TransferAmounts : repay(p, m)
        \/ \E acc \in Accounts, m \in Amounts : move_collateral(acc, m)
        \/ spendable' = spendable /\ frozen \subseteq frozen'
    BY <1>3 DEF DisciplinedNext, ProtocolNext, CreditLineStep, AdmissionStep, EnvironmentStep,
       execute_draw, draw_transfer, liquidate, pause, unpause, freeze, vars, tokenVars
  <2> QED
    BY <2>5, <2>6, <2>7, <2>8
<1> QED
  BY <1>2, <1>3 DEF OpenPositionIsSecured

\* The inductive invariant: what is pledged once can be followed to its account.
SecuredInv ==
  /\ TypeOK /\ pledgedOnce \in BOOLEAN
  /\ pledgedOnce => CollateralPledgedOnce /\ OpenPositionIsSecured

\* open_credit freezes the account and repay unfreezes it: as long as no account
\* was pledged twice at a time, every open position, seized ones included, keeps
\* its collateral frozen and whole, and no two rest on one account.
THEOREM CollateralSecured ==
  HistorySpec => [](SecuredWhilePledgedOnce /\ (pledgedOnce => CollateralPledgedOnce))
<1>1. HistoryInit => SecuredInv
  BY TypeInit DEF HistoryInit, Init, SecuredInv, CollateralPledgedOnce, OpenPositionIsSecured,
     IsOpen, exists
<1>2. SecuredInv /\ [HistoryNext]_historyVars => SecuredInv'
  <2> SUFFICES ASSUME SecuredInv, [HistoryNext]_historyVars
               PROVE  SecuredInv'
    OBVIOUS
  <2>1. TypeOK'
    BY TypeStep DEF SecuredInv, HistoryNext, historyVars, ProtocolNext, Next
  <2>2. pledgedOnce' \in BOOLEAN
    BY DEF SecuredInv, HistoryNext, historyVars
  <2>3. ASSUME pledgedOnce'
        PROVE  CollateralPledgedOnce' /\ OpenPositionIsSecured'
    <3>1. pledgedOnce /\ [DisciplinedNext]_vars
      BY <2>3 DEF SecuredInv, HistoryNext, historyVars, DisciplinedNext
    <3> QED
      BY <3>1, PledgedOnceStep, SecuredStep DEF SecuredInv
  <2> QED
    BY <2>1, <2>2, <2>3 DEF SecuredInv
<1>3. SecuredInv => SecuredWhilePledgedOnce /\ (pledgedOnce => CollateralPledgedOnce)
  BY DEF SecuredInv, SecuredWhilePledgedOnce
<1> QED
  BY <1>1, <1>2, <1>3, PTL DEF HistorySpec

-------------------------------------------------------------------------------
(* What open_credit admits.                                                *)

\* Only open_credit makes a position appear.
LEMMA OnlyOpenCreditOpens ==
  ASSUME TypeOK, [Next]_vars, NEW p \in PositionIds, Opens(p)
  PROVE  \E a \in Anchors, t \in Tokens, s \in Statement :
           /\ open_credit(p, a, t, s)
           /\ position'[p] = new_position(a, t, s)
<1>1. ASSUME NEW q \in PositionIds, NEW a \in Anchors, NEW t \in Tokens,
             NEW s \in Statement, open_credit(q, a, t, s)
      PROVE  p = q /\ position'[p] = new_position(a, t, s)
  BY <1>1, OpenWrites DEF Opens, exists
<1>2. ASSUME NEW q \in PositionIds,
             \/ \E c \in CreditAmounts, m \in TransferAmounts : execute_draw(q, c, m)
             \/ \E m \in TransferAmounts : repay(q, m)
             \/ liquidate(q)
      PROVE  FALSE
  BY <1>2, SettleKeepsTerms DEF Opens, Outstanding, IsOpen, exists
<1>3. ~ UNCHANGED <<position, usedNullifier>>
  BY DEF Opens, exists
<1> QED
  BY <1>1, <1>2, <1>3, PositionSteps

\* open_credit compares the proof's public inputs with the balance, the price
\* and the policy of the moment, so no position opens that its collateral, as
\* it then is and is then priced, does not cover.
THEOREM CoverageAtOpening == Spec => CoveredWhenOpened
<1> DEFINE Covered == \A p \in PositionIds : Opens(p) =>
             LET new == position'[p] IN
             Sufficient(spendable[<<new.anchor, new.collateral_token>>],
                        new.credit_commitment,
                        prices[new.collateral_token].price_e7,
                        policies[new.collateral_token].haircut_bps)
<1>1. TypeOK /\ [Next]_vars => Covered
  <2> SUFFICES ASSUME TypeOK, [Next]_vars, NEW p \in PositionIds, Opens(p)
               PROVE  LET new == position'[p] IN
                      Sufficient(spendable[<<new.anchor, new.collateral_token>>],
                                 new.credit_commitment,
                                 prices[new.collateral_token].price_e7,
                                 policies[new.collateral_token].haircut_bps)
    OBVIOUS
  <2>1. PICK a \in Anchors, t \in Tokens, s \in Statement :
          /\ open_credit(p, a, t, s)
          /\ position'[p] = new_position(a, t, s)
    BY OnlyOpenCreditOpens
  <2>2. Sufficient(spendable[<<a, t>>], s.credit_commitment,
                   prices[t].price_e7, policies[t].haircut_bps)
    BY <2>1 DEF open_credit, public_inputs_match, verify_collateral_sufficiency
  <2>3. /\ position'[p].anchor = a /\ position'[p].collateral_token = t
        /\ position'[p].credit_commitment = s.credit_commitment
    BY <2>1 DEF new_position
  <2> QED
    BY <2>2, <2>3
<1> QED
  BY <1>1, TypeCorrect, PTL DEF Spec, CoveredWhenOpened

\* The inductive invariant behind the staleness bound: a stamp never lies after
\* the ledger its price was written in.
StampsNotAhead ==
  \A t \in Tokens : prices[t] # None =>
    /\ prices[t].updated_ledger <= pricedAt[t]
    /\ pricedAt[t] <= ledger

LEMMA StampsNotAheadStep ==
  TypeOK /\ StampsNotAhead /\ [Next]_vars => StampsNotAhead'
<1> SUFFICES ASSUME TypeOK, StampsNotAhead, [Next]_vars
             PROVE  StampsNotAhead'
  OBVIOUS
<1>1. ASSUME NEW t \in Tokens, NEW price, NEW u \in Nat, store_price(t, price, u),
             u <= ledger, ledger' = ledger
      PROVE  StampsNotAhead'
  <2>1. /\ prices' = [prices EXCEPT ![t] = [price_e7 |-> price, updated_ledger |-> u]]
        /\ pricedAt' = [pricedAt EXCEPT ![t] = ledger]
    BY <1>1 DEF store_price
  <2> QED
    BY <1>1, <2>1 DEF StampsNotAhead, TypeOK, AdmissionTypeOK
<1>2. CASE AdmissionStep
  <2>1. CASE \E t \in Tokens, pr \in SetPrices, lag \in StampLags :
               set_price(t, pr, ledger - lag)
    BY <1>1, <1>2, <2>1 DEF set_price, AdmissionStep, TypeOK
  <2>2. CASE \E t \in Tokens, q \in FeedQuotes : refresh_from_reflector(t, q)
    BY <1>1, <1>2, <2>2 DEF refresh_from_reflector, AdmissionStep, TypeOK
  <2>3. CASE UNCHANGED <<ledger, prices, pricedAt>>
    BY <2>3 DEF StampsNotAhead
  <2> QED
    BY <1>2, <2>1, <2>2, <2>3 DEF AdmissionStep, set_participant, set_policy
<1>3. CASE UNCHANGED <<prices, pricedAt>> /\ (ledger' = ledger \/ ledger' = ledger + 1)
  BY <1>3 DEF StampsNotAhead, TypeOK, AdmissionTypeOK
<1>4. CASE CreditLineStep \/ DirectStep \/ UNCHANGED vars
  <2>1. UNCHANGED <<ledger, admissionVars>>
    BY <1>4 DEF CreditLineStep, open_credit, execute_draw, repay, liquidate, pause, unpause,
                DirectStep, vars
  <2> QED
    BY <1>3, <2>1 DEF admissionVars
<1>5. CASE EnvironmentStep
  BY <1>3, <1>5 DEF EnvironmentStep, CloseLedger, admissionVars
<1> QED
  BY <1>2, <1>4, <1>5 DEF Next

\* The oracle refuses stamps that lie in the future, and open_credit prices that
\* are stale by their stamp: the price a position opens on was really written
\* within the policy's staleness bound.
THEOREM OpenedOnFreshPrice == Spec => NoStalePriceAdmitted
<1> DEFINE Fresh == \A p \in PositionIds : Opens(p) =>
             LET t == position'[p].collateral_token IN
             ledger - pricedAt[t] <= policies[t].max_staleness_ledgers
<1>1. Init => StampsNotAhead
  BY DEF Init, AdmissionInit, StampsNotAhead
<1>2. Spec => []StampsNotAhead
  BY <1>1, StampsNotAheadStep, TypeCorrect, PTL DEF Spec
<1>3. TypeOK /\ StampsNotAhead /\ [Next]_vars => Fresh
  <2> SUFFICES ASSUME TypeOK, StampsNotAhead, [Next]_vars,
                      NEW p \in PositionIds, Opens(p)
               PROVE  LET t == position'[p].collateral_token IN
                      ledger - pricedAt[t] <= policies[t].max_staleness_ledgers
    OBVIOUS
  <2>1. PICK a \in Anchors, t \in Tokens, s \in Statement :
          /\ open_credit(p, a, t, s)
          /\ position'[p] = new_position(a, t, s)
    BY OnlyOpenCreditOpens
  <2>2. position'[p].collateral_token = t
    BY <2>1 DEF new_position
  <2>3. /\ prices[t] \in PriceData /\ prices[t] # None
        /\ policies[t] \in CollateralPolicy
        /\ SatSub(ledger, prices[t].updated_ledger) <= policies[t].max_staleness_ledgers
    BY <2>1 DEF open_credit, is_fresh, TypeOK, AdmissionTypeOK
  <2>4. /\ prices[t].updated_ledger \in Nat /\ pricedAt[t] \in Nat /\ ledger \in Nat
        /\ policies[t].max_staleness_ledgers \in Nat
    BY <2>3 DEF PriceData, CollateralPolicy, TypeOK, AdmissionTypeOK
  <2>5. prices[t].updated_ledger <= pricedAt[t] /\ pricedAt[t] <= ledger
    BY <2>3 DEF StampsNotAhead
  <2>6. ledger - pricedAt[t] <= policies[t].max_staleness_ledgers
    BY <2>3, <2>4, <2>5 DEF SatSub
  <2> QED
    BY <2>2, <2>6
<1> QED
  BY <1>2, <1>3, TypeCorrect, PTL DEF Spec, NoStalePriceAdmitted

-------------------------------------------------------------------------------
(* The freeze.                                                             *)

\* repay is the only caller of unfreeze: as long as the token is reached through
\* the credit line, the account of an open position leaves its freeze by the
\* repayment of an outstanding position on that account and by nothing else.
THEOREM FreezeLifted == ProtocolSpec => FreezeLiftedByRepaymentOnly
<1> DEFINE Lifted == \A p \in PositionIds :
             (IsOpen(p) /\ AccountOf(p) \in frozen /\ AccountOf(p) \notin frozen') =>
               \E q \in PositionIds :
                 Outstanding(q) /\ AccountOf(q) = AccountOf(p) /\ ~position'[q].open
<1>1. TypeOK /\ [ProtocolNext]_vars => Lifted
  <2> SUFFICES ASSUME TypeOK, [ProtocolNext]_vars, NEW p \in PositionIds,
                      AccountOf(p) \in frozen, AccountOf(p) \notin frozen'
               PROVE  \E q \in PositionIds :
                        Outstanding(q) /\ AccountOf(q) = AccountOf(p) /\ ~position'[q].open
    OBVIOUS
  <2>1. PICK q \in PositionIds, m \in TransferAmounts : repay(q, m)
    BY DEF ProtocolNext, CreditLineStep, open_credit, execute_draw, draw_transfer, liquidate,
           pause, unpause, AdmissionStep, EnvironmentStep, move_collateral, freeze,
           vars, tokenVars
  <2>2. Outstanding(q) /\ frozen' = frozen \ {AccountOf(q)}
    BY <2>1 DEF repay, unfreeze
  <2>3. ~position'[q].open
    BY <2>1 DEF repay, Outstanding, IsOpen, exists, TypeOK, CreditPosition
  <2> QED
    BY <2>2, <2>3
<1>2. ProtocolSpec => []TypeOK
  BY ProtocolIsSpec, TypeCorrect
<1> QED
  BY <1>1, <1>2, PTL DEF ProtocolSpec, FreezeLiftedByRepaymentOnly

-------------------------------------------------------------------------------
(* Each position lives the life CreditLifecycle describes.                 *)

\* What the four calls do to the phase of a position, and to the money.
Moves(p, from, to) ==
  /\ PhaseOf(p) \in from /\ PhaseOf(p)' = to
  /\ \A q \in PositionIds \ {p} : PhaseOf(q)' = PhaseOf(q)

\* The due ledger stored when a position opened is the last ledger of its term,
\* which is not in the past.
DueIsTermEnd ==
  \A p \in PositionIds : exists(p) => position[p].due_ledger = TermEnd(p)

DueLedgers == [p \in PositionIds |-> IF exists(p) THEN TermEnd(p) ELSE 0]

LEMMA DueIsTermEndStep ==
  TypeOK /\ DueIsTermEnd /\ [Next]_vars => DueIsTermEnd'
<1> SUFFICES ASSUME TypeOK, DueIsTermEnd, [Next]_vars, NEW p \in PositionIds, exists(p)'
             PROVE  position'[p].due_ledger = TermEnd(p)'
  BY DEF DueIsTermEnd
<1>1. CASE Opens(p)
  <2>1. PICK a \in Anchors, t \in Tokens, s \in Statement :
               position'[p] = new_position(a, t, s)
    BY <1>1, OnlyOpenCreditOpens
  <2> QED
    BY <2>1 DEF new_position, LedgerAfter, TermEnd
<1>2. CASE exists(p) /\ position'[p] = position[p]
  BY <1>2 DEF DueIsTermEnd, TermEnd
<1>3. CASE exists(p) /\ SameTerms(p)
  BY <1>3 DEF DueIsTermEnd, TermEnd, SameTerms
<1>4. Opens(p) \/ (exists(p) /\ position'[p] = position[p]) \/ (exists(p) /\ SameTerms(p))
  <2>1. ASSUME exists(p)
        PROVE  position'[p] = position[p] \/ SameTerms(p)
    BY <2>1, PositionSteps, OpenWrites, SettleKeepsTerms
  <2> QED
    BY <2>1 DEF Opens, exists
<1> QED
  BY <1>1, <1>2, <1>3, <1>4

\* The life of a position that is called upon.
LEMMA LifeOfOpened ==
  ASSUME TypeOK, NEW p \in PositionIds, NEW a \in Anchors, NEW t \in Tokens,
         NEW s \in Statement, open_credit(p, a, t, s)
  PROVE  /\ Moves(p, {"none"}, "opened")
         /\ DueLedgers' = [DueLedgers EXCEPT ![p] = DueLedgers'[p]]
         /\ DueLedgers'[p] > ledger
<1>1. /\ ~exists(p) /\ position'[p] # None
      /\ position'[p] = new_position(a, t, s)
      /\ \A q \in PositionIds \ {p} : position'[q] = position[q]
  BY OpenWrites
<1>2. /\ position'[p].open /\ ~position'[p].drawn /\ ~position'[p].defaulted
      /\ position'[p].opened_ledger = ledger /\ position'[p].tenor_days = s.tenor_days
  BY <1>1 DEF new_position
<1>3. Moves(p, {"none"}, "opened")
  BY <1>1, <1>2 DEF Moves, PhaseOf, exists
<1>4. DueLedgers' = [DueLedgers EXCEPT ![p] = DueLedgers'[p]]
  BY <1>1 DEF DueLedgers, TermEnd, exists
<1>5. DueLedgers'[p] = ledger + s.tenor_days * LedgersPerDay
  BY <1>1, <1>2 DEF DueLedgers, TermEnd, exists
<1>6. s.tenor_days * LedgersPerDay > 0
  BY ChainAssumption DEF open_credit
<1>7. s.tenor_days * LedgersPerDay \in Nat /\ ledger \in Nat
  BY ChainAssumption DEF open_credit, TypeOK
<1> QED
  BY <1>3, <1>4, <1>5, <1>6, <1>7

LEMMA LifeOfSettled ==
  ASSUME TypeOK, NEW p \in PositionIds
  PROVE  /\ \A c \in CreditAmounts, m \in TransferAmounts :
              execute_draw(p, c, m) => Moves(p, {"opened"}, "drawn")
         /\ \A m \in TransferAmounts : repay(p, m) => Moves(p, {"opened", "drawn"}, "repaid")
         /\ liquidate(p) => Moves(p, {"opened", "drawn"}, "seized")
         /\ (\/ \E c \in CreditAmounts, m \in TransferAmounts : execute_draw(p, c, m)
             \/ \E m \in TransferAmounts : repay(p, m)
             \/ liquidate(p)) => DueLedgers' = DueLedgers
<1>1. ASSUME \/ \E c \in CreditAmounts, m \in TransferAmounts : execute_draw(p, c, m)
             \/ \E m \in TransferAmounts : repay(p, m)
             \/ liquidate(p)
      PROVE  DueLedgers' = DueLedgers
  <2>1. /\ exists(p) /\ SameTerms(p) /\ position'[p] # None
        /\ \A q \in PositionIds \ {p} : position'[q] = position[q]
    BY <1>1, SettleKeepsTerms DEF Outstanding, IsOpen
  <2> QED
    BY <2>1 DEF DueLedgers, TermEnd, exists, SameTerms
<1>2. Outstanding(p) => /\ position[p] \in CreditPosition
                        /\ PhaseOf(p) \in {"opened", "drawn"}
                        /\ ~position[p].drawn => PhaseOf(p) = "opened"
  BY DEF Outstanding, IsOpen, exists, PhaseOf, TypeOK
<1>3. ASSUME NEW c \in CreditAmounts, NEW m \in TransferAmounts, execute_draw(p, c, m)
      PROVE  Moves(p, {"opened"}, "drawn")
  <2>1. /\ position'[p] # None
        /\ \A q \in PositionIds \ {p} : position'[q] = position[q]
    BY <1>3, SettleKeepsTerms
  <2>2. position'[p].open /\ position'[p].drawn /\ ~position'[p].defaulted
    BY <1>2, <1>3 DEF execute_draw, Outstanding, IsOpen, exists, TypeOK, CreditPosition
  <2> QED
    BY <1>2, <1>3, <2>1, <2>2 DEF execute_draw, Moves, PhaseOf, exists
<1>4. ASSUME NEW m \in TransferAmounts, repay(p, m)
      PROVE  Moves(p, {"opened", "drawn"}, "repaid")
  <2>1. /\ position'[p] # None
        /\ \A q \in PositionIds \ {p} : position'[q] = position[q]
    BY <1>4, SettleKeepsTerms
  <2>2. ~position'[p].open /\ ~position'[p].defaulted
    BY <1>2, <1>4 DEF repay, Outstanding, IsOpen, exists, TypeOK, CreditPosition
  <2> QED
    BY <1>2, <1>4, <2>1, <2>2 DEF repay, Moves, PhaseOf, exists
<1>5. ASSUME liquidate(p)
      PROVE  Moves(p, {"opened", "drawn"}, "seized")
  <2>1. /\ position'[p] # None
        /\ \A q \in PositionIds \ {p} : position'[q] = position[q]
    BY <1>5, SettleKeepsTerms
  <2>2. position'[p].defaulted
    BY <1>2, <1>5 DEF liquidate, Outstanding, IsOpen, exists, TypeOK, CreditPosition
  <2> QED
    BY <1>2, <1>5, <2>1, <2>2 DEF liquidate, Moves, PhaseOf, exists
<1> QED
  BY <1>1, <1>3, <1>4, <1>5

LEMMA LifecycleInit == Init => Lifecycle!LInit
<1> SUFFICES ASSUME Init
             PROVE  Lifecycle!LInit
  OBVIOUS
<1>1. \A p \in PositionIds : ~exists(p) /\ PhaseOf(p) = "none"
  BY DEF Init, exists, PhaseOf
<1>2. \A p \in PositionIds : creditMoved[p].drawn = 0 /\ creditMoved[p].repaid = 0
  BY DEF Init, TokenInit, NothingMoved
<1> QED
  BY <1>1, <1>2 DEF Init, Lifecycle!LInit

\* Every step of the credit line, the registries, the token and the network is
\* a step of the lifecycle or leaves it as it is.
LEMMA LifecycleStep ==
  TypeOK /\ DueIsTermEnd /\ [Next]_vars => [Lifecycle!LNext]_(Lifecycle!lifecycleVars)
<1> SUFFICES ASSUME TypeOK, DueIsTermEnd, [Next]_vars
             PROVE  Lifecycle!LNext \/ UNCHANGED Lifecycle!lifecycleVars
  OBVIOUS
<1> DEFINE phases == [p \in PositionIds |-> PhaseOf(p)]
           out == [p \in PositionIds |-> creditMoved[p].drawn]
           back == [p \in PositionIds |-> creditMoved[p].repaid]
<1>1. ASSUME NEW p \in PositionIds, NEW from, NEW to, Moves(p, from, to)
      PROVE  phases[p] \in from /\ phases' = [phases EXCEPT ![p] = to]
  BY <1>1 DEF Moves
<1>2. ASSUME NEW p \in PositionIds, NEW a \in Anchors, NEW t \in Tokens,
             NEW s \in Statement, open_credit(p, a, t, s)
      PROVE  Lifecycle!Open(p)
  <2>1. /\ phases[p] = "none" /\ phases' = [phases EXCEPT ![p] = "opened"]
        /\ DueLedgers' = [DueLedgers EXCEPT ![p] = DueLedgers'[p]]
        /\ DueLedgers'[p] > ledger
    BY <1>1, <1>2, LifeOfOpened
  <2>2. UNCHANGED <<ledger, creditMoved>>
    BY <1>2 DEF open_credit
  <2> QED
    BY <2>1, <2>2 DEF Lifecycle!Open, DueLedgers
<1>3. ASSUME NEW p \in PositionIds, NEW c \in CreditAmounts, NEW m \in TransferAmounts,
             execute_draw(p, c, m)
      PROVE  Lifecycle!Draw(p)
  <2>1. /\ phases[p] = "opened" /\ phases' = [phases EXCEPT ![p] = "drawn"]
        /\ DueLedgers' = DueLedgers
    BY <1>1, <1>3, LifeOfSettled
  <2>2. ledger' = ledger /\ creditMoved' = [creditMoved EXCEPT ![p].drawn = m]
    BY <1>3 DEF execute_draw, draw_transfer
  <2>3. /\ \A q \in PositionIds \ {p} : creditMoved'[q] = creditMoved[q]
        /\ creditMoved'[p].repaid = creditMoved[p].repaid
    BY <2>2 DEF TypeOK, TokenTypeOK
  <2>4. back' = back /\ out' = [out EXCEPT ![p] = out'[p]]
    BY <2>3
  <2> QED
    BY <2>1, <2>2, <2>4 DEF Lifecycle!Draw, DueLedgers
<1>4. ASSUME NEW p \in PositionIds, NEW m \in TransferAmounts, repay(p, m)
      PROVE  Lifecycle!Repay(p)
  <2>1. /\ phases[p] \in {"opened", "drawn"} /\ phases' = [phases EXCEPT ![p] = "repaid"]
        /\ DueLedgers' = DueLedgers
    BY <1>1, <1>4, LifeOfSettled
  <2>2. ledger' = ledger /\ creditMoved' = [creditMoved EXCEPT ![p].repaid = m]
    BY <1>4 DEF repay, repay_transfer
  <2>3. /\ \A q \in PositionIds \ {p} : creditMoved'[q] = creditMoved[q]
        /\ creditMoved'[p].drawn = creditMoved[p].drawn
    BY <2>2 DEF TypeOK, TokenTypeOK
  <2>4. out' = out /\ back' = [back EXCEPT ![p] = back'[p]]
    BY <2>3
  <2> QED
    BY <2>1, <2>2, <2>4 DEF Lifecycle!Repay, Lifecycle!Outstanding, DueLedgers
<1>5. ASSUME NEW p \in PositionIds, liquidate(p)
      PROVE  Lifecycle!Seize(p)
  <2>1. /\ phases[p] \in {"opened", "drawn"} /\ phases' = [phases EXCEPT ![p] = "seized"]
        /\ DueLedgers' = DueLedgers
    BY <1>1, <1>5, LifeOfSettled
  <2>2. ledger > DueLedgers[p]
    BY <1>5 DEF liquidate, overdue, Outstanding, IsOpen, DueIsTermEnd, DueLedgers
  <2>3. UNCHANGED <<ledger, creditMoved>>
    BY <1>5 DEF liquidate, tokenVars
  <2> QED
    BY <2>1, <2>2, <2>3 DEF Lifecycle!Seize, Lifecycle!Outstanding, DueLedgers
<1>6. ASSUME UNCHANGED position, UNCHANGED creditMoved
      PROVE  UNCHANGED <<phases, DueLedgers, out, back>>
  BY <1>6 DEF PhaseOf, DueLedgers, TermEnd, exists
<1>7. CASE CloseLedger /\ UNCHANGED <<position, creditMoved>>
  <2>1. ledger' > ledger
    BY <1>7 DEF CloseLedger, TypeOK
  <2> QED
    BY <1>6, <1>7, <2>1 DEF Lifecycle!LNext, Lifecycle!Tick, DueLedgers
<1>8. CASE UNCHANGED <<ledger, position, creditMoved>>
  BY <1>6, <1>8 DEF Lifecycle!lifecycleVars, DueLedgers
<1>9. \/ CreditLineStep
      \/ CloseLedger /\ UNCHANGED <<position, creditMoved>>
      \/ UNCHANGED <<ledger, position, creditMoved>>
  BY DEF Next, AdmissionStep, EnvironmentStep, move_collateral, freeze, DirectStep, unfreeze,
         vars, tokenVars, creditLineVars
<1>10. CASE CreditLineStep
  <2>1. CASE pause \/ unpause
    BY <1>8, <2>1 DEF pause, unpause, tokenVars
  <2> QED
    BY <1>2, <1>3, <1>4, <1>5, <1>10, <2>1 DEF CreditLineStep, Lifecycle!LNext
<1> QED
  BY <1>7, <1>8, <1>9, <1>10

\* The credit line with all its registries implements the lifecycle: whoever
\* calls what, a position opens once, is paid out at most once and ends repaid or,
\* only after the due ledger fixed when it opened, seized.
THEOREM ImplementsLifecycle == Spec => LivesItsLifecycle
<1>1. Init => DueIsTermEnd
  BY DEF Init, DueIsTermEnd, exists
<1>2. Spec => []DueIsTermEnd
  BY <1>1, DueIsTermEndStep, TypeCorrect, PTL DEF Spec
<1> QED
  BY <1>2, LifecycleInit, LifecycleStep, TypeCorrect, PTL
  DEF Spec, LivesItsLifecycle, Lifecycle!LSpec

\* Of a step of the lifecycle the phases show one turn, or nothing.
LEMMA LifecycleTurns ==
  ASSUME [Lifecycle!LNext]_(Lifecycle!lifecycleVars)
  PROVE  [OnChain!Next]_([p \in PositionIds |-> PhaseOf(p)])
<1> DEFINE phases == [p \in PositionIds |-> PhaseOf(p)]
<1>1. ASSUME NEW p \in PositionIds,
             Lifecycle!Open(p) \/ Lifecycle!Draw(p) \/ Lifecycle!Repay(p) \/ Lifecycle!Seize(p)
      PROVE  OnChain!Next
  <2>1. OnChain!Open(p) \/ OnChain!Draw(p) \/ OnChain!Repay(p) \/ OnChain!Seize(p)
    BY <1>1 DEF Lifecycle!Open, Lifecycle!Draw, Lifecycle!Repay, Lifecycle!Seize,
                Lifecycle!Outstanding, OnChain!Open, OnChain!Draw, OnChain!Repay,
                OnChain!Seize, OnChain!Outstanding, OnChain!Turns
  <2> QED  BY <2>1 DEF OnChain!Next
<1>2. Lifecycle!Tick \/ UNCHANGED Lifecycle!lifecycleVars => UNCHANGED phases
  BY DEF Lifecycle!Tick, Lifecycle!lifecycleVars
<1> QED
  BY <1>1, <1>2 DEF Lifecycle!LNext

\* The contracts keep the phases that the models of the backend and of the demo
\* flow are built on: whatever is called, a position opens once, is drawn at most
\* once while it is open and ends once.
THEOREM ContractsKeepPhases == Spec => OnChain!Spec
<1>1. Lifecycle!LInit => OnChain!Init
  BY DEF Lifecycle!LInit, OnChain!Init
<1>2. [Lifecycle!LNext]_(Lifecycle!lifecycleVars)
        => [OnChain!Next]_([p \in PositionIds |-> PhaseOf(p)])
  BY LifecycleTurns
<1> QED
  BY <1>1, <1>2, ImplementsLifecycle, PTL
  DEF LivesItsLifecycle, Lifecycle!LSpec, OnChain!Spec

-------------------------------------------------------------------------------
(* Nothing stands in the way of winding a position down.                   *)

\* Whoever calls the registry, an entry once made stays, active or not.
LEMMA EntriesStay ==
  ASSUME TypeOK, TypeOK', [Next]_vars, NEW k \in LockKeys, locks[k] # None
  PROVE  locks'[k] # None
<1>1. ASSUME NEW j \in LockKeys, NEW a \in Anchors, NEW t \in Tokens, NEW p \in PositionIds,
             NEW n \in Nat, lock(j, a, t, p, n)
      PROVE  locks'[k] # None
  <2>1. LockTypeOK' /\ LedgerAfter(n) \in Nat
    BY <1>1, LockTyped, ChainAssumption DEF TypeOK, LedgerAfter
  <2>2. [active |-> TRUE, owner |-> a, collateral_token |-> t, position_id |-> p,
         expiry_ledger |-> LedgerAfter(n)] \in CollateralLock
    BY <2>1 DEF CollateralLock
  <2> QED
    BY <1>1, <2>2, LockAssumption DEF lock, TypeOK, LockTypeOK
<1>2. ASSUME NEW j \in LockKeys, release(j)
      PROVE  locks'[k] # None
  <2>1. locks[j] \in CollateralLock /\ [locks[j] EXCEPT !.active = FALSE] \in CollateralLock
    BY <1>2 DEF release, TypeOK, LockTypeOK, CollateralLock
  <2> QED
    BY <1>2, <2>1, LockAssumption DEF release, TypeOK, LockTypeOK
<1>3. ASSUME NEW p \in PositionIds, NEW a \in Anchors, NEW t \in Tokens, NEW s \in Statement,
             open_credit(p, a, t, s)
      PROVE  locks'[k] # None
  <2>1. s.lock_key \in LockKeys /\ s.tenor_days \in Nat /\ lock(s.lock_key, a, t, p, s.tenor_days)
    BY <1>3 DEF open_credit, Statement
  <2> QED
    BY <1>1, <2>1
<1>4. ASSUME NEW p \in PositionIds, NEW m \in TransferAmounts, repay(p, m)
      PROVE  locks'[k] # None
  <2>1. position[p].lock_key \in LockKeys /\ release(position[p].lock_key)
    BY <1>4 DEF repay, Outstanding, IsOpen, exists, TypeOK, CreditPosition
  <2> QED
    BY <1>2, <2>1
<1>5. \/ UNCHANGED locks
      \/ \E p \in PositionIds, a \in Anchors, t \in Tokens, s \in Statement : open_credit(p, a, t, s)
      \/ \E p \in PositionIds, m \in TransferAmounts : repay(p, m)
      \/ \E j \in LockKeys, a \in Anchors, t \in Tokens, p \in PositionIds : lock(j, a, t, p, 1)
      \/ \E j \in LockKeys : release(j)
  BY DEF Next, CreditLineStep, AdmissionStep, EnvironmentStep, CloseLedger, move_collateral, freeze, DirectStep,
         execute_draw, liquidate, pause, unpause, vars, creditLineVars
<1> QED
  BY <1>1, <1>2, <1>3, <1>4, <1>5

\* A position, open or not, has the entry of its key on record.
KeyOnRecord ==
  \A p \in PositionIds : exists(p) =>
    position[p].lock_key \in LockKeys /\ locks[position[p].lock_key] # None

LEMMA KeyOnRecordStep ==
  TypeOK /\ TypeOK' /\ KeyOnRecord /\ [Next]_vars => KeyOnRecord'
<1> SUFFICES ASSUME TypeOK, TypeOK', KeyOnRecord, [Next]_vars, NEW p \in PositionIds, exists(p)'
             PROVE  position'[p].lock_key \in LockKeys /\ locks'[position'[p].lock_key] # None
  BY DEF KeyOnRecord
<1>1. position'[p].lock_key \in LockKeys
  BY DEF exists, TypeOK, CreditPosition
<1>2. CASE Opens(p)
  <2>1. PICK a \in Anchors, t \in Tokens, s \in Statement :
          open_credit(p, a, t, s) /\ position'[p] = new_position(a, t, s)
    BY <1>2, OnlyOpenCreditOpens
  <2>2. /\ position'[p].lock_key = s.lock_key /\ s.tenor_days \in Nat
        /\ lock(s.lock_key, a, t, p, s.tenor_days)
    BY <2>1 DEF new_position, open_credit
  <2>3. LedgerAfter(s.tenor_days) \in Nat
    BY <2>2, ChainAssumption DEF TypeOK, LedgerAfter
  <2>4. [active |-> TRUE, owner |-> a, collateral_token |-> t, position_id |-> p,
         expiry_ledger |-> LedgerAfter(s.tenor_days)] \in CollateralLock
    BY <2>3 DEF CollateralLock
  <2> QED
    BY <1>1, <2>2, <2>4, LockAssumption DEF lock, TypeOK, LockTypeOK
<1>3. CASE exists(p)
  <2>1. position'[p] = position[p] \/ SameTerms(p)
    BY <1>3, PositionSteps, OpenWrites, SettleKeepsTerms
  <2>2. position'[p].lock_key = position[p].lock_key
    BY <1>3, <2>1 DEF SameTerms
  <2> QED
    BY <1>1, <1>3, <2>2, EntriesStay DEF KeyOnRecord
<1> QED
  BY <1>1, <1>2, <1>3 DEF Opens, exists

\* Whoever calls registry and token directly, and whether the credit line is paused
\* or not, nothing outside an outstanding position refuses to wind it down: the
\* entry that repay releases is there, and once the term is over liquidate finds it
\* overdue.  (The run's WindDownStaysPossible says the same with ENABLED.)
THEOREM WindDownUnblocked ==
  Spec => [](\A p \in PositionIds : Outstanding(p) =>
               /\ locks[position[p].lock_key] # None
               /\ ledger > TermEnd(p) => overdue(p))
<1>1. Init => KeyOnRecord /\ DueIsTermEnd
  BY DEF Init, KeyOnRecord, DueIsTermEnd, exists
<1>2. KeyOnRecord /\ DueIsTermEnd =>
        \A p \in PositionIds : Outstanding(p) =>
          /\ locks[position[p].lock_key] # None
          /\ ledger > TermEnd(p) => overdue(p)
  BY DEF KeyOnRecord, DueIsTermEnd, Outstanding, IsOpen, overdue
<1> QED
  BY <1>1, <1>2, KeyOnRecordStep, DueIsTermEndStep, TypeCorrect, PTL DEF Spec
===================================================================================
