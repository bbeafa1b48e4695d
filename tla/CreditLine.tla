------------------------------- MODULE CreditLine -------------------------------
(***************************************************************************)
(* PrefundingCreditLine together with the contracts it calls.              *)
(*                                                                         *)
(* A position is opened against an anchor's confidential collateral        *)
(* account, drawn, and then repaid or, once overdue, liquidated.  Opening  *)
(* locks a key in the registry and freezes the account; repaying releases  *)
(* the key and unfreezes the account; liquidating does neither.            *)
(***************************************************************************)
EXTENDS LockRegistry, Admission, ConfidentialToken

CONSTANTS
  CreditAmounts,    \* bound: amounts asked for in a credit commitment
  TransferAmounts,  \* bound: amounts a credit-token transfer may carry
  Tenors,           \* bound: tenors in days asked for
  ClaimedPrices,    \* bound: prices a statement may be proved for
  ClaimedHaircuts   \* bound: haircuts a statement may be proved for

ASSUME CreditAssumption ==
  /\ CreditAmounts \subseteq Nat
  /\ TransferAmounts \subseteq Amounts
  /\ Tenors \subseteq Nat
  /\ ClaimedPrices \subseteq Nat
  /\ ClaimedHaircuts \subseteq Nat

CreditPosition ==
  [open : BOOLEAN, drawn : BOOLEAN, defaulted : BOOLEAN,
   anchor : Anchors, collateral_token : Tokens, lock_key : LockKeys,
   collateral_commitment : Amounts, credit_commitment : CreditAmounts,
   position_nullifier : Nullifiers, tenor_days : 1 .. 5,
   opened_ledger : Nat, due_ledger : Nat]

ASSUME PositionAssumption == None \notin CreditPosition

VARIABLES
  position,        \* StorageKey::Position(position_id) -> CreditPosition
  usedNullifier,   \* the nullifiers with a StorageKey::UsedNullifier entry
  paused           \* StorageKey::Paused

creditLineVars == <<position, usedNullifier, paused>>

vars == <<ledger, locks, admissionVars, tokenVars, creditLineVars>>

\* The public inputs of a collateral_sufficiency proof.  The caller passes the
\* same values as arguments of open_credit, and a disagreement between the two
\* is refused, so one record stands for both.  The owner's key Y is fixed by
\* the account and left out.
Statement ==
  [c_spend : Amounts, credit_commitment : CreditAmounts,
   oracle_price_e7 : ClaimedPrices, haircut_bps : ClaimedHaircuts,
   tenor_days : Tenors, lock_key : LockKeys, position_nullifier : Nullifiers]

exists(p) == position[p] # None

\* The confidential account a position is secured by.
AccountOf(p) == <<position[p].anchor, position[p].collateral_token>>

IsOpen(p) == exists(p) /\ position[p].open

\* Open and not seized: the state in which draw and repay are accepted.
Outstanding(p) == IsOpen(p) /\ ~position[p].defaulted

TypeOK ==
  /\ ledger \in Nat
  /\ LockTypeOK
  /\ AdmissionTypeOK
  /\ TokenTypeOK
  /\ position \in [PositionIds -> CreditPosition \cup {None}]
  /\ usedNullifier \subseteq Nullifiers
  /\ paused \in BOOLEAN

Init ==
  /\ ledger = 1
  /\ LockInit
  /\ AdmissionInit
  /\ TokenInit
  /\ position = [p \in PositionIds |-> None]
  /\ usedNullifier = {}
  /\ paused = FALSE

-------------------------------------------------------------------------------
(* What the sufficiency circuit asserts about a statement.                 *)

Sufficient(collateral, credit, price, haircut) ==
  collateral * price * (BpsScale - haircut) >= credit * BpsScale * PriceScale

\* verify_proof(): a proof exists for a statement exactly when it holds.  (The
\* nullifier is a hash of the statement and a secret of the prover's: any value.)
verify_collateral_sufficiency(s) ==
  /\ s.c_spend > 0 /\ s.credit_commitment > 0 /\ s.oracle_price_e7 > 0
  /\ s.haircut_bps <= BpsScale
  /\ s.tenor_days \in 1 .. 5
  /\ Sufficient(s.c_spend, s.credit_commitment, s.oracle_price_e7, s.haircut_bps)

\* Variant with a plausible bug: the prover supplies the commitment.
mut_inputs_match_without_balance(a, t, s) ==
  /\ a \in Anchors
  /\ s.oracle_price_e7 = prices[t].price_e7
  /\ s.haircut_bps = policies[t].haircut_bps

\* The expected_public_inputs comparison: the collateral commitment comes from
\* the chain, price and haircut were compared with the registries before it.
public_inputs_match(a, t, s) ==
  /\ s.oracle_price_e7 = prices[t].price_e7
  /\ s.haircut_bps = policies[t].haircut_bps
  /\ s.c_spend = spendable[<<a, t>>]

\* Variant with a plausible bug: the guard is written and never read.
mut_spend_nullifier_again(n) == usedNullifier' = usedNullifier \cup {n}

\* The replay guard is written before the verifier and registry are called; a
\* later panic undoes it with the rest.
spend_nullifier(n) ==
  /\ n \notin usedNullifier
  /\ usedNullifier' = usedNullifier \cup {n}

new_position(a, t, s) ==
  [open |-> TRUE, drawn |-> FALSE, defaulted |-> FALSE,
   anchor |-> a, collateral_token |-> t, lock_key |-> s.lock_key,
   collateral_commitment |-> s.c_spend,
   credit_commitment |-> s.credit_commitment,
   position_nullifier |-> s.position_nullifier, tenor_days |-> s.tenor_days,
   opened_ledger |-> ledger, due_ledger |-> LedgerAfter(s.tenor_days)]

open_credit(p, a, t, s) ==
  /\ ~paused
  /\ ~exists(p)
  /\ is_approved(a)
  /\ policies[t] # None
  /\ s.tenor_days \in 1 .. 5
  /\ s.tenor_days <= policies[t].max_tenor_days
  /\ policies[t].eligible
  /\ is_fresh(t)
  /\ public_inputs_match(a, t, s)
  /\ verify_collateral_sufficiency(s)
  /\ spend_nullifier(s.position_nullifier)
  /\ lock(s.lock_key, a, t, p, s.tenor_days)
  /\ freeze(<<a, t>>)
  /\ position' = [position EXCEPT ![p] = new_position(a, t, s)]
  /\ UNCHANGED <<ledger, admissionVars, spendable, creditMoved, paused>>

\* `commitment` is the pair of transfer_commitment arguments, `amount` what
\* transfer_data makes the credit token move.
execute_draw(p, commitment, amount) ==
  /\ ~paused
  /\ Outstanding(p)
  /\ ~position[p].drawn
  /\ is_locked(position[p].lock_key)
  /\ commitment = position[p].credit_commitment
  /\ position' = [position EXCEPT ![p] = [@ EXCEPT !.drawn = TRUE]]
  /\ draw_transfer(p, amount)
  /\ UNCHANGED <<ledger, locks, admissionVars, spendable, frozen,
                 usedNullifier, paused>>

repay(p, amount) ==
  /\ Outstanding(p)
  /\ position' = [position EXCEPT ![p] = [@ EXCEPT !.open = FALSE]]
  /\ release(position[p].lock_key)
  /\ unfreeze(AccountOf(p))
  /\ repay_transfer(p, amount)
  /\ UNCHANGED <<ledger, admissionVars, spendable, usedNullifier, paused>>

\* Variant with a plausible bug: the due ledger itself counts as late.
mut_overdue_on_due_ledger(p) == ledger >= position[p].due_ledger

overdue(p) == ledger > position[p].due_ledger

\* Variant with a plausible bug: seizing lifts the freeze, as repaying does.
mut_liquidate_unfreezes(p) ==
  /\ Outstanding(p)
  /\ overdue(p)
  /\ position' = [position EXCEPT ![p] = [@ EXCEPT !.defaulted = TRUE]]
  /\ unfreeze(AccountOf(p))
  /\ UNCHANGED <<ledger, locks, admissionVars, spendable, creditMoved,
                 usedNullifier, paused>>

liquidate(p) ==
  /\ Outstanding(p)
  /\ overdue(p)
  /\ position' = [position EXCEPT ![p] = [@ EXCEPT !.defaulted = TRUE]]
  /\ UNCHANGED <<ledger, locks, admissionVars, tokenVars, usedNullifier, paused>>

pause ==
  /\ paused' = TRUE
  /\ UNCHANGED <<ledger, locks, admissionVars, tokenVars, position, usedNullifier>>

unpause ==
  /\ paused' = FALSE
  /\ UNCHANGED <<ledger, locks, admissionVars, tokenVars, position, usedNullifier>>

-------------------------------------------------------------------------------
(* The steps of the system.                                                *)

\* A call of an entry point of the credit line.
CreditLineStep ==
  \/ \E p \in PositionIds, a \in Anchors, t \in Tokens, s \in Statement :
       open_credit(p, a, t, s)
  \/ \E p \in PositionIds, c \in CreditAmounts, m \in TransferAmounts :
       execute_draw(p, c, m)
  \/ \E p \in PositionIds, m \in TransferAmounts : repay(p, m)
  \/ \E p \in PositionIds : liquidate(p)
  \/ pause
  \/ unpause

\* The operator maintains the three registries.
AdmissionStep ==
  /\ \/ \E a \in Anchors, ok \in BOOLEAN, x \in Expiries : set_participant(a, ok, x)
     \/ \E t \in Tokens, pol \in Policies : set_policy(t, pol)
     \/ \E t \in Tokens, pr \in SetPrices, lag \in StampLags :
          set_price(t, pr, ledger - lag)
     \/ \E t \in Tokens, q \in FeedQuotes : refresh_from_reflector(t, q)
  /\ UNCHANGED <<ledger, locks, tokenVars, creditLineVars>>

\* The anchors use their accounts, the operator freezes one for compliance,
\* and time passes.
EnvironmentStep ==
  \/ /\ \E acc \in Accounts, m \in Amounts : move_collateral(acc, m)
     /\ UNCHANGED <<ledger, locks, admissionVars, creditLineVars>>
  \/ /\ \E acc \in Accounts : freeze(acc)
     /\ UNCHANGED <<ledger, locks, admissionVars, spendable, creditMoved, creditLineVars>>
  \/ /\ CloseLedger
     /\ UNCHANGED <<locks, admissionVars, tokenVars, creditLineVars>>

\* Entry points of the registry and of the token that the manager may also
\* call directly, outside the credit line: nothing on chain prevents it.
DirectStep ==
  \/ /\ \E k \in LockKeys, a \in Anchors, t \in Tokens, p \in PositionIds :
          lock(k, a, t, p, 1)
     /\ UNCHANGED <<ledger, admissionVars, tokenVars, creditLineVars>>
  \/ /\ \E k \in LockKeys : release(k)
     /\ UNCHANGED <<ledger, admissionVars, tokenVars, creditLineVars>>
  \/ /\ \E acc \in Accounts : unfreeze(acc)
     /\ UNCHANGED <<ledger, locks, admissionVars, spendable, creditMoved, creditLineVars>>

Next == CreditLineStep \/ AdmissionStep \/ EnvironmentStep \/ DirectStep

Spec == Init /\ [][Next]_vars

\* The system as the repository drives it: the registry and the token's
\* unfreeze are reached through the credit line only.
ProtocolNext == CreditLineStep \/ AdmissionStep \/ EnvironmentStep

ProtocolSpec == Init /\ [][ProtocolNext]_vars

\* A rule of operation no contract and no service enforces, on which what the
\* comments say about pledged collateral depends: no position is opened on an
\* account that already secures an open one.
OnePledgePerAccount ==
  \A p, q \in PositionIds :
    (~exists(p) /\ position'[p] # None /\ IsOpen(q))
      => AccountOf(q) # <<position'[p].anchor, position'[p].collateral_token>>

DisciplinedNext == ProtocolNext /\ OnePledgePerAccount
===============================================================================
