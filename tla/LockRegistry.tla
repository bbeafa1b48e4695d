----------------------------- MODULE LockRegistry -----------------------------
(***************************************************************************)
(* CollateralLockRegistry: a table of locks under caller-chosen keys.      *)
(* Only the manager role writes it, and it is the same operator account    *)
(* that calls it through the credit line and that may call it directly.    *)
(***************************************************************************)
EXTENDS Chain

CollateralLock ==
  [active : BOOLEAN, owner : Anchors, collateral_token : Tokens,
   position_id : PositionIds, expiry_ledger : Nat]

ASSUME LockAssumption == None \notin CollateralLock

VARIABLE locks    \* StorageKey::Lock(lock_key) -> CollateralLock

LockTypeOK == locks \in [LockKeys -> CollateralLock \cup {None}]

LockInit == locks = [k \in LockKeys |-> None]

is_locked(k) == locks[k] # None /\ locks[k].active

\* lock(): refused while the key is active; a released key may be locked
\* again, by any position.
lock(k, owner, token, p, tenor) ==
  /\ ~is_locked(k)
  /\ locks' = [locks EXCEPT ![k] =
       [active |-> TRUE, owner |-> owner, collateral_token |-> token,
        position_id |-> p, expiry_ledger |-> LedgerAfter(tenor)]]

\* Variants with a plausible bug, used to show that properties can fail.
mut_release_keeps_lock(k) == locks[k] # None /\ UNCHANGED locks

mut_release_needs_active(k) ==
  /\ is_locked(k)
  /\ locks' = [locks EXCEPT ![k] = [@ EXCEPT !.active = FALSE]]

\* release(): looks only at whether the entry exists, never at whose it is.
release(k) ==
  /\ locks[k] # None
  /\ locks' = [locks EXCEPT ![k] = [@ EXCEPT !.active = FALSE]]
==============================================================================
