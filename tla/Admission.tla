------------------------------- MODULE Admission -------------------------------
(***************************************************************************)
(* The three registries open_credit consults before it admits a position:  *)
(* ParticipantPolicy (who), CollateralPolicyRegistry (which collateral, on *)
(* which terms) and OracleAdapter (at which price, how fresh).             *)
(***************************************************************************)
EXTENDS Chain

CONSTANTS
  Expiries,      \* expires_ledger values the operator writes; 0 means never
  Policies,      \* collateral policies the operator may write
  SetPrices,     \* price_e7 values the operator passes to set_price
  StampLags,     \* how many ledgers back a set_price stamp lies; may be negative
  MaxPrice,      \* 2^127 - 1: the largest i128
  FeedQuotes,    \* <<price, decimals>> answers of a Reflector feed
  PriceScale,    \* 10^7: the fixed point of price_e7
  PriceDigits,   \* 7: its number of digits
  BpsScale       \* 10_000: a whole, in basis points

CollateralPolicy ==
  [eligible : BOOLEAN, haircut_bps : 0 .. BpsScale, max_tenor_days : 1 .. 5,
   max_staleness_ledgers : Nat]

PriceData == [price_e7 : 1 .. MaxPrice, updated_ledger : Nat]

ParticipantStatus == [approved : BOOLEAN, expires_ledger : Nat]

ASSUME AdmissionAssumption ==
  /\ Expiries \subseteq Nat
  /\ Policies \subseteq [eligible : BOOLEAN, haircut_bps : Nat,
                          max_tenor_days : Nat, max_staleness_ledgers : Nat]
  /\ SetPrices \subseteq Int /\ StampLags \subseteq Int
  /\ FeedQuotes \subseteq Int \X Nat
  /\ PriceScale \in Nat \ {0} /\ PriceDigits \in Nat
  /\ BpsScale \in Nat \ {0}
  /\ MaxPrice \in Nat
  /\ None \notin CollateralPolicy /\ None \notin PriceData

VARIABLES
  participants,  \* StorageKey::Participant(account) -> ParticipantStatus
  policies,      \* StorageKey::Policy(collateral_token) -> CollateralPolicy
  prices,        \* StorageKey::Price(asset) -> PriceData
  pricedAt       \* history: the ledger at which prices[token] was written

admissionVars == <<participants, policies, prices, pricedAt>>

AdmissionTypeOK ==
  /\ participants \in [Anchors -> ParticipantStatus]
  /\ policies \in [Tokens -> CollateralPolicy \cup {None}]
  /\ prices \in [Tokens -> PriceData \cup {None}]
  /\ pricedAt \in [Tokens -> Nat]

\* status() answers "not approved" for an account never written.
AdmissionInit ==
  /\ participants = [a \in Anchors |-> [approved |-> FALSE, expires_ledger |-> 0]]
  /\ policies = [t \in Tokens |-> None]
  /\ prices = [t \in Tokens |-> None]
  /\ pricedAt = [t \in Tokens |-> 0]

-------------------------------------------------------------------------------
(* ParticipantPolicy.  role_mask and risk_tier are stored and never read.  *)

set_participant(a, approved, expires) ==
  /\ participants' = [participants EXCEPT ![a] =
       [approved |-> approved, expires_ledger |-> expires]]
  /\ UNCHANGED <<policies, prices, pricedAt>>

is_approved(a) ==
  /\ participants[a].approved
  /\ \/ participants[a].expires_ledger = 0
     \/ ledger <= participants[a].expires_ledger

-------------------------------------------------------------------------------
(* CollateralPolicyRegistry.                                               *)

set_policy(t, policy) ==
  /\ policy.haircut_bps <= BpsScale
  /\ policy.max_tenor_days \in 1 .. 5
  /\ policies' = [policies EXCEPT ![t] = policy]
  /\ UNCHANGED <<participants, prices, pricedAt>>

-------------------------------------------------------------------------------
(* OracleAdapter.                                                          *)

\* Variants with a plausible bug, used to show that properties can fail.
mut_store_any_price(t, price, updated) ==
  /\ prices' = [prices EXCEPT ![t] =
       [price_e7 |-> price, updated_ledger |-> updated]]
  /\ pricedAt' = [pricedAt EXCEPT ![t] = ledger]
  /\ UNCHANGED <<participants, policies>>

\* A price is positive, and an i128: to_e7 panics when it overflows.
store_price(t, price, updated) ==
  /\ price \in 1 .. MaxPrice
  /\ prices' = [prices EXCEPT ![t] =
       [price_e7 |-> price, updated_ledger |-> updated]]
  /\ pricedAt' = [pricedAt EXCEPT ![t] = ledger]
  /\ UNCHANGED <<participants, policies>>

\* Variant with a plausible bug: the stamp is stored unchecked.
mut_set_price_unchecked(t, price, updated) ==
  updated >= 0 /\ store_price(t, price, updated)

\* set_price(): the operator dates the price itself, with a u32 that may lie in
\* the past of the stored stamp but not in the future of the ledger.
set_price(t, price, updated) ==
  /\ updated \in 0 .. ledger
  /\ store_price(t, price, updated)

\* to_e7(): rescale a feed price with `decimals` digits to PriceDigits digits.
\* The quotient rounds toward zero in the code and down here: they differ
\* below zero only, where both results are refused.
to_e7(price, decimals) ==
  IF decimals >= PriceDigits
  THEN price \div (10 ^ (decimals - PriceDigits))
  ELSE price * (10 ^ (PriceDigits - decimals))

\* refresh_from_reflector() and refresh_from_reflector_symbol(): the stamp is
\* the present ledger, whatever timestamp the feed put on its price.
refresh_from_reflector(t, quote) ==
  store_price(t, to_e7(quote[1], quote[2]), ledger)

\* What open_credit requires of the stored price: it is there and not stale.
is_fresh(t) ==
  /\ prices[t] # None
  /\ SatSub(ledger, prices[t].updated_ledger) <= policies[t].max_staleness_ledgers
==============================================================================
