-------------------------------- MODULE Quoting --------------------------------
(***************************************************************************)
(* Quotes, the oracle refresh they rest on and the collateral vault page   *)
(* that asks for them (quote-engine.ts, oracle-admin.ts, vault/page.tsx),  *)
(* on top of the onboarding of their accounts.                             *)
(*                                                                         *)
(* A refresh fetches the latest ledger, then the feed's price, and sends   *)
(* both.  A quote is put together from several reads.  The vault page      *)
(* asks for one whenever the asset is chosen that has a contract, and does *)
(* not take an answer back that it no longer needs.                        *)
(***************************************************************************)
EXTENDS Onboarding

CONSTANTS
  Alpha,         \* the account the page asks for
  Loads,         \* the page's loads that can be under way at once
  RefreshServer, \* the process with the oracle route
  MaxAge,        \* REFLECTOR_STALENESS_SECONDS, in ledgers
  MaxLedger      \* bound: the last ledger

ASSUME QuotingAssumption ==
  /\ Alpha \in Accounts /\ RefreshServer \in Servers
  /\ MaxAge \in Nat /\ MaxLedger \in Nat \ {0}

VARIABLES
  feed,       \* Reflector: the ledger in which its price was made
  refresh,    \* the refresh under way, between fetching ledger and price
  quotes,     \* table quotes: the accounts with a quote
  loads,      \* each load of the page: how far its quote request got
  vault,      \* the page: the asset selected, and whether a chain quote is shown
  overtaken   \* history: the asset was changed while a load was under way

quotingVars == <<feed, refresh, quotes, loads, vault, overtaken>>
vars == <<onboardingVars, quotingVars>>

\* `fetched` says that the ledger was fetched and not given by the client.
Refresh == [active : BOOLEAN, latestLedger : Nat, fetched : BOOLEAN]

NoRefresh == [active |-> FALSE, latestLedger |-> 0, fetched |-> FALSE]

\* COLLATERAL_ASSETS: one of the two has a contract.
Assets == {"cTBill", "cXAUm"}
Wired == {"cTBill"}

TypeOK ==
  /\ ledger \in Nat /\ feed \in Nat
  /\ approved \subseteq Accounts
  /\ oracle \in PriceData \cup {None}
  /\ late \subseteq Calls
  /\ customer \in [Customers -> Row \cup {None}]
  /\ queue \in [Servers -> Seq(Calls)]
  /\ registering \in [Servers -> Registration \cup {None}]
  /\ verdict \in [Accounts -> Verdicts \cup {None}]
  /\ accepted \subseteq Accounts /\ disturbed \subseteq Accounts /\ mixed \subseteq Accounts
  /\ requests \in Nat /\ mishaps \in Nat
  /\ refresh \in Refresh
  /\ quotes \subseteq Accounts
  /\ loads \in [Loads -> {"idle", "policy", "price", "quoted", "error"}]
  /\ vault \in [selectedAsset : Assets, quote : BOOLEAN]
  /\ overtaken \in BOOLEAN

\* The page is open on the default asset and has begun its first load.
Init ==
  /\ OnboardingInit
  /\ feed = 0
  /\ refresh = NoRefresh
  /\ quotes = {}
  /\ \E l \in Loads : loads = [k \in Loads |-> IF k = l THEN "policy" ELSE "idle"]
  /\ vault = [selectedAsset |-> "cTBill", quote |-> FALSE]
  /\ overtaken = FALSE

-------------------------------------------------------------------------------
(* The network and the feed.                                               *)

CloseLedger ==
  /\ ledger < MaxLedger
  /\ ledger' = ledger + 1
  /\ feed' \in {feed, ledger'}
  /\ UNCHANGED <<approved, oracle, late, customer, queue, registering, accepted, verdict,
                 disturbed, mixed, requests, mishaps, refresh, quotes, loads, vault, overtaken>>

-------------------------------------------------------------------------------
(* refreshOracle                                                           *)

\* Ledgers the RPC may call the latest: a node may lag by one.
Latest == {ledger, ledger - 1} \ {0}

\* updatedLedger comes with the request, or the latest ledger is fetched.
\* Bound: one refresh at a time.
refresh_ledger ==
  /\ asks
  /\ ~refresh.active
  /\ \A i \in DOMAIN queue[RefreshServer] : queue[RefreshServer][i].call # "set_price"
  /\ \E l \in 1 .. MaxLedger, fetched \in BOOLEAN :
       /\ fetched => l \in Latest
       /\ refresh' = [active |-> TRUE, latestLedger |-> l, fetched |-> fetched]
  /\ UNCHANGED <<ledger, approved, oracle, late, customer, queue, registering, accepted,
                 verdict, disturbed, mixed, mishaps, feed, quotes, loads, vault, overtaken>>

\* Variant with a plausible bug: the two times are subtracted the wrong way round.
mut_stale == feed - ledger > MaxAge

\* The feed's price is too old to be taken.
stale == ledger - feed > MaxAge

\* What is sent: the feed's price, or one that came with the request.
RefreshedPrices ==
  {[updated_ledger |-> refresh.latestLedger, observed |-> 0, measured |-> FALSE]}
    \cup (IF refresh.fetched /\ ~stale
          THEN {[updated_ledger |-> refresh.latestLedger, observed |-> feed, measured |-> TRUE]}
          ELSE {})

refresh_price ==
  /\ refresh.active /\ registering[RefreshServer] = None
  /\ \E p \in RefreshedPrices :
       queue' = [queue EXCEPT ![RefreshServer] = Append(@, set_price(p))]
  /\ refresh' = NoRefresh
  /\ UNCHANGED <<ledger, approved, oracle, late, customer, registering, accepted, verdict,
                 disturbed, mixed, requests, mishaps, feed, quotes, loads, vault, overtaken>>

\* A fetch fails, or the price is stale.
refresh_throws ==
  /\ refresh.active
  /\ refresh' = NoRefresh
  /\ UNCHANGED <<onboardingVars, feed, quotes, loads, vault, overtaken>>

-------------------------------------------------------------------------------
(* createQuote, as the vault page asks for it.                             *)

\* Variant with a plausible bug: the approval is read and not looked at.
mut_eligible == TRUE

\* participantApprovedRaw === true
eligible == Alpha \in approved

\* The reads of policies: eligibility of the token, haircut and tenor are
\* abstracted, they only make the quote fail.
quote_policies(l) ==
  /\ loads[l] = "policy"
  /\ \/ eligible /\ loads' = [loads EXCEPT ![l] = "price"]
     \/ loads' = [loads EXCEPT ![l] = "error"]
  /\ UNCHANGED <<onboardingVars, feed, refresh, quotes, vault, overtaken>>

\* The reads of the oracle, which panics without a price; then the row.
quote_price(l) ==
  /\ loads[l] = "price"
  /\ \/ /\ oracle # None
        /\ loads' = [loads EXCEPT ![l] = "quoted"]
        /\ quotes' = quotes \cup {Alpha}
     \/ /\ loads' = [loads EXCEPT ![l] = "error"]
        /\ UNCHANGED quotes
  /\ UNCHANGED <<onboardingVars, feed, refresh, vault, overtaken>>

-------------------------------------------------------------------------------
(* The vault page.                                                         *)

\* Variant with a plausible bug: the last asset's quote stays.
mut_quote_reset == vault.quote

\* setQuote(null)
quote_reset == FALSE

\* Choosing an asset runs the effect again: the quote is taken away, and asked
\* for anew when the asset has a contract.  The effect before goes on.
select_asset(asset) ==
  /\ asks
  /\ asset # vault.selectedAsset
  /\ vault' = [selectedAsset |-> asset, quote |-> quote_reset]
  /\ IF asset \in Wired
     THEN \E l \in Loads : loads[l] = "idle" /\ loads' = [loads EXCEPT ![l] = "policy"]
     ELSE UNCHANGED loads
  /\ overtaken' = (overtaken \/ \E l \in Loads : loads[l] # "idle")
  /\ UNCHANGED <<ledger, approved, oracle, late, customer, queue, registering, accepted,
                 verdict, disturbed, mixed, mishaps, feed, refresh, quotes>>

\* if (quoteRes.ok) setQuote(...): whatever asset is selected by now.
take_quote(l) ==
  /\ loads[l] \in {"quoted", "error"}
  /\ loads' = [loads EXCEPT ![l] = "idle"]
  /\ vault' = IF loads[l] = "quoted" THEN [vault EXCEPT !.quote = TRUE] ELSE vault
  /\ UNCHANGED <<onboardingVars, feed, refresh, quotes, overtaken>>

-------------------------------------------------------------------------------

\* A process that dies takes its refresh with it, and loads see an error.
crash(s) ==
  /\ server_dies(s)
  /\ refresh' = IF s = RefreshServer THEN NoRefresh ELSE refresh
  /\ loads' = IF s = RefreshServer
              THEN [l \in Loads |-> IF loads[l] \in {"policy", "price"} THEN "error" ELSE loads[l]]
              ELSE loads
  /\ UNCHANGED <<feed, quotes, vault, overtaken>>

Next ==
  \/ OnboardingStep /\ UNCHANGED quotingVars
  \/ \E s \in Servers : crash(s)
  \/ CloseLedger
  \/ refresh_ledger \/ refresh_price \/ refresh_throws
  \/ \E l \in Loads : quote_policies(l) \/ quote_price(l) \/ take_quote(l)
  \/ \E asset \in Assets : select_asset(asset)

Spec == Init /\ [][Next]_vars

-------------------------------------------------------------------------------
(* What makes onboarding and quoting correct.                              *)

\* Nobody is approved on chain, and nobody has a quote, whom no client ever
\* reported as accepted.
EligibilityEarned == approved \cup quotes \subseteq accepted

\* The stamp of a fetched price never makes it look younger than it is by more
\* than the feed's staleness bound: the credit line measures freshness by it.
StampTellsAge ==
  oracle # None /\ oracle.measured => oracle.updated_ledger - oracle.observed <= MaxAge

\* As long as the asset is not changed while a load is under way, terms read from
\* the chain are shown under the asset that has a contract only.
QuoteShownUnderItsAsset ==
  ~overtaken /\ vault.quote => vault.selectedAsset \in Wired
================================================================================
