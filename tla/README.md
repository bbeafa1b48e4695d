# Nyx Finance in TLA+

TLA+ models, TLC runs and TLAPS proofs for the prefunding credit line of Nyx
Finance: Soroban contracts (`oz-confidential/contracts`), zero-knowledge
circuits (`oz-confidential/circuits`), a TypeScript backend (`backend`) and the
pages that drive it (`frontend`).
Paths below are relative to the repository; `PROJECT.json` maps every definition
to the lines it models.

The business in one paragraph: an anchor owes a payout and has collateral in a
confidential token account, whose balance the chain holds only as a commitment.
It proves in zero knowledge that the committed balance, at the oracle's price and
the policy's haircut, covers a credit. `PrefundingCreditLine.open_credit` checks the
proof, locks a key, freezes the account and records a position; `execute_draw`
pays out, `repay` closes and unfreezes, `liquidate` seizes after the due ledger.
The backend submits these calls for anchors, proves, watches the contracts'
events and keeps the SEP-31 transaction's status.

Contents: [inventory](#1-inventory), [modules](#2-modules), [runs](#3-runs),
[fairness](#4-fairness), [proofs](#5-proofs), [findings](#6-findings),
[what is only model-checked or not modelled](#7-limits), [plan](#8-plan).

## 1. Inventory

### Contracts

| Component | State | Operations | What makes it correct |
|:--|:--|:--|:--|
| PrefundingCreditLine | positions, used nullifiers, pause flag, addresses of its peers | `open_credit`, `execute_draw`, `repay`, `liquidate`, `pause`, `unpause`, `upgrade` | a proof opens one position; covered at opening by real balance, fresh price, current haircut; draw once; end repaid or seized, not both, seized only when overdue; can always wind down |
| CollateralLockRegistry | lock per key | `lock`, `release`, reads | active locks and open positions correspond |
| ConfidentialToken | frozen accounts; balances as commitments (OpenZeppelin) | `freeze`, `unfreeze`, transfers | collateral of an open position stays put |
| ParticipantPolicy, CollateralPolicyRegistry, OracleAdapter | approval with expiry; haircut, tenor, staleness; price with the ledger it was written | setters, two Reflector refreshes | nothing opens on a refused participant, bad policy or old price |
| RepaymentHistoryRegistry | leaves, history roots, used proof nullifiers | `seed_leaf`, `finalize_history_root`, `verify_history` | a root stands for one history, verified claims are true of it |
| DisclosureGrantRegistry | grants | `create_grant`, `revoke_grant`, validity checks | valid as long as the service's table says so |
| TimelockController | scheduled operations, delay, roles | `schedule`, `execute`, `cancel`, `update_delay`, `__check_auth` | nothing administrative without the delay |
| Verifiers, auditor, AccountPolicy, DemoFungibleToken, BlendFacility | keys, flags | library calls | thin wrappers, not modelled |

A contract call is atomic: a panic anywhere undoes all of it, so each is one
action whose guard is the conjunction of the code's checks. The hard part is what
may happen *between* calls: prices, policies, approvals and balances move; the
manager's key also works on the registry and token directly; ledgers close.

### Circuits

`collateral_sufficiency` and `repayment_history` enter the contract models as the
statement a proof is for: a proof exists exactly when the statement holds. The
OpenZeppelin token circuits (`transfer`, `withdraw`, `set_spender`, ...) conserve value
between commitments; they are planned.

### Backend

Two containers share one SQLite database through the mounted `data` directory: `api` and
`prover-worker` (also the watcher's loop). `business-server` serves the anchor's callbacks with the same code
and the same operator key. In docker-compose.yml it has no volume, so its database is its own; run on one
host by the scripts of package.json (`start:api`, `start:business`), it uses the same file as the API. The models have
the second arrangement, one file and two processes.

| Component | State | Operations | Hard behaviour | What makes it correct |
|:--|:--|:--|:--|:--|
| Operator queue (`operator-tx.ts`) | promise chain | enqueue, build, simulate, send, poll | one account, one sequence; 30 s of polling against 180 s of validity; per process only | one failure never blocks the queue |
| Credit-line service (`credit-line.ts`, `confidential-token-transfer.ts`) | evidence rows, `product_status` | open, draw, repay, then write rows | crash or timeout between chain and database | shown status and evidence rest on the chain |
| SEP-31 and anchor callbacks | `anchor_transactions` | create, callback | read-then-write in two processes | as above |
| Quote engine | quotes | create | writes its status after seven awaits | as above |
| Watcher (`watcher.ts`) | cursor, `contract_events` | sync, from worker and route at once | lagging nodes, page limit, crash between inserts and cursor | nothing behind the cursor is missing |
| Proof queue (`proof-jobs.ts`, `prover-worker.ts`) | `proof_jobs`, files | create, claim, prove, complete | claim in two statements, shared `Prover.toml`, dying workers | a request uses only its own proof; jobs and requests end |
| KYB (`sep12.ts`, `anchor-platform.ts`, `participant-policy-sync.ts`) | customers; approval on chain | put, callback URL | rows are kept by customer id, so an account may have several; two processes serve the same routes; failed or late transactions; a read-then-write | nobody is approved unreported; the last verdict wins |
| Oracle admin (`oracle-admin.ts`) | none; the price on chain | refresh | ledger and price are fetched one after the other | the stamp tells the price's age |
| Disclosure (`disclosure.ts`, `demo-state.ts`) | encrypted bundles; last known good state | create, fetch, revoke | grant and bundle in two places; expiry counted from an old ledger | revoked never verifies; chain and table agree |
| Auditor (`routes/auditor.ts`, `auditor-decrypt.ts`) | evidence rows | decrypt, hydrate | rows read, awaited, written back with what the request brought; the node forgets events | what could be decrypted once still can |
| Demo flow (`demo-flow.ts`, `repayment-history.ts`) | one snapshot row | bootstrap, reset, open, draw, repay, prove history | read, await, write back, with no lock between requests | what is shown happened, and to one position |

### Frontend

| Page | State | Operations | Hard behaviour | What makes it correct |
|:--|:--|:--|:--|:--|
| Anchor, credit, draw, repay | phase, a copy of the flow's state, the `positionId` of the address | load, quote, open, draw, repay, prove | late loads, lost answers, other tabs and requests | what the page says of its position is true |
| Vault | selected asset, its quote | select | loads that overtake one another | a chain quote is shown under its asset |
| Observer | role, decrypted amounts, a disclosure form | unlock, disclose | two decryptions one after the other; a `latestLedger` from a cached state | the link lives as long as it was made for |
| Disclosure page | one answer | verify | link opened before, while or after it is revoked | revoked or expired shows nothing |

The runner command-line program, deployment and scripts hold no state the
properties are about. `PROJECT.json` lists every component with its status, and under
`hazards` each thing that is hard to test, at its line.

## 2. Modules

```
Chain <- LockRegistry, Admission, ConfidentialToken
           \________________|________________/
                        CreditLine
                            |
CreditLifecycle <- CreditLineProperties <- MCCreditLine
   (abstract)               |
                     CreditLineProofs

CreditLineHistory (CreditLineProperties and one history variable) <- MCCreditLineHistory

RepaymentHistory   <- MCRepaymentHistory,   RepaymentHistoryProofs
Watcher            <- MCWatcher,            WatcherProofs
ProofQueue         <- MCProofQueue,         ProofQueueProofs
PrefundingService  <- MCPrefundingService,  PrefundingServiceProofs
DemoFlow   <- Console    <- MCConsole,      DemoFlowProofs
Onboarding <- Quoting    <- MCQuoting,      QuotingProofs
Auditing   <- Disclosure <- MCDisclosure,   DisclosureProofs

PositionPhases (abstract)   implemented by CreditLineProperties, PrefundingService, DemoFlow
HistoryRecord  (abstract)   implemented by RepaymentHistory, DemoFlow
FlowView       (abstract)   implemented by DemoFlow, its steps used by Disclosure
```

**Chain** has the ledger sequence, accounts and `LedgerAfter`. **LockRegistry**,
**Admission** (the three registries that admit a credit) and **ConfidentialToken** hold
one contract's state and operations each; an operation constrains its own variables
only, so that it can be conjoined into a larger call.

**CreditLine** composes them: `open_credit` is the contract's checks in order together
with `spend_nullifier`, `lock`, `freeze` and the new position. Amounts stand for the commitments that hide
them: Pedersen binding is the assumption that equal commitments are equal amounts. Two
definitions keep the code's subtleties visible: `execute_draw` takes the
commitment *argument* and the amount in `transfer_data` separately, because nothing in the
code relates them; `freeze` is one flag shared by compliance and collateral. Three
specifications name who acts:

- `Spec`: everyone, including the manager calling registry and token directly;
- `ProtocolSpec`: registry and unfreeze only through the credit line, as the repository's services do;
- `HistorySpec` (**CreditLineHistory**): the same, remembering in `pledgedOnce` whether an account
  was ever pledged to two positions at a time. No code prevents that, so what is promised about
  collateral is stated of every behaviour *until* it happens, and no behaviour is left out.

`price_e7`, haircut and basis points are scaled down through `PriceScale` and `BpsScale`;
`MaxPrice` stands for the end of i128, past which `to_e7` panics. `pricedAt` is a history
variable: when a price was really written, whatever its stamp.

**CreditLifecycle** is the abstract specification of one position (none, opened, drawn, then
repaid or seized; due ledger fixed at opening; seized only after it).
`LivesItsLifecycle` says that `CreditLine` implements it under the mapping in
**CreditLineProperties**.

**RepaymentHistory** is the registry plus the statement of its circuit. A leaf nullifier
is represented by what it hashes, the repayment and the secret, a root by the sequence of its leaves. One repayment
hashed with two secrets is therefore two leaves, as it is in the circuit: "three repayments" are three leaves, and nothing in
the code makes them three different payments.

**Watcher** has the chain's event log, RPC nodes that lag by up to `NodeLag` ledgers, and
`syncWatcherOnce` cut at its awaits: `fetch_latest`, `read_cursor`, `get_events`,
`insert_events`, `upsert_cursor`. `abandon` is a throw or a crash at any of them,
`crash_while_storing` one in the loop of inserts. `since` and `pagesWhole` are history
variables.

**ProofQueue** has the table, one `Prover.toml`/witness pair per container, and tasks (worker loop, API requests)
that claim in two statements and run `nargo`, then `bb`.

**PrefundingService** has the operator's promise chain, the network's pending transactions, and
the two tables. A request goes new, queued, built, polling, confirmed, ok or error. The
network includes a pending transaction in sequence or drops it, independently of whether
anyone still polls. The business-server's callback (where it works on the same database file) is two steps, SELECT and upsert; the API
process's own are one, since better-sqlite3 is synchronous and no await lies between them.

**DemoFlow** has the six operations of `demo-flow.ts`, each as the list of its awaits (`Awaits`) between
what it reads and what it writes. `openDemoCredit` and `bootstrapDemoFlow` read the snapshot
again before they write; draw, repay and history write over it as they read it
(`request[c].current`). An await succeeds, is refused, or is given up on after the 30-second poll, and then
its transaction may still `land_late`. `crash` ends everything at once. Sections of
the snapshot are represented by the position their transaction was for. Two history variables
name the assumptions of the properties: `strayed` (a client named another position than the stored
one) and `smooth` (requests came one by one and none ended half done).

**Console** extends it with one browser tab that walks through the anchor, credit, draw and repay pages: phase,
copy of the flow, address, request under way. Every request of the flow is then a page's or the operator's
reset; the connection may break, the user may leave, and the server goes on. `Offered` is which
button a page shows in a phase; `Says` is what it tells the user about its position.

**Onboarding** has the table of customers, approvals and the operator's transactions of two processes that know nothing of each
other. The table's key is the customer id: a PUT without one makes a new row, and an account is told by the newest of its rows. A
callback's registration reads the row of the id it names, whatever the account, and writes it back with a new date (`kept_status`,
`callback_select`, `callback_upsert`); a row can also be taken to another account. **Quoting** extends it with the oracle refresh, the
quote engine's reads and the vault page's loads. History variables: `accepted`, who was ever reported accepted; `verdict`, the last one
reported; `disturbed`, whose last verdict may have missed the chain; `mixed`, whose newest row may tell an older verdict; `overtaken`, whether the
asset was changed during a load. `disturbed` is spelled out in `DisturbedAfter`: a verdict heals an account unless older transactions about it
are still about elsewhere; `mixed` in `MixedAfter`: a verdict writes the newest row, unless another process has read a row and has yet to write it.

**Auditing** has the evidence rows, decryptions that fetch a missing salt and write the row back as they read it, and the observer's
unlock ceremony. A row can be decrypted when its data can be inspected and the salt is in one of the three places the code
looks in: what the event carried, the auditor's payload, or the data of a repayment (`readable`). A request may bring data, which replace the
row's before anything is inspected (`kept_data`); **Disclosure** extends it with bundles, grants and the
operator's calls between table and chain, the observer's link, and the viewer's page, which reads the
bundle and then asks for the ledger. The demo flow appears there as `flow_goes_on`, a step of `FlowView`: a
history it shows was verified, and is that of the snapshot's position until a request names another position
(`strayed`). From then on the page can vouch for the wrong position: a repayment of q written over p's snapshot keeps p's
`historyProof` (`demo-flow.ts` spreads the snapshot it read), and a link made of it is outside what `VerifiedClaimsAreTrue` promises.

Three small abstractions hold the models together where they speak of the same things:

- **PositionPhases**, the phases of a position: opened once, drawn at most once, ended once. The contracts keep it, and
  so do the two off-chain models, whose chains are choices (a transaction lands, late or not at all)
  rather than `CreditLine`'s guards. Being below one abstraction does not make every step of the off-chain models
  one of the contracts'; it says that what these models make of a position is nothing the contracts rule out by phase.
- **HistoryRecord**, the record of repayments: leaves one by one up to their number, a root of all of them, proofs against
  a root. `RepaymentHistory` and `DemoFlow` (which has the registry as counters and sets) keep it.
- **FlowView**, the snapshot's position and history beside what was verified. `DemoFlow` implements it
  (`FlowShownTruly`) and `Disclosure` composes its steps with everything else, so that what `Disclosure`
  assumes of the flow is proved of the flow. `Disclosure` counts changes of the snapshot and astray requests against its request
  bound, so that a run ends (the first snapshot costs nothing); `FlowView` itself has no bound.

## 3. Runs

`tlc -config X.cfg M`. All pass within minutes with two workers; "violation" runs are the
[findings](#6-findings).

| Run | Shows | Bounds and why they suffice |
|:--|:--|:--|
| CreditLine_history | through the credit line, registry and positions agree at every step; a freeze ends by repayment only; until the first double pledge the account of an open position is frozen and holds its collateral | two positions, two keys, two anchors: every way two positions can share or reuse a key and an account, or stand side by side |
| CreditLine_direct | with the manager bypassing the credit line: a nullifier is spent once, outstanding positions can be wound down, the life cycle is kept | two positions competing for one key; two nullifiers; three ledgers, so a one-day term starts, ends and is overdue |
| CreditLine_admission | nothing opens uncovered or on a stale price; types | one position, but prices, stamps (past, present, future), feeds (rounding to 0, overflow, negative), policies (strict, lax, ineligible), approvals with expiry and balances all change at any time |
| RepaymentHistory | the two stores of leaves agree and a leaf is filed once, a root never changes, verified claims are true of the leaves | on time, on the due ledger, late, zero and foreign leaves, one repayment under two secrets; recorded dates that agree and disagree with the hashed ones |
| Watcher | behind the cursor nothing is missing while no page was cut; every due event is stored in the end | worker and API at once, two events, in one ledger or two, against a page of one; three ledgers with lag one, the least in which an overlapping sync can set the cursor back to a ledger a node has not shown yet |
| ProofQueue | a request uses its own proof; a container takes a job once; verdicts stand unless two containers took the job; jobs are taken and requests answered | two jobs, each a plain one or a request's, and a worker, in two containers: the least that has both a race within a container and one between containers; crashes unbounded |
| PrefundingService | no status and no evidence without its transaction; one row per position and direction; no two requests under way or successful signed one sequence number; a queued request is answered | three requests of any kind on one position, one SEP-31 transaction, one callback: open, draw and a retry of either, with a stale write-back |
| Console | the snapshot shows nothing that did not happen, is of one position, and is not behind the chain when requests come one by one; what a page says of its position is true; positions and their records on chain go the way `PositionPhases` and `HistoryRecord` allow | two positions, so that one can replace the other under a handler or a page; two requests at once, one tab; one mishap (`MaxMishaps`) among lost answers, resets and transactions given up on: with two, the counterexamples a mutant has are no different and the state space is |
| Quoting | nobody is approved or quoted unreported; the chain follows the last undisturbed verdict about an account, and the account's newest row tells it unless an older row was written again; a fetched stamp tells the price's age; a chain quote is shown under its asset | two customer ids of one account (no call is about two accounts; rows that move between accounts are covered by the theorem), two processes; three requests of any kind (`MaxRequests` is one budget for all of them): a verdict, its reversal under the other id, a callback across or after them; two mishaps, so that of two transactions about the account both can be late; four ledgers with a staleness bound of one |
| Disclosure | a row decrypted once tells what it holds again to a request that brings the transfer's own data; a verified link's claim is true until a request went astray; after a revocation was answered nothing verifies; chain and table agree on what was not disturbed; a good link opens | one grant (calls about two grants share only the queue's order) made by the page or by another client; two positions; `Lifetime` and `Fallback` of one ledger among three, so that a link can expire at once, later or never, from a ledger the page was told late; three requests beside the first snapshot (a link, a revocation, and a changed snapshot or an astray request; or a row filed, decrypted, and decrypted again with other data or across the page's unlock; histories are verified while requests remain); one mishap, one row of evidence (rows do not interact), the page and one more client decrypting |
| CreditLine_double_pledge, Watcher_page_limit | what comments and README say and the code does not do | smallest instance with a counterexample |

Deadlock is checked, but in RepaymentHistory, which stops when every leaf and secret is used, and in
Quoting, which stops when the requests of its bound are used up and answered. Disclosure has a bound on requests too but never
stops: the observer page polls for ever.

Every property of a passing run has a mutant in `PROJECT.json`: an operator beside the
definition it replaces (`mut_...`), a plausible bug under which TLC finds that property
violated. Symmetry is used in safety runs, where positions, keys, nullifiers or
requests are interchangeable, and also in CreditLine_direct, whose life-cycle property is a
safety property (no fairness). PrefundingService checks liveness, so it declares none:
`MCInit` starts from one representative of each set of requests instead.

## 4. Fairness

The CreditLine, RepaymentHistory, Console, Quoting and Disclosure runs assume none: what they check is safety. (That a demo
request ends is not claimed of `DemoFlow`: it is what PrefundingService and ProofQueue show of the two things a handler
awaits.) Where liveness is checked:

- *Watcher*: weak fairness of the worker's `fetch_latest`, because `worker.ts` reschedules
  its loop in a `finally`; strong fairness of the later steps, because the RPC may fail
  again and again but is taken not to fail for ever. Nothing is assumed of the API's syncs.
- *ProofQueue*: weak fairness of each task's steps while its container lives (event loops and
  child processes go on) and of a request's end. Strong fairness of the worker's `claim_job`: containers may
  die anywhere and for ever, only not each time exactly between SELECT and UPDATE.
- *PrefundingService*: weak fairness of a request's steps: RPC calls return or throw, and polling is
  bounded at 30 rounds. Nothing is assumed of the network, of clients or of the absence of crashes; a crash answers
  the request with an error.

## 5. Proofs

TLAPS checks the following for every value of the constants that satisfies the modules'
`ASSUME`s, which say that bounds are sets of naturals, thresholds are naturals and `None` is not a value.
Three say more: the watcher's safety lag is at least the nodes' lag (`WatcherAssumption`), there are finitely many
containers (`QueueAssumption`), and `ConsoleAssumption` keeps `None` apart from clients and from the names of buttons.

The credit line (`CreditLineProofs`) and the repayment history (`RepaymentHistoryProofs`):

| Theorem | Statement | Argument |
|:--|:--|:--|
| `TypeCorrect` | `Spec => []TypeOK` | one step per operation, lemmas per contract |
| `NullifiersSpentOnce` | `Spec => []NullifierSpentOnce` | inductive with the types: only opening adds a position, and it requires and burns an unused nullifier |
| `LocksMatch` | `ProtocolSpec => []LocksMatchPositions` | both directions (position to lock, lock to position) are needed: an opening finds its key free only because every active lock has a holder, and a repayment releases only its own lock because two holders of one key are impossible |
| `CollateralSecured` | `HistorySpec => [](SecuredWhilePledgedOnce /\ (pledgedOnce => CollateralPledgedOnce))` | as long as `pledgedOnce` holds no two open positions share an account, so a repayment unfreezes no other open position's; frozen makes the balance stay |
| `CoverageAtOpening` | `Spec => CoveredWhenOpened` | an action property: `open_credit` is the only step that opens, and what the proof states is about the price and haircut of that same step |
| `OpenedOnFreshPrice` | `Spec => NoStalePriceAdmitted` | the freshness check compares stamps, the property compares when prices were really written. `StampsNotAhead` is the inductive link: a stamp is never later than the writing, so a fresh stamp is of a fresh price |
| `FreezeLifted` | `ProtocolSpec => FreezeLiftedByRepaymentOnly` | an action property: of the steps of the protocol only `repay` takes an account out of `frozen` |
| `ImplementsLifecycle` | `Spec => LivesItsLifecycle` | the refinement of `CreditLifecycle`, a step of the contract at a time: a call about one position is a step of it and a stutter of all others. `DueIsTermEnd` says that the due ledger of every position is still the one its opening fixed |
| `ContractsKeepPhases` | `Spec => OnChain!Spec` | each step of the life cycle just refined is a step of `PositionPhases`: the due ledgers are forgotten (`LifecycleTurns`) |
| `WindDownUnblocked` | `Spec => [](\A p \in PositionIds : Outstanding(p) => ...)` | what `WindDownStaysPossible` comes down to without ENABLED, also when the manager calls registry and token directly: an entry of the registry once made stays (`KeyOnRecord`), so the release in a repayment is not refused, and after its term a position is overdue (`DueIsTermEnd`). That the other conjuncts of `repay` and `liquidate` refuse nothing, TLC checks |
| `LeafFiledOnce` | `Spec => []LeavesFiledOnce` | the record of leaves and the list of a position are two stores; `StoresAgree` says that a list names what is on record under it, without repetition |
| `VerifiedIsTrue` | `Spec => []VerifiedClaimsHold` | a claim is proved against a root, later than the leaves were filed. `ClaimsProven` keeps the proof with the claim; a root stays, and is the full list (`RootIsFullList`) |
| `RootNeverChanges` | `Spec => RootStable` | a position with a root has all its leaves, and a full position takes no more (`IRoot`) |
| `RecordKeptInOrder` | `Spec => Record!Spec` | the refinement of `HistoryRecord`: a leaf is filed only under a position without root, because a root was made of a full list (`IRoot`) |

The backend's watcher, proof queue, transactions and evidence (`WatcherProofs`, `ProofQueueProofs`,
`PrefundingServiceProofs`):

| Theorem | Statement | Argument |
|:--|:--|:--|
| `WatcherSkipsNothing` | `Spec => []NothingSkipped` | `NothingSkipped` is not inductive: a sync in flight carries a start ledger and a page. `IInv` says that what lies below its start is stored or was too old when the watcher began, that its page covers everything up to the safe ledger it will write, and that no ledger it relies on is still open. The safety lag being at least the nodes' lag is the assumption it rests on |
| `StatusIsBacked` | `Spec => []StatusBackedByChain` | a status also travels in a callback's memory, so `IBacked` covers it there too; success is final because a pending transaction is undecided, and `confirmed` follows only from success |
| `EvidenceIsBacked` | `Spec => []EvidenceBackedByChain` | that there is one row per position and direction follows from the chain: two successful draws (or repayments) of a position are impossible (`LandedOnce`) because the first moved its phase on (`EffectsShow`), and every row is of a transaction that landed (`RowsAreTrue`) |
| `OneNumberEach` | `Spec => []SequenceNumbersDiffer` | the number is read in one step and passed on several later. `ISerial` says that only the head of the chain of promises is under way (`HeadOnly`), that what took effect used a number the account is past, and the one under way a number above every settled one (`NumbersPassed`), and that what was confirmed landed (`SettledLanded`) |
| `ServiceKeepsPhases` | `Spec => OnChain!Spec` | the refinement of `PositionPhases`: the network's inclusion of a transaction, whoever still polls for it, is the only step that moves a phase |
| `ProvenOncePerContainer` | `Spec => []TakenOncePerHost` | attempts are counted on the job, but what bounds them is who holds it. `QueueInv` counts the attempts made together with the containers about to make one (`AttemptsBudgeted`); within a container no two tasks are between SELECT and UPDATE (`HostSerial`) |
| `VerdictsStand` | `Spec => VerdictStands` | an action property from the same invariant: while a job was taken once, one task at most works on it, and has not finished (`FirstAttemptAlone`), so nobody is left to overwrite its verdict |
| `OwnProofsOnly` | `Spec => []OwnProofOnly` | inductive: the request compares what the finished job is about with its own inputs in the step in which it goes ahead, whatever the files held before |

The demo flow and the pages over it (`DemoFlowProofs`):

| Theorem | Statement | Argument |
|:--|:--|:--|
| `FlowTyped` | `Spec => []IType` of `DemoFlow` | types, and that a handler about a position knows which and is at an await or past the last (`Shaped`) |
| `SnapshotBacked` | `Spec => []SnapshotBackedByChain` | a snapshot also travels in the memory of a handler that will write it back, and what the handler will add is not in it yet. `IBacked` says both: what is carried is backed (`CarriedBacked`), and who has come past the last await has seen happen what it is about to write (`WritesHappened`). Nothing on chain is taken back (`Kept`), so a write that is late is still true |
| `OnePositionShown` | `Spec => []SnapshotOfOnePosition` | a handler that will write over what it read is about the position it read of (`AboutWhatItRead`), until a request strays |
| `PositionsKnown` | `Spec => []IKnown` | snapshot, handlers, answers, and transactions given up on name positions that were opened: what is written back was read, and an open writes only after its transaction |
| `SnapshotCompleted` | `Spec => []SnapshotComplete` | the snapshot *is* behind between a transaction and the write. `OneByOne` says what holds then: nothing is late, one request runs, it will write over what is still stored, and what it is about to add is just what the snapshot lacks (`Lacking`); otherwise the snapshot is complete |
| `NothingIsForgotten` | `Spec => NothingForgotten` | an action property, that sections shown of a position stay shown as long as requests come one by one. A handler writes the snapshot whole from an earlier reading; `OneByOne` says that the reading is still what is stored |
| `FlowKeepsChain` | `Spec => ChainInOrder` | the refinement of `PositionPhases` and `HistoryRecord`, with awaits that succeed and transactions that land late alike; that no leaf follows a root needs `RootedFull` |
| `FlowShownTruly` | `Spec => View!Spec` | the refinement of `FlowView`. `Showable` of the next snapshot is `SnapshotBacked` and `OnePositionShown` in the next state; what remains is that a step changes one of the three things it shows at a time (`ViewMoves`) |
| `PagesTyped` | `ConsoleSpec => []ConsoleTypeOK` | a page that awaits an answer, or the load after it, knows which button it asked with (`PageTyped`) |
| `PagesAreClients` | `ConsoleSpec => Spec` | a page's step is a client's step or none, because a page, its address and the copy on its way name only positions there are (`PageKnown`, from `IKnown`) |
| `PagesOverSnapshot` | `ConsoleSpec => [](SnapshotBackedByChain /\ SnapshotOfOnePosition /\ SnapshotComplete)` | the theorems about the flow, by the one before |
| `PagesOverChain` | `ConsoleSpec => NothingForgotten /\ ChainInOrder /\ View!Spec` | the same for the action property and the refinements |
| `PagesSayTrue` | `ConsoleSpec => []PageClaimsHold` | a page speaks of its copy, which may be older or younger than what its phase says. `ISaying` joins the flow's invariants with: the copies are snapshots that are true (`ISeen`), what the page awaits is what it asked for (`IFits`), nothing else runs but a reset (`OnlyItsOwn`), all copies on a draw or repay page are of one position, and it is drawn or repaid from the moment the request was answered, thus before the page shows it (`DrawnFor`, `RepaidFor`) |

KYB, oracle, quotes and the vault page (`QuotingProofs`); auditor and disclosure (`DisclosureProofs`):

| Theorem | Statement | Argument |
|:--|:--|:--|
| `TypeCorrect` | `Spec => []TypeOK` of `Quoting` | one step per operation |
| `EligibleWereAccepted` | `Spec => []EligibilityEarned` | calls that are queued, late or in flight approve only who was reported accepted, and the quote engine that passed the approval check did so for one who was (`EarnedInv`) |
| `ChainFollows` | `Spec => []ChainFollowsVerdict` | two parts. For an account nothing disturbed, `Follows` says: nothing about it is late, one process alone has calls about it, and the last call queued, or else the chain, says what the last verdict says. For an account that is not `mixed`, `TableTold` says: its newest row and any registration about to write a row for it hold no other verdict than the last, and no row is dated later than now, so that the row written next is the newest |
| `StampsTellAge` | `Spec => []StampTellsAge` | what holds of the price on chain also holds of the calls that will set it, and the ledger a refresh has fetched is past (`StampInv`) |
| `QuotesUnderTheirAsset` | `Spec => []QuoteShownUnderItsAsset` | until a load is overtaken, a load under way is for the asset selected (`ShownInv`) |
| `DisclosureTypes` | `Spec => []TypeOK` of `Disclosure` | types, and that a call in flight is about a grant that has its row (`CallsKnown`) |
| `SaltAlwaysKept` | `Spec => []SaltKept` | a decryption that fetches writes back an old row with new data. `Salted` says of a row never fetched for by two at once: who fetches is alone, the row has no salt meanwhile, and a row that was decrypted has its event, its payload or is a repayment, whatever data it holds (`Tells`). Fetching once more can then lose nothing that was needed |
| `VerifiedLinksAreTrue` | `Spec => []VerifiedClaimsAreTrue` | the claim is followed through the snapshot, the page's copy of it, the row and the viewer's answer (`ClaimsTrue`); a verified history stays one. Each of them says "or `strayed`", which stays true |
| `RevokedLinksFail` | `Spec => []RevokedNeverVerifies` | the row is marked in the step that answers the revocation, and a row is never made again or unmarked; a page opened later reads a marked row (`RevokedMarked`) |
| `ChainAndTableStayTogether` | `Spec => []ChainAndTableAgree` | chain and table differ while a call is between them. `GrantAgrees` says how, for a grant nothing disturbed: its creation is the first of its calls and the table learns of it with the answer, terms are the same, a revocation shows on chain first and fails only where there is no grant |
| `GoodLinksOpen` | `Spec => []GoodLinkOpens` | rows and the viewer's copy are dated from the ledger the page had been told (`LinkDates`), and a refusal is for a revocation or a date |

No proof is needed about data recursion, and no module that is proved about declares a
RECURSIVE operator. Out of the prover's reach and left to TLC: liveness under fairness (of the
watcher, the proof queue and the service) and `WindDownStaysPossible`, which speaks of ENABLED.

## 6. Findings

Each is a run whose one property states what the repository says, and a counterexample.

1. **Double pledge** (CreditLine_double_pledge). Locks are per key, keys are free values:
   two keys pledge one account. Repaying the one then unfreezes it under the other, even if that one
   was seized, against `liquidate`'s comment that "the account stays frozen".
2. **Page limit** (Watcher_page_limit). A cut page and a cursor at the tip lose events.

Behaviours of the code that the models contain, and that a reader may not expect. None is kept as a run of
its own: a property's condition or a hazard in `PROJECT.json` names each.

- The amount a draw moves is in `transfer_data`; the commitment that `execute_draw` compares is an argument
  beside it (prefunding-credit-line `lib.rs:418`).
- A transaction that lands after the 30-second poll, or across a crash, leaves no evidence row and no
  status, though README.md:556 offers the evidence to the auditor.
- An approval revoked between opening and draw is not looked at again (`lib.rs:383`).
- `paid_ledger` and `due_ledger` of a leaf are separate arguments that nothing compares
  (repayment-history-registry `lib.rs:142`).
- After seeding some of the three leaves and failing, `proveDemoRepaymentHistory` is refused for ever: it seeds
  the first leaf again (`demo-flow.ts:805`). In `DemoFlow` a position with `seeded` 1 or 2 and no request running has
  no way on, and `smooth` is false.
- Two overlapping demo requests undo one another's sections of the snapshot; they never invent one.
- The disclosure service verifies nothing that a client claims: `VerifiedClaimsAreTrue` is about links of the
  observer page. The viewer's page asks the service and never the chain. The service receives scoped
  data and viewer secret in the clear, although the page's footer says that it never had the plaintext.
- Registering a callback writes the row of the customer it names again, with its old verdict and a new date, and sends no transaction
  (`sep12.ts:103`). An account accepted under one id and then rejected under another is accepted again in the table and not on
  chain, in one process with nothing failing, although README.md:305 has a customer's status "synced into `ParticipantPolicy`"
  (`mixed`).
- A decryption request's `dataXdrBase64` is stored in the row before it is inspected (`auditor.ts:118`, `143`). If it cannot be
  inspected, later requests that bring none fail on the row, the observer page's too. The salt itself is kept (`SaltKept`), so a request that
  brings the transfer's own data repairs the row.
- A quote created for a SEP-31 transaction sets `credit_quote_ready` whatever it was before (`quote-engine.ts:76`), although
  README.md:222 gives the statuses in one direction: a status may go back, never ahead of the chain.
- While the node does not tell its latest ledger, an expired link is shown as verified (`disclosure.ts:230`), although
  `frontend/app/docs/page.tsx:88` calls the grant "expiring".
- A customer who goes back to needs_info stays approved on chain (`sep12.ts:86`); a chain quote that was overtaken by a change of asset is
  shown under the wrong one (`vault/page.tsx:187`); a link made before the page was told a ledger counts from 1,000,000
  (`observer/page.tsx:357`). The repository promises nothing about these, and no property does: `EligibilityEarned`,
  `QuoteShownUnderItsAsset` and `GoodLinkOpens` are about the other cases.
- The unlock ceremony takes the newest draw and the newest repayment, which need not be of one position.
- The draw page's "Verified" badge is shown before anything was drawn; it is about the opening's proof.

## 7. Limits

Only model-checked: `WindDownStaysPossible` (ENABLED; `WindDownUnblocked` proves the guards it rests on) and the liveness properties of Watcher, ProofQueue and
PrefundingService. Every other property of a passing run is a theorem. Conversely, the refinements by `CreditLine`, `PrefundingService` and
`RepaymentHistory` of the abstractions they share, `DemoFlow`'s of `FlowView`, and `NothingForgotten` are
theorems and have no run.

Abstracted everywhere: cryptography (a commitment is its amount, a hash is what it hashes, a
proof exists when its statement holds, a key is the right one or another), storage time-to-live (state entries are extended past a
credit's term and assumed present), roles (each operation is its role's holder acting),
`upgrade` (it replaces the code), event payloads, encryption, formatting, logging. In
`PrefundingService` a transaction that fails on chain is a choice, so price, proof and pause
need not be repeated there; `sep_status` is left out because nothing reads it to decide. In
`Watcher` the node's retention window is left out: the runs assume the cursor stays inside it; a watcher that was
down for longer asks for a `startLedger` the node refuses. In
`DemoFlow` profiles, quotes, proofs and fixtures only make a handler refuse, and a refused demo request is one action
wherever in the handler it happens before an await; the proof jobs and the balance merge change nothing modelled there, so a
handler just stays longer at the await that follows. In `Console` a page has one request at a time, as its
buttons allow, and one tab is open: a second tab is another client whose answers are discarded. In `Quoting`
the eligibility, haircut and tenor reads only fail a quote. In `Disclosure` the evidence has no position. In
`Onboarding` two rows dated in one millisecond are both the newest, and `ToldByTable` is about each of them; the arrangement in containers, with a
table for each process, is left out. Both processes sign with one operator account: a sequence number the other takes appears as a transaction
that fails, here and in `PrefundingService`, and the collision itself is not modelled. In `Auditing` the auditor's payload is there or
not, never in part, and the answer to a request that brings a payload of its own says nothing of the row, so it does not count as decrypted.

Not modelled, each with its reason as `not_modelled` in `PROJECT.json`: the OpenZeppelin token and its circuits (a dependency;
elliptic-curve arithmetic), verifiers and auditor contract (key stores), AccountPolicy, DemoFungibleToken and
BlendFacility (a flag, a library token, a pass-through), TimelockController (administration beside the credit
line: nothing else modelled here calls it), HTTP server and configuration, the runner, deployment and scripts.

## 8. Plan

What is left would widen the model:

1. **Timelock**: schedule, execute, cancel and `update_delay` against an abstract delayed action, with
   `__check_auth` as the way around it.
2. **ConfidentialTransfers**: the token circuits as guards over commitments, so that `balance` moves by proofs
   and conservation of value is a property.
3. What remains of `SnapshotCompleted` and `PagesSayTrue` when requests of two tabs overlap: `smooth` excludes it,
   and the weaker promises that hold then are only those of `SnapshotBacked` and `OnePositionShown`.
