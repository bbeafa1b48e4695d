------------------------------- MODULE Onboarding -------------------------------
(***************************************************************************)
(* Customers and their approval on chain: the SEP-12 routes, the anchor's  *)
(* status callback and the participant-policy sync (sep12.ts,              *)
(* anchor-platform.ts, participant-policy-sync.ts, operator-tx.ts).        *)
(*                                                                         *)
(* A status is written to the table at once; an accepted or rejected one   *)
(* also becomes a transaction.  The table's key is the customer: an        *)
(* account has a row for each customer reported under it, each with the    *)
(* status it was last given, and the newest one is the account's.  Each    *)
(* server process sends its own transactions one after the other.  Run on  *)
(* one host, two processes serve the same routes on one table and one      *)
(* chain and know nothing of each other; in containers the business server *)
(* has a table of its own, and shares the chain and the key only.  A       *)
(* transaction that fails is answered and forgotten.                       *)
(***************************************************************************)
EXTENDS Integers, Sequences, FiniteSets

CONSTANTS
  Accounts,
  Customers,     \* the customers' ids, those given and those made up by newId
  Servers,       \* the processes: API and business server
  MaxRequests,   \* bound: requests in a behaviour
  MaxMishaps,    \* bound: crashes and transactions given up on in a behaviour
  None

ASSUME OnboardingAssumption ==
  /\ None \notin Accounts /\ None \notin Servers
  /\ MaxRequests \in Nat /\ MaxMishaps \in Nat

VARIABLES
  ledger,       \* the current ledger
  approved,     \* on chain, ParticipantPolicy: the approved accounts
  oracle,       \* on chain, OracleAdapter: the price, None before the first
  late,         \* transactions given up on that may still be included
  customer,     \* table anchor_customers: the row of each id, None if there is none
  queue,        \* operator transactions of each process, the first is at work
  registering,  \* a callback's registration: the row it read, None if there is none
  accepted,     \* history: accounts some client reported as accepted
  verdict,      \* history: the last verdict reported of each account
  disturbed,    \* history: accounts whose last verdict may have missed the chain
  mixed,        \* history: accounts whose newest row may tell an older verdict
  requests,     \* bound: requests so far
  mishaps       \* bound: crashes and transactions given up on

onboardingVars == <<ledger, approved, oracle, late, customer, queue, registering,
                    accepted, verdict, disturbed, mixed, requests, mishaps>>

\* What a client reports, and the status the table holds.
Reported == {"ACCEPTED", "REJECTED", "PROCESSING", "anything"}
CustomerStatus == {"accepted", "rejected", "pending", "needs_info"}
Verdicts == {"accepted", "rejected"}

\* The columns that matter.  The time counts the requests so far.
Row == [account : Accounts, status : CustomerStatus, updated_at : Nat]

ASSUME StatusAssumption == None \notin CustomerStatus /\ None \notin Row

\* A callback's registration, between reading the customer's status and writing.
Registration == [customer : Customers, account : Accounts, status : CustomerStatus]

\* The rows of an account, and what a lookup by account finds: the newest
\* (one of them, if two were written in the same moment).
rowsOf(a) == {i \in Customers : customer[i] # None /\ customer[i].account = a}

newest(a) ==
  {i \in rowsOf(a) : \A j \in rowsOf(a) : customer[j].updated_at <= customer[i].updated_at}

\* A price as the adapter stores it.  History: `observed` is the ledger in which
\* the feed had made it, `measured` that price and stamp were both fetched.
PriceData == [updated_ledger : Nat, observed : Nat, measured : BOOLEAN]

Calls ==
  [call : {"set_participant"}, account : Accounts, approved : BOOLEAN, price : {None}]
    \cup [call : {"set_price"}, account : {None}, approved : {FALSE}, price : PriceData]

set_participant(a, ok) ==
  [call |-> "set_participant", account |-> a, approved |-> ok, price |-> None]

set_price(price) ==
  [call |-> "set_price", account |-> None, approved |-> FALSE, price |-> price]

OnboardingInit ==
  /\ ledger = 1
  /\ approved = {} /\ oracle = None /\ late = {}
  /\ customer = [i \in Customers |-> None]
  /\ queue = [s \in Servers |-> <<>>]
  /\ registering = [s \in Servers |-> None]
  /\ accepted = {} /\ verdict = [a \in Accounts |-> None]
  /\ disturbed = {} /\ mixed = {}
  /\ requests = 0 /\ mishaps = 0

-------------------------------------------------------------------------------
(* Reporting a status.                                                     *)

\* Bound: a request is made, of whatever kind.
asks ==
  /\ requests < MaxRequests
  /\ requests' = requests + 1

\* Variant with a plausible bug: what is not understood counts as accepted.
mut_toInternalStatus(word) ==
  CASE word = "REJECTED" -> "rejected" [] word = "PROCESSING" -> "pending"
    [] OTHER -> "accepted"

toInternalStatus(word) ==
  CASE word = "ACCEPTED" -> "accepted" [] word = "REJECTED" -> "rejected"
    [] word = "PROCESSING" -> "pending" [] OTHER -> "needs_info"

\* Variant with a plausible bug: only an acceptance is carried to the chain.
mut_synced(status) == status = "accepted"

\* The statuses that are carried to the chain.
synced(status) == status \in {"accepted", "rejected"}

\* Transactions about an account that process s does not wait for.
ElsewhereFor(a, s) ==
  \/ \E c \in late : c.account = a
  \/ \E t \in Servers \ {s} : \E i \in DOMAIN queue[t] : queue[t][i].account = a

\* Registrations of other processes that will write back the row as it was.
CrossedBy(a, s) ==
  \E t \in Servers \ {s} : registering[t] # None /\ registering[t].account = a

AtWork(a) == \E s \in Servers : \E i \in DOMAIN queue[s] : queue[s][i].account = a

\* A verdict heals what was disturbed, unless older transactions are about.
DisturbedAfter(a, s, status) ==
  IF ~synced(status) THEN disturbed
  ELSE IF ElsewhereFor(a, s) THEN disturbed \cup {a}
  ELSE IF AtWork(a) THEN disturbed
  ELSE disturbed \ {a}

\* The account that loses its newest row i when that is written for account a: an
\* older one is its newest now.
LeftBy(i, a) == {b \in Accounts \ {a} : i \in newest(b)}

\* The newest row is the one just written, unless an older one is yet to come.
MixedAfter(i, a, s) ==
  LeftBy(i, a) \cup (IF CrossedBy(a, s) THEN mixed \cup {a} ELSE mixed \ {a})

\* upsertCustomerStatus: ON CONFLICT(customer_id) the account changes as well.
upsert(i, a, status, now) ==
  customer' = [customer EXCEPT ![i] = [account |-> a, status |-> status, updated_at |-> now]]

\* putSep12Customer and recordCustomerStatus: the row is written and, in the
\* same breath, the transaction is queued.  The id is given, or a new one.
put_customer(s, i, a, word) ==
  LET status == toInternalStatus(word) IN
  /\ asks
  /\ registering[s] = None
  /\ upsert(i, a, status, 2 * requests')
  /\ queue' = IF synced(status)
              THEN [queue EXCEPT ![s] = Append(@, set_participant(a, status = "accepted"))]
              ELSE queue
  /\ accepted' = IF word = "ACCEPTED" THEN accepted \cup {a} ELSE accepted
  /\ verdict' = IF status \in Verdicts THEN [verdict EXCEPT ![a] = status] ELSE verdict
  /\ disturbed' = DisturbedAfter(a, s, status)
  /\ mixed' = MixedAfter(i, a, s)
  /\ UNCHANGED <<ledger, approved, oracle, late, registering, mishaps>>

\* Variant with a plausible bug: a customer nobody knows yet has no status to keep.
mut_kept_status(i) == IF customer[i] = None THEN None ELSE customer[i].status

\* existing?.status ?? "needs_info": with an id, getCustomerByIdOrAccount looks
\* at that customer's row only, whatever the account.
kept_status(i) == IF customer[i] = None THEN "needs_info" ELSE customer[i].status

\* Registering a callback URL keeps the customer's status: it is read, and then
\* written again with the row, which becomes the newest of the account.  The two
\* statements are no transaction.
callback_select(s, i, a) ==
  /\ asks
  /\ registering[s] = None
  /\ registering' = [registering EXCEPT
                      ![s] = [customer |-> i, account |-> a, status |-> kept_status(i)]]
  /\ mixed' = IF synced(kept_status(i)) /\ i \notin newest(a) THEN mixed \cup {a} ELSE mixed
  /\ UNCHANGED <<ledger, approved, oracle, late, customer, queue, accepted, verdict, disturbed,
                 mishaps>>

callback_upsert(s) ==
  LET r == registering[s] IN
  /\ r # None
  /\ upsert(r.customer, r.account, r.status, 2 * requests + 1)
  /\ mixed' = mixed \cup LeftBy(r.customer, r.account)
  /\ registering' = [registering EXCEPT ![s] = None]
  /\ UNCHANGED <<ledger, approved, oracle, late, queue, accepted, verdict, disturbed, requests,
                 mishaps>>

-------------------------------------------------------------------------------
(* The operator's transactions.                                            *)

\* A stamp from the future is refused.
admitted(c) == c.call = "set_price" => c.price.updated_ledger <= ledger

take_effect(c) ==
  /\ admitted(c)
  /\ approved' = IF c.call = "set_price" THEN approved
                 ELSE IF c.approved THEN approved \cup {c.account} ELSE approved \ {c.account}
  /\ oracle' = IF c.call = "set_price" THEN c.price ELSE oracle

\* The transaction a process is at; it goes on with the next one, whatever became
\* of this one.
at_work(s) == Head(queue[s])

operator_tx(s) ==
  /\ queue[s] # <<>> /\ registering[s] = None
  /\ take_effect(at_work(s))
  /\ queue' = [queue EXCEPT ![s] = Tail(@)]
  /\ UNCHANGED <<ledger, late, customer, registering, accepted, verdict,
                 disturbed, mixed, requests, mishaps>>

\* It fails: refused in simulation, a sequence number that is taken, no answer.
operator_tx_fails(s) ==
  /\ queue[s] # <<>> /\ registering[s] = None
  /\ mishaps < MaxMishaps
  /\ mishaps' = mishaps + 1
  /\ queue' = [queue EXCEPT ![s] = Tail(@)]
  /\ disturbed' = disturbed \cup ({at_work(s).account} \cap Accounts)
  /\ late' \in {late, late \cup {at_work(s)}}
  /\ UNCHANGED <<ledger, approved, oracle, customer, registering, accepted, verdict, mixed,
                 requests>>

\* One given up on after 30 seconds is included all the same; or never, once its
\* time bounds have passed.
land_late(c) ==
  /\ take_effect(c)
  /\ late' = late \ {c}
  /\ UNCHANGED <<ledger, customer, queue, registering, accepted, verdict,
                 disturbed, mixed, requests, mishaps>>

expire(c) ==
  /\ late' = late \ {c}
  /\ UNCHANGED <<ledger, approved, oracle, customer, queue, registering, accepted, verdict,
                 disturbed, mixed, requests, mishaps>>

\* A process dies: its queue is gone, but what it had sent may be included.
server_dies(s) ==
  /\ queue[s] # <<>> \/ registering[s] # None
  /\ mishaps < MaxMishaps
  /\ mishaps' = mishaps + 1
  /\ late' \in {late} \cup (IF queue[s] = <<>> THEN {} ELSE {late \cup {at_work(s)}})
  /\ disturbed' = disturbed \cup ({queue[s][i].account : i \in DOMAIN queue[s]} \cap Accounts)
  /\ queue' = [queue EXCEPT ![s] = <<>>]
  /\ registering' = [registering EXCEPT ![s] = None]
  /\ UNCHANGED <<ledger, approved, oracle, customer, accepted, verdict, mixed, requests>>

-------------------------------------------------------------------------------

OnboardingStep ==
  \/ \E s \in Servers :
       \/ \E i \in Customers, a \in Accounts :
            \/ \E word \in Reported : put_customer(s, i, a, word)
            \/ callback_select(s, i, a)
       \/ callback_upsert(s)
       \/ operator_tx(s)
       \/ operator_tx_fails(s)
  \/ \E c \in late : land_late(c) \/ expire(c)

-------------------------------------------------------------------------------
(* What makes it correct.                                                  *)

\* A verdict reaches the chain in the end, and the last one wins: once no
\* transaction about the account is queued, the contract follows it, unless a
\* transaction failed, or the two processes were at work on the account at once,
\* since its last undisturbed verdict.
ReachedChain(a) ==
  a \notin disturbed /\ ~AtWork(a) /\ verdict[a] # None =>
    (a \in approved <=> verdict[a] = "accepted")

\* The account's newest row tells no other verdict than the last, unless an older
\* row was written again, or taken to another account, since that verdict.
ToldByTable(a) ==
  a \notin mixed => \A i \in newest(a) : synced(customer[i].status) =>
                       customer[i].status = verdict[a]

\* The chain and the table follow the last verdict: sep12.ts and
\* anchor-platform.ts write the row and queue the transaction in one breath, the
\* process sends its transactions in order, and a callback's registration writes
\* the row as it was read.
ChainFollowsVerdict == \A a \in Accounts : ReachedChain(a) /\ ToldByTable(a)
================================================================================
