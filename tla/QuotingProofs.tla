------------------------------- MODULE QuotingProofs -------------------------------
(***************************************************************************)
(* Onboarding and quoting for any number of accounts and processes.        *)
(*                                                                         *)
(* What is on chain came out of a transaction that was queued, and some of *)
(* them are late: so what holds of the chain has to hold of every call     *)
(* still pending, in the queues and among those given up on.               *)
(***************************************************************************)
EXTENDS Quoting, TLAPS

Pending(c) ==
  \/ c \in late
  \/ \E s \in Servers : \E i \in DOMAIN queue[s] : queue[s][i] = c

-------------------------------------------------------------------------------
(* Sequences and calls.                                                    *)

LEMMA TailOf ==
  ASSUME NEW S, NEW q \in Seq(S), q # <<>>
  PROVE  /\ Tail(q) \in Seq(S) /\ Head(q) = q[1] /\ Head(q) \in S
         /\ 1 \in DOMAIN q
         /\ DOMAIN Tail(q) = {i \in Nat \ {0} : i + 1 \in DOMAIN q}
         /\ \A i \in DOMAIN Tail(q) : i + 1 \in DOMAIN q /\ Tail(q)[i] = q[i + 1]
<1>1. Len(q) \in Nat /\ Len(q) # 0 /\ DOMAIN q = 1 .. Len(q)
  OBVIOUS
<1>2. Tail(q) \in Seq(S) /\ Len(Tail(q)) = Len(q) - 1
  BY <1>1
<1> QED
  BY <1>1, <1>2

LEMMA AppendOf ==
  ASSUME NEW S, NEW q \in Seq(S), NEW x \in S
  PROVE  /\ Append(q, x) \in Seq(S) /\ Len(q) + 1 \in Nat
         /\ DOMAIN Append(q, x) = DOMAIN q \cup {Len(q) + 1}
         /\ Append(q, x)[Len(q) + 1] = x
         /\ \A i \in DOMAIN q : i \in Nat /\ i <= Len(q) /\ Append(q, x)[i] = q[i]
<1>1. Len(q) \in Nat /\ DOMAIN q = 1 .. Len(q)
  OBVIOUS
<1>2. Append(q, x) \in Seq(S) /\ Len(Append(q, x)) = Len(q) + 1
  OBVIOUS
<1> QED
  BY <1>1, <1>2

LEMMA CallFields ==
  ASSUME NEW c \in Calls
  PROVE  /\ c.approved \in BOOLEAN
         /\ c.call = "set_price" => c.price \in PriceData /\ c.account = None /\ ~c.approved
         /\ c.call # "set_price" => c.account \in Accounts
BY DEF Calls

LEMMA ParticipantCall ==
  ASSUME NEW a \in Accounts, NEW ok \in BOOLEAN
  PROVE  /\ set_participant(a, ok) \in Calls
         /\ set_participant(a, ok).call = "set_participant"
         /\ set_participant(a, ok).account = a /\ set_participant(a, ok).approved = ok
BY DEF set_participant, Calls

LEMMA PriceCall ==
  ASSUME NEW p \in PriceData
  PROVE  /\ set_price(p) \in Calls
         /\ set_price(p).call = "set_price" /\ set_price(p).price = p
         /\ set_price(p).account = None /\ set_price(p).approved = FALSE
BY DEF set_price, Calls

LEMMA StatusOf ==
  ASSUME NEW word \in Reported
  PROVE  /\ toInternalStatus(word) \in CustomerStatus
         /\ toInternalStatus(word) = "accepted" <=> word = "ACCEPTED"
BY DEF Reported, CustomerStatus, toInternalStatus

LEMMA RefreshedTyped ==
  ASSUME TypeOK, NEW p \in RefreshedPrices
  PROVE  p \in PriceData
<1>1. refresh.latestLedger \in Nat /\ feed \in Nat
  BY DEF TypeOK, Refresh
<1>2. \E o \in {0, feed}, m \in BOOLEAN :
        p = [updated_ledger |-> refresh.latestLedger, observed |-> o, measured |-> m]
  BY DEF RefreshedPrices
<1> QED
  BY <1>1, <1>2 DEF PriceData

\* A call that takes effect.
LEMMA EffectTyped ==
  ASSUME TypeOK, NEW c \in Calls, take_effect(c)
  PROVE  approved' \subseteq Accounts /\ oracle' \in PriceData \cup {None}
BY CallFields DEF take_effect, TypeOK

-------------------------------------------------------------------------------
(* Type correctness.                                                       *)

LEMMA TypeInit == Init => TypeOK
<1> SUFFICES ASSUME Init
             PROVE  TypeOK
  OBVIOUS
<1>1. refresh \in Refresh /\ vault \in [selectedAsset : Assets, quote : BOOLEAN]
  BY DEF Init, NoRefresh, Refresh, Assets
<1>2. loads \in [Loads -> {"idle", "policy", "price", "quoted", "error"}]
  BY DEF Init
<1>3. /\ queue \in [Servers -> Seq(Calls)]
      /\ customer \in [Customers -> Row \cup {None}]
      /\ registering \in [Servers -> Registration \cup {None}]
      /\ verdict \in [Accounts -> Verdicts \cup {None}]
  BY DEF Init, OnboardingInit
<1> QED
  BY <1>1, <1>2, <1>3 DEF Init, OnboardingInit, TypeOK

\* The account that loses a row is one.
LEMMA LeftTyped ==
  ASSUME NEW i, NEW a
  PROVE  LeftBy(i, a) \subseteq Accounts
BY DEF LeftBy

\* A row is written.
LEMMA UpsertTyped ==
  ASSUME TypeOK, NEW i \in Customers, NEW a \in Accounts, NEW status \in CustomerStatus,
         NEW now \in Nat, upsert(i, a, status, now)
  PROVE  customer' \in [Customers -> Row \cup {None}]
<1>1. [account |-> a, status |-> status, updated_at |-> now] \in Row
  BY DEF Row
<1> QED
  BY <1>1 DEF upsert, TypeOK

LEMMA PutTyped ==
  ASSUME TypeOK, NEW s \in Servers, NEW i \in Customers, NEW a \in Accounts,
         NEW word \in Reported, put_customer(s, i, a, word), UNCHANGED quotingVars
  PROVE  TypeOK'
<1> DEFINE status == toInternalStatus(word)
<1>1. status \in CustomerStatus
  BY StatusOf
<1>2. requests' \in Nat /\ 2 * requests' \in Nat
  BY DEF put_customer, asks, TypeOK
<1>3. customer' \in [Customers -> Row \cup {None}]
  BY <1>1, <1>2, UpsertTyped DEF put_customer
<1>4. queue' \in [Servers -> Seq(Calls)]
  <2>1. Append(queue[s], set_participant(a, status = "accepted")) \in Seq(Calls)
    <3>1. set_participant(a, status = "accepted") \in Calls
      BY ParticipantCall
    <3> QED
      BY <3>1, AppendOf DEF TypeOK
  <2> QED
    BY <2>1 DEF put_customer, TypeOK
<1>5. disturbed' \subseteq Accounts
  BY DEF put_customer, DisturbedAfter, TypeOK
<1>6. accepted' \subseteq Accounts
  BY DEF put_customer, TypeOK
<1>7. mixed' \subseteq Accounts
  BY LeftTyped DEF put_customer, MixedAfter, TypeOK
<1>8. verdict' \in [Accounts -> Verdicts \cup {None}]
  BY DEF put_customer, TypeOK
<1> QED
  BY <1>2, <1>3, <1>4, <1>5, <1>6, <1>7, <1>8 DEF put_customer, quotingVars, TypeOK

LEMMA KeptTyped ==
  ASSUME TypeOK, NEW i \in Customers
  PROVE  kept_status(i) \in CustomerStatus
BY DEF kept_status, CustomerStatus, Row, TypeOK

LEMMA CallbackTyped ==
  ASSUME TypeOK, NEW s \in Servers, UNCHANGED quotingVars,
         (\E i \in Customers, a \in Accounts : callback_select(s, i, a)) \/ callback_upsert(s)
  PROVE  TypeOK'
<1>1. ASSUME NEW i \in Customers, NEW a \in Accounts, callback_select(s, i, a)
      PROVE  TypeOK'
  <2>1. [customer |-> i, account |-> a, status |-> kept_status(i)] \in Registration
    BY KeptTyped DEF Registration
  <2>2. registering' \in [Servers -> Registration \cup {None}]
    BY <1>1, <2>1 DEF callback_select, TypeOK
  <2>3. requests' \in Nat
    BY <1>1 DEF callback_select, asks, TypeOK
  <2>4. mixed' \subseteq Accounts
    BY <1>1 DEF callback_select, TypeOK
  <2> QED
    BY <1>1, <2>2, <2>3, <2>4 DEF callback_select, quotingVars, TypeOK
<1>2. CASE callback_upsert(s)
  <2>1. registering[s] \in Registration
    BY <1>2 DEF callback_upsert, TypeOK
  <2>2. /\ registering[s].customer \in Customers /\ registering[s].account \in Accounts
        /\ registering[s].status \in CustomerStatus /\ 2 * requests + 1 \in Nat
    BY <2>1 DEF Registration, TypeOK
  <2>3. customer' \in [Customers -> Row \cup {None}]
    BY <1>2, <2>2, UpsertTyped DEF callback_upsert
  <2>4. registering' \in [Servers -> Registration \cup {None}]
    BY <1>2 DEF callback_upsert, TypeOK
  <2>5. mixed' \subseteq Accounts
    BY <1>2, LeftTyped DEF callback_upsert, TypeOK
  <2> QED
    BY <1>2, <2>3, <2>4, <2>5 DEF callback_upsert, quotingVars, TypeOK
<1> QED
  BY <1>1, <1>2

LEMMA OperatorTyped ==
  ASSUME TypeOK, NEW s \in Servers, UNCHANGED quotingVars,
         operator_tx(s) \/ operator_tx_fails(s)
  PROVE  TypeOK'
<1>1. queue[s] \in Seq(Calls) /\ queue[s] # <<>> /\ queue' = [queue EXCEPT ![s] = Tail(@)]
  BY DEF operator_tx, operator_tx_fails, TypeOK
<1>2. at_work(s) \in Calls /\ Tail(queue[s]) \in Seq(Calls)
  BY <1>1, TailOf DEF at_work
<1>3. queue' \in [Servers -> Seq(Calls)]
  BY <1>1, <1>2 DEF TypeOK
<1>4. CASE operator_tx(s)
  BY <1>2, <1>3, <1>4, EffectTyped DEF operator_tx, quotingVars, TypeOK
<1>5. CASE operator_tx_fails(s)
  <2>1. late' \subseteq Calls /\ disturbed' \subseteq Accounts /\ mishaps' \in Nat
    BY <1>2, <1>5 DEF operator_tx_fails, TypeOK
  <2> QED
    BY <1>3, <1>5, <2>1 DEF operator_tx_fails, quotingVars, TypeOK
<1> QED
  BY <1>4, <1>5

LEMMA LateTyped ==
  ASSUME TypeOK, NEW c \in late, UNCHANGED quotingVars, land_late(c) \/ expire(c)
  PROVE  TypeOK'
<1>1. c \in Calls
  BY DEF TypeOK
<1>2. CASE land_late(c)
  BY <1>1, <1>2, EffectTyped DEF land_late, quotingVars, TypeOK
<1>3. CASE expire(c)
  BY <1>3 DEF expire, quotingVars, TypeOK
<1> QED
  BY <1>2, <1>3

LEMMA CrashTyped ==
  ASSUME TypeOK, NEW s \in Servers, crash(s)
  PROVE  TypeOK'
<1>1. late' \subseteq Calls
  <2>1. queue[s] # <<>> => at_work(s) \in Calls
    BY TailOf DEF at_work, TypeOK
  <2> QED
    BY <2>1 DEF crash, server_dies, TypeOK
<1>2. queue' \in [Servers -> Seq(Calls)]
  BY DEF crash, server_dies, TypeOK
<1>3. registering' \in [Servers -> Registration \cup {None}]
  BY DEF crash, server_dies, TypeOK
<1>4. disturbed' \subseteq Accounts /\ mishaps' \in Nat
  BY DEF crash, server_dies, TypeOK
<1>5. loads' \in [Loads -> {"idle", "policy", "price", "quoted", "error"}]
  BY DEF crash, TypeOK
<1>6. refresh' \in Refresh
  BY DEF crash, TypeOK, NoRefresh, Refresh
<1> QED
  BY <1>1, <1>2, <1>3, <1>4, <1>5, <1>6 DEF crash, server_dies, TypeOK

LEMMA QuotingTyped ==
  ASSUME TypeOK,
         \/ CloseLedger
         \/ refresh_ledger \/ refresh_price \/ refresh_throws
         \/ \E l \in Loads : quote_policies(l) \/ quote_price(l) \/ take_quote(l)
         \/ \E asset \in Assets : select_asset(asset)
  PROVE  TypeOK'
<1>1. CASE CloseLedger
  BY <1>1 DEF CloseLedger, TypeOK
<1>2. CASE refresh_ledger
  <2>1. requests' \in Nat
    BY <1>2 DEF refresh_ledger, asks, TypeOK
  <2>2. refresh' \in Refresh
    BY <1>2, QuotingAssumption DEF refresh_ledger, Refresh
  <2> QED
    BY <1>2, <2>1, <2>2 DEF refresh_ledger, TypeOK
<1>3. CASE refresh_price
  <2>1. PICK p \in RefreshedPrices : queue' = [queue EXCEPT ![RefreshServer] = Append(@, set_price(p))]
    BY <1>3 DEF refresh_price
  <2>2. set_price(p) \in Calls
    BY RefreshedTyped, PriceCall
  <2>3. Append(queue[RefreshServer], set_price(p)) \in Seq(Calls)
    BY <2>2, AppendOf, QuotingAssumption DEF TypeOK
  <2>4. queue' \in [Servers -> Seq(Calls)]
    BY <2>1, <2>3 DEF TypeOK
  <2>5. refresh' \in Refresh
    BY <1>3 DEF refresh_price, NoRefresh, Refresh
  <2> QED
    BY <1>3, <2>4, <2>5 DEF refresh_price, TypeOK
<1>4. CASE refresh_throws
  BY <1>4 DEF refresh_throws, onboardingVars, NoRefresh, Refresh, TypeOK
<1>5. ASSUME NEW l \in Loads, quote_policies(l) \/ quote_price(l) \/ take_quote(l)
      PROVE  TypeOK'
  <2>1. CASE quote_policies(l)
    BY <2>1 DEF quote_policies, onboardingVars, TypeOK
  <2>2. CASE quote_price(l)
    <3>1. quotes' \subseteq Accounts
      BY <2>2, QuotingAssumption DEF quote_price, TypeOK
    <3> QED
      BY <2>2, <3>1 DEF quote_price, onboardingVars, TypeOK
  <2>3. CASE take_quote(l)
    BY <2>3 DEF take_quote, onboardingVars, TypeOK
  <2> QED
    BY <1>5, <2>1, <2>2, <2>3
<1>6. ASSUME NEW asset \in Assets, select_asset(asset)
      PROVE  TypeOK'
  <2>1. requests' \in Nat
    BY <1>6 DEF select_asset, asks, TypeOK
  <2>2. loads' \in [Loads -> {"idle", "policy", "price", "quoted", "error"}]
    BY <1>6 DEF select_asset, TypeOK
  <2>3. vault' \in [selectedAsset : Assets, quote : BOOLEAN] /\ overtaken' \in BOOLEAN
    BY <1>6 DEF select_asset, quote_reset, TypeOK
  <2> QED
    BY <1>6, <2>1, <2>2, <2>3 DEF select_asset, TypeOK
<1> QED
  BY <1>1, <1>2, <1>3, <1>4, <1>5, <1>6

LEMMA TypeStep == TypeOK /\ [Next]_vars => TypeOK'
<1> SUFFICES ASSUME TypeOK, [Next]_vars
             PROVE  TypeOK'
  OBVIOUS
<1>1. CASE UNCHANGED vars
  BY <1>1 DEF vars, onboardingVars, quotingVars, TypeOK
<1>2. CASE OnboardingStep /\ UNCHANGED quotingVars
  BY <1>2, PutTyped, CallbackTyped, OperatorTyped, LateTyped DEF OnboardingStep
<1> QED
  BY <1>1, <1>2, CrashTyped, QuotingTyped DEF Next

\* Every variable keeps its type: a status in the table is one of the four
\* toInternalStatus knows, a queued transaction one of the two calls.
THEOREM TypeCorrect == Spec => []TypeOK
<1> QED
  BY TypeInit, TypeStep, PTL DEF Spec

-------------------------------------------------------------------------------
(* Where a pending call and what is on chain come from.                    *)

\* A call becomes pending with a reported status or a refresh.
LEMMA NewlyPending ==
  ASSUME TypeOK, [Next]_vars, NEW c, Pending(c)'
  PROVE  \/ Pending(c)
         \/ \E s \in Servers, i \in Customers, a \in Accounts, word \in Reported :
              /\ put_customer(s, i, a, word)
              /\ c = set_participant(a, toInternalStatus(word) = "accepted")
         \/ refresh_price /\ \E p \in RefreshedPrices : c = set_price(p)
<1>1. CASE UNCHANGED <<late, queue>>
  BY <1>1 DEF Pending
<1>2. ASSUME NEW s \in Servers, NEW i \in Customers, NEW a \in Accounts, NEW word \in Reported,
             put_customer(s, i, a, word)
      PROVE  Pending(c) \/ c = set_participant(a, toInternalStatus(word) = "accepted")
  <2> DEFINE new == set_participant(a, toInternalStatus(word) = "accepted")
  <2>1. new \in Calls /\ queue[s] \in Seq(Calls)
    BY ParticipantCall DEF TypeOK
  <2>2. late' = late /\ (queue' = queue \/ queue' = [queue EXCEPT ![s] = Append(@, new)])
    BY <1>2 DEF put_customer
  <2> HIDE DEF new
  <2>3. ASSUME queue' = [queue EXCEPT ![s] = Append(@, new)]
        PROVE  Pending(c) \/ c = new
    <3>1. queue'[s] = Append(queue[s], new) /\ \A t \in Servers \ {s} : queue'[t] = queue[t]
      BY <2>3 DEF TypeOK
    <3> QED
      BY <2>1, <2>2, <3>1, AppendOf DEF Pending
  <2>4. ASSUME queue' = queue
        PROVE  Pending(c)
    BY <2>2, <2>4 DEF Pending
  <2> QED
    BY <2>2, <2>3, <2>4 DEF new
<1>3. CASE refresh_price
  <2>1. PICK p \in RefreshedPrices : queue' = [queue EXCEPT ![RefreshServer] = Append(@, set_price(p))]
    BY <1>3 DEF refresh_price
  <2>2. set_price(p) \in Calls /\ queue[RefreshServer] \in Seq(Calls)
    BY RefreshedTyped, PriceCall, QuotingAssumption DEF TypeOK
  <2>3. /\ queue'[RefreshServer] = Append(queue[RefreshServer], set_price(p))
        /\ \A t \in Servers \ {RefreshServer} : queue'[t] = queue[t]
    BY <2>1, QuotingAssumption DEF TypeOK
  <2>4. late' = late
    BY <1>3 DEF refresh_price
  <2>5. Pending(c) \/ c = set_price(p)
    BY <2>2, <2>3, <2>4, AppendOf DEF Pending
  <2> QED
    BY <1>3, <2>5
<1>4. ASSUME NEW s \in Servers, operator_tx(s) \/ operator_tx_fails(s)
      PROVE  Pending(c)
  <2>1. queue[s] \in Seq(Calls) /\ queue[s] # <<>> /\ queue' = [queue EXCEPT ![s] = Tail(@)]
    BY <1>4 DEF operator_tx, operator_tx_fails, TypeOK
  <2>2. queue'[s] = Tail(queue[s]) /\ \A t \in Servers \ {s} : queue'[t] = queue[t]
    BY <2>1 DEF TypeOK
  <2>3. late' \subseteq late \cup {queue[s][1]} /\ 1 \in DOMAIN queue[s]
    BY <1>4, <2>1, TailOf DEF operator_tx, operator_tx_fails, at_work
  <2> QED
    BY <2>1, <2>2, <2>3, TailOf DEF Pending
<1>5. ASSUME NEW s \in Servers, crash(s)
      PROVE  Pending(c)
  <2>1. queue[s] \in Seq(Calls)
    BY DEF TypeOK
  <2>2. queue'[s] = <<>> /\ \A t \in Servers \ {s} : queue'[t] = queue[t]
    BY <1>5 DEF crash, server_dies, TypeOK
  <2>3. late' \subseteq late \/ (queue[s] # <<>> /\ late' \subseteq late \cup {queue[s][1]} /\ 1 \in DOMAIN queue[s])
    BY <1>5, <2>1, TailOf DEF crash, server_dies, at_work
  <2> QED
    BY <2>1, <2>2, <2>3 DEF Pending
<1>6. ASSUME NEW d \in late, land_late(d) \/ expire(d)
      PROVE  Pending(c)
  BY <1>6 DEF land_late, expire, Pending
<1>7. \/ UNCHANGED <<late, queue>>
      \/ \E s \in Servers, i \in Customers, a \in Accounts, word \in Reported :
           put_customer(s, i, a, word)
      \/ refresh_price
      \/ \E s \in Servers : operator_tx(s) \/ operator_tx_fails(s) \/ crash(s)
      \/ \E d \in late : land_late(d) \/ expire(d)
  BY DEF Next, OnboardingStep, callback_select, callback_upsert, CloseLedger, refresh_ledger,
         refresh_throws, quote_policies, quote_price, take_quote, select_asset,
         vars, onboardingVars
<1> QED
  BY <1>1, <1>2, <1>3, <1>4, <1>5, <1>6, <1>7

\* Only a pending call changes the contracts.
LEMMA ChainSteps ==
  ASSUME TypeOK, [Next]_vars
  PROVE  \/ UNCHANGED <<approved, oracle>>
         \/ \E c \in Calls : Pending(c) /\ take_effect(c)
<1>1. ASSUME NEW s \in Servers, operator_tx(s)
      PROVE  \E c \in Calls : Pending(c) /\ take_effect(c)
  <2>1. queue[s] \in Seq(Calls) /\ queue[s] # <<>>
    BY <1>1 DEF operator_tx, TypeOK
  <2>2. at_work(s) = queue[s][1] /\ at_work(s) \in Calls /\ 1 \in DOMAIN queue[s]
    BY <2>1, TailOf DEF at_work
  <2> QED
    BY <1>1, <2>2 DEF operator_tx, Pending
<1>2. ASSUME NEW c \in late, land_late(c)
      PROVE  \E d \in Calls : Pending(d) /\ take_effect(d)
  BY <1>2 DEF land_late, Pending, TypeOK
<1>3. \/ UNCHANGED <<approved, oracle>>
      \/ \E s \in Servers : operator_tx(s)
      \/ \E c \in late : land_late(c)
  BY DEF Next, OnboardingStep, put_customer, callback_select, callback_upsert, operator_tx_fails,
         expire, crash, server_dies, CloseLedger, refresh_ledger, refresh_price, refresh_throws,
         quote_policies, quote_price, take_quote, select_asset, vars, onboardingVars
<1> QED
  BY <1>1, <1>2, <1>3

-------------------------------------------------------------------------------
(* Eligibility.                                                            *)

\* The inductive invariant: the approvals still on their way were earned as well,
\* and so was what a quote under way has read.
EarnedInv ==
  /\ approved \subseteq accepted /\ quotes \subseteq accepted
  /\ \A c : Pending(c) /\ c.approved => c.account \in accepted
  /\ \A l \in Loads : loads[l] = "price" => Alpha \in accepted

LEMMA EarnedStep ==
  ASSUME TypeOK, EarnedInv, [Next]_vars
  PROVE  EarnedInv'
<1>1. accepted \subseteq accepted'
  BY DEF Next, OnboardingStep, put_customer, callback_select, callback_upsert, operator_tx,
         operator_tx_fails, land_late, expire, crash, server_dies, CloseLedger, refresh_ledger,
         refresh_price, refresh_throws, quote_policies, quote_price, take_quote, select_asset,
         vars, onboardingVars
<1>2. approved' \subseteq accepted
  <2>1. ASSUME NEW c \in Calls, Pending(c), take_effect(c)
        PROVE  approved' \subseteq accepted
    BY <2>1 DEF take_effect, EarnedInv
  <2> QED
    BY <2>1, ChainSteps DEF EarnedInv
<1>3. ASSUME NEW c, Pending(c)', c.approved
      PROVE  c.account \in accepted'
  <2>1. CASE Pending(c)
    BY <1>1, <1>3, <2>1 DEF EarnedInv
  <2>2. ASSUME NEW s \in Servers, NEW i \in Customers, NEW a \in Accounts, NEW word \in Reported,
               put_customer(s, i, a, word),
               c = set_participant(a, toInternalStatus(word) = "accepted")
        PROVE  c.account \in accepted'
    <3>1. c.account = a /\ c.approved = (toInternalStatus(word) = "accepted")
      BY <2>2, ParticipantCall
    <3>2. word = "ACCEPTED"
      BY <1>3, <3>1, StatusOf
    <3> QED
      BY <2>2, <3>1, <3>2 DEF put_customer
  <2>3. ASSUME NEW p \in RefreshedPrices, c = set_price(p)
        PROVE  FALSE
    BY <1>3, <2>3, RefreshedTyped, PriceCall
  <2> QED
    BY <1>3, <2>1, <2>2, <2>3, NewlyPending
<1>4. quotes' \subseteq accepted /\ \A l \in Loads : loads'[l] = "price" => Alpha \in accepted
  <2>1. CASE UNCHANGED <<quotes, loads>>
    BY <2>1 DEF EarnedInv
  <2>2. ASSUME NEW l \in Loads, quote_policies(l)
        PROVE  quotes' \subseteq accepted /\ \A k \in Loads : loads'[k] = "price" => Alpha \in accepted
    BY <2>2 DEF quote_policies, eligible, EarnedInv, TypeOK
  <2>3. ASSUME NEW l \in Loads, quote_price(l)
        PROVE  quotes' \subseteq accepted /\ \A k \in Loads : loads'[k] = "price" => Alpha \in accepted
    BY <2>3 DEF quote_price, EarnedInv, TypeOK
  <2>4. ASSUME NEW l \in Loads, take_quote(l)
        PROVE  quotes' \subseteq accepted /\ \A k \in Loads : loads'[k] = "price" => Alpha \in accepted
    BY <2>4 DEF take_quote, EarnedInv, TypeOK
  <2>5. ASSUME NEW asset \in Assets, select_asset(asset)
        PROVE  quotes' \subseteq accepted /\ \A k \in Loads : loads'[k] = "price" => Alpha \in accepted
    BY <2>5 DEF select_asset, EarnedInv, TypeOK
  <2>6. ASSUME NEW s \in Servers, crash(s)
        PROVE  quotes' \subseteq accepted /\ \A k \in Loads : loads'[k] = "price" => Alpha \in accepted
    BY <2>6 DEF crash, EarnedInv, TypeOK
  <2>7. \/ UNCHANGED <<quotes, loads>>
        \/ \E l \in Loads : quote_policies(l) \/ quote_price(l) \/ take_quote(l)
        \/ \E asset \in Assets : select_asset(asset)
        \/ \E s \in Servers : crash(s)
    BY DEF Next, CloseLedger, refresh_ledger, refresh_price, refresh_throws, vars, quotingVars
  <2> QED
    BY <2>1, <2>2, <2>3, <2>4, <2>5, <2>6, <2>7
<1> QED
  BY <1>1, <1>2, <1>3, <1>4 DEF EarnedInv

\* set_participant is only ever sent for a status a client reported, and
\* createQuote looks the approval up on chain: whatever is late, lost or sent by
\* two processes at once, no account is approved or quoted that nobody accepted.
THEOREM EligibleWereAccepted == Spec => []EligibilityEarned
<1>1. Init => EarnedInv
  BY DEF Init, OnboardingInit, EarnedInv, Pending
<1>2. EarnedInv => EligibilityEarned
  BY DEF EarnedInv, EligibilityEarned
<1> QED
  BY <1>1, <1>2, EarnedStep, TypeCorrect, PTL DEF Spec

-------------------------------------------------------------------------------
(* The stamp of a price.                                                   *)

TellsAge(price) == price.measured => price.updated_ledger - price.observed <= MaxAge

\* The inductive invariant: so do the stamps on their way, and a refresh under
\* way has fetched no ledger that is still to come.
StampInv ==
  /\ oracle # None => TellsAge(oracle)
  /\ \A c : Pending(c) /\ c.call = "set_price" => TellsAge(c.price)
  /\ refresh.active /\ refresh.fetched => refresh.latestLedger <= ledger

LEMMA StampStep ==
  ASSUME TypeOK, StampInv, [Next]_vars
  PROVE  StampInv'
<1>1. oracle' # None => TellsAge(oracle')
  <2>1. ASSUME NEW c \in Calls, Pending(c), take_effect(c)
        PROVE  oracle' # None => TellsAge(oracle')
    BY <2>1 DEF take_effect, StampInv
  <2> QED
    BY <2>1, ChainSteps DEF StampInv
<1>2. ASSUME NEW c, Pending(c)', c.call = "set_price"
      PROVE  TellsAge(c.price)
  <2>1. CASE Pending(c)
    BY <1>2, <2>1 DEF StampInv
  <2>2. ASSUME NEW a \in Accounts, NEW ok \in BOOLEAN, c = set_participant(a, ok)
        PROVE  FALSE
    BY <1>2, <2>2, ParticipantCall
  <2>3. ASSUME refresh_price, NEW p \in RefreshedPrices, c = set_price(p)
        PROVE  TellsAge(c.price)
    <3>1. c.price = p
      BY <2>3, RefreshedTyped, PriceCall
    <3>2. ASSUME p.measured
          PROVE  /\ p.updated_ledger = refresh.latestLedger /\ p.observed = feed
                 /\ refresh.fetched /\ ~stale
      BY <3>2 DEF RefreshedPrices
    <3>3. ASSUME p.measured
          PROVE  p.updated_ledger - p.observed <= MaxAge
      <4>1. /\ refresh.latestLedger \in Nat /\ ledger \in Nat /\ feed \in Nat /\ MaxAge \in Nat
            /\ refresh.latestLedger <= ledger /\ ledger - feed <= MaxAge
        BY <2>3, <3>2, <3>3, QuotingAssumption
        DEF TypeOK, Refresh, StampInv, refresh_price, stale
      <4> QED
        BY <3>2, <3>3, <4>1
    <3> QED
      BY <3>1, <3>3 DEF TellsAge
  <2>4. \A s \in Servers, a \in Accounts, word \in Reported :
          c # set_participant(a, toInternalStatus(word) = "accepted")
    BY <2>2
  <2> QED
    BY <1>2, <2>1, <2>3, <2>4, NewlyPending
<1>3. refresh'.active /\ refresh'.fetched => refresh'.latestLedger <= ledger'
  <2>1. CASE refresh_ledger
    BY <2>1 DEF refresh_ledger, Latest, TypeOK
  <2>2. CASE refresh' = refresh /\ (ledger' = ledger \/ ledger' = ledger + 1)
    BY <2>2 DEF StampInv, TypeOK, Refresh
  <2>3. CASE refresh' = NoRefresh
    BY <2>3 DEF NoRefresh
  <2>4. refresh_ledger \/ refresh' = refresh \/ refresh' = NoRefresh
    BY DEF Next, crash, CloseLedger, refresh_price, refresh_throws, quote_policies, quote_price,
           take_quote, select_asset, vars, quotingVars
  <2>5. ledger' = ledger \/ ledger' = ledger + 1
    BY DEF Next, OnboardingStep, put_customer, callback_select, callback_upsert, operator_tx,
         operator_tx_fails, land_late, expire, crash, server_dies, CloseLedger, refresh_ledger,
         refresh_price, refresh_throws, quote_policies, quote_price, take_quote, select_asset,
         vars, onboardingVars
  <2> QED
    BY <2>1, <2>2, <2>3, <2>4, <2>5
<1> QED
  BY <1>1, <1>2, <1>3 DEF StampInv

\* refreshOracle fetches the ledger before the price and checks the price's age
\* against the clock: however long the transaction then takes, the stamp stored
\* makes the price look younger than it is by the staleness bound at most.
THEOREM StampsTellAge == Spec => []StampTellsAge
<1>1. Init => StampInv
  BY DEF Init, OnboardingInit, StampInv, Pending, NoRefresh
<1>2. StampInv => StampTellsAge
  BY DEF StampInv, StampTellsAge, TellsAge
<1> QED
  BY <1>1, <1>2, StampStep, TypeCorrect, PTL DEF Spec

-------------------------------------------------------------------------------
(* The vault page.                                                         *)

ShownInv ==
  ~overtaken /\ (vault.quote \/ \E l \in Loads : loads[l] # "idle") => vault.selectedAsset \in Wired

\* The page takes every answer for one about the asset selected: as long as the
\* asset was not changed under a load, that is so.
THEOREM QuotesUnderTheirAsset == Spec => []QuoteShownUnderItsAsset
<1>1. Init => ShownInv
  BY DEF Init, ShownInv, Wired
<1>2. TypeOK /\ ShownInv /\ [Next]_vars => ShownInv'
  <2> SUFFICES ASSUME TypeOK, ShownInv, [Next]_vars
               PROVE  ShownInv'
    OBVIOUS
  <2>1. CASE UNCHANGED <<vault, loads, overtaken>>
    BY <2>1 DEF ShownInv
  <2>2. ASSUME NEW l \in Loads, quote_policies(l) \/ quote_price(l) \/ take_quote(l)
        PROVE  ShownInv'
    <3>1. /\ loads[l] # "idle" /\ \A k \in Loads \ {l} : loads'[k] = loads[k]
          /\ overtaken' = overtaken
      BY <2>2 DEF quote_policies, quote_price, take_quote, TypeOK
    <3>2. vault' \in {vault, [vault EXCEPT !.quote = TRUE]}
      BY <2>2 DEF quote_policies, quote_price, take_quote
    <3>3. vault'.selectedAsset = vault.selectedAsset
      BY <3>2 DEF TypeOK
    <3> QED
      BY <3>1, <3>3 DEF ShownInv
  <2>3. ASSUME NEW asset \in Assets, select_asset(asset)
        PROVE  ShownInv'
    <3>1. vault'.selectedAsset = asset /\ vault'.quote = FALSE
      BY <2>3 DEF select_asset, quote_reset
    <3>2. ~overtaken' => \A l \in Loads : loads[l] = "idle"
      BY <2>3 DEF select_asset
    <3>3. asset \notin Wired => loads' = loads
      BY <2>3 DEF select_asset
    <3> QED
      BY <3>1, <3>2, <3>3 DEF ShownInv
  <2>4. ASSUME NEW s \in Servers, crash(s)
        PROVE  ShownInv'
    <3>1. \A l \in Loads : loads[l] = "idle" => loads'[l] = "idle"
      BY <2>4 DEF crash, TypeOK
    <3> QED
      BY <2>4, <3>1 DEF crash, ShownInv
  <2>5. \/ UNCHANGED <<vault, loads, overtaken>>
        \/ \E l \in Loads : quote_policies(l) \/ quote_price(l) \/ take_quote(l)
        \/ \E asset \in Assets : select_asset(asset)
        \/ \E s \in Servers : crash(s)
    BY DEF Next, CloseLedger, refresh_ledger, refresh_price, refresh_throws, vars, quotingVars
  <2> QED
    BY <2>1, <2>2, <2>3, <2>4, <2>5
<1>3. ShownInv => QuoteShownUnderItsAsset
  BY DEF ShownInv, QuoteShownUnderItsAsset
<1> QED
  BY <1>1, <1>2, <1>3, TypeCorrect, PTL DEF Spec

-------------------------------------------------------------------------------
(* The chain follows the verdicts.                                         *)

About(s, a) == {i \in DOMAIN queue[s] : queue[s][i].account = a}

\* The last verdict on the account, if there is one, is this.
Told(a, ok) == /\ verdict[a] = "accepted" => ok
               /\ verdict[a] = "rejected" => ~ok

LastAbout(s, a, i) == i \in About(s, a) /\ \A k \in About(s, a) : k <= i

\* The parts of the inductive invariant, for one account: nothing about it is
\* late, one process alone has calls about it, and the last call queued, or else
\* the chain, says what the last verdict was.
NothingLate(a) == \A c \in late : c.account # a

OneProcess(a) == \A s, t \in Servers : About(s, a) # {} /\ About(t, a) # {} => s = t

LastCallTold(a) ==
  \A s \in Servers : \A i \in DOMAIN queue[s] :
    LastAbout(s, a, i) => Told(a, queue[s][i].approved)

ChainTold(a) == ~AtWork(a) => Told(a, a \in approved)

Follows(a) ==
  /\ NothingLate(a)
  /\ OneProcess(a)
  /\ LastCallTold(a)
  /\ ChainTold(a)

AllFollow == \A a \in Accounts \ disturbed : Follows(a)

LEMMA AtWorkAbout ==
  ASSUME NEW a
  PROVE  AtWork(a) <=> \E s \in Servers : About(s, a) # {}
BY DEF AtWork, About

\* A step that leaves the account's calls, verdict and approval alone.
LEMMA UntouchedFollows ==
  ASSUME NEW a \in Accounts, Follows(a),
         \A c \in late' : c.account = a => c \in late,
         \A s \in Servers : queue'[s] = queue[s],
         verdict'[a] = verdict[a],
         a \in approved' <=> a \in approved
  PROVE  Follows(a)'
<1>1. \A s \in Servers : About(s, a)' = About(s, a)
  BY DEF About
<1>2. NothingLate(a)' /\ OneProcess(a)'
  BY <1>1 DEF Follows, NothingLate, OneProcess
<1>3. LastCallTold(a)'
  BY <1>1 DEF Follows, LastCallTold, LastAbout, Told
<1>4. ChainTold(a)'
  BY DEF Follows, ChainTold, AtWork, Told
<1> QED
  BY <1>2, <1>3, <1>4 DEF Follows

\* A call is appended to a queue: one about the account is then the last about it.
LEMMA AppendOther ==
  ASSUME TypeOK, NEW s \in Servers, NEW c \in Calls, NEW a \in Accounts, c.account # a,
         queue' = [queue EXCEPT ![s] = Append(@, c)]
  PROVE  \A t \in Servers : /\ About(t, a)' = About(t, a)
                            /\ \A i \in About(t, a) : queue'[t][i] = queue[t][i]
<1>1. queue[s] \in Seq(Calls)
  BY DEF TypeOK
<1>2. queue'[s] = Append(queue[s], c) /\ \A t \in Servers \ {s} : queue'[t] = queue[t]
  BY DEF TypeOK
<1> DEFINE n == Len(queue[s]) + 1
<1>3. /\ n \in Nat
      /\ DOMAIN queue'[s] = DOMAIN queue[s] \cup {n} /\ queue'[s][n] = c
      /\ \A i \in DOMAIN queue[s] : queue'[s][i] = queue[s][i]
  BY <1>1, <1>2, AppendOf
<1> HIDE DEF n
<1>4. About(s, a)' = About(s, a)
  BY <1>3 DEF About
<1> QED
  BY <1>2, <1>3, <1>4 DEF About

LEMMA AppendAbout ==
  ASSUME TypeOK, NEW s \in Servers, NEW c \in Calls, NEW a \in Accounts, c.account = a,
         queue' = [queue EXCEPT ![s] = Append(@, c)]
  PROVE  /\ \A t \in Servers \ {s} : About(t, a)' = About(t, a)
         /\ About(s, a)' # {}
         /\ \A i \in DOMAIN queue'[s] : LastAbout(s, a, i)' => queue'[s][i] = c
<1>1. queue[s] \in Seq(Calls)
  BY DEF TypeOK
<1>2. queue'[s] = Append(queue[s], c) /\ \A t \in Servers \ {s} : queue'[t] = queue[t]
  BY DEF TypeOK
<1> DEFINE n == Len(queue[s]) + 1
<1>3. /\ n \in Nat
      /\ DOMAIN queue'[s] = DOMAIN queue[s] \cup {n} /\ queue'[s][n] = c
      /\ \A i \in DOMAIN queue[s] : i \in Nat /\ i < n
  BY <1>1, <1>2, AppendOf
<1> HIDE DEF n
<1>4. n \in About(s, a)'
  BY <1>3 DEF About
<1>5. ASSUME NEW i \in DOMAIN queue'[s], LastAbout(s, a, i)'
      PROVE  queue'[s][i] = c
  BY <1>3, <1>4, <1>5 DEF LastAbout
<1> QED
  BY <1>2, <1>4, <1>5 DEF About

\* The first call leaves a queue.
LEMMA TailAbout ==
  ASSUME TypeOK, NEW s \in Servers, NEW a \in Accounts, queue[s] # <<>>,
         queue' = [queue EXCEPT ![s] = Tail(@)]
  PROVE  /\ \A t \in Servers \ {s} : queue'[t] = queue[t] /\ About(t, a)' = About(t, a)
         /\ \A i \in Nat \ {0} : i \in About(s, a)' <=> i + 1 \in About(s, a)
         /\ \A i \in About(s, a)' : queue'[s][i] = queue[s][i + 1]
         /\ at_work(s) = queue[s][1] /\ at_work(s) \in Calls
         /\ 1 \in About(s, a) <=> at_work(s).account = a
         /\ About(s, a) \subseteq Nat \ {0} /\ About(s, a)' \subseteq Nat \ {0}
<1> DEFINE q == queue[s]
<1>1. q \in Seq(Calls) /\ DOMAIN q \subseteq Nat \ {0}
  BY DEF TypeOK
<1>2. queue'[s] = Tail(q) /\ \A t \in Servers \ {s} : queue'[t] = queue[t]
  BY DEF TypeOK
<1>3. /\ at_work(s) = q[1] /\ at_work(s) \in Calls /\ 1 \in DOMAIN q
      /\ DOMAIN Tail(q) = {i \in Nat \ {0} : i + 1 \in DOMAIN q}
      /\ \A i \in DOMAIN Tail(q) : i + 1 \in DOMAIN q /\ Tail(q)[i] = q[i + 1]
  BY <1>1, TailOf DEF at_work
<1> HIDE DEF q
<1>4. \A i \in Nat \ {0} : i \in About(s, a)' <=> i + 1 \in About(s, a)
  BY <1>2, <1>3 DEF About, q
<1>5. \A i \in About(s, a)' : queue'[s][i] = queue[s][i + 1]
  BY <1>2, <1>3 DEF About, q
<1>6. About(s, a) \subseteq Nat \ {0} /\ About(s, a)' \subseteq Nat \ {0}
  BY <1>1, <1>2, <1>3 DEF About, q
<1>7. 1 \in About(s, a) <=> at_work(s).account = a
  BY <1>3 DEF About, q
<1> QED
  BY <1>2, <1>3, <1>4, <1>5, <1>6, <1>7 DEF About, q

\* A report about the account itself, which the process may not know to be heard
\* of elsewhere.
LEMMA ReportFollows ==
  ASSUME TypeOK, NEW s \in Servers, NEW i \in Customers, NEW a \in Accounts,
         NEW word \in Reported, put_customer(s, i, a, word),
         a \notin disturbed => Follows(a), a \notin disturbed'
  PROVE  Follows(a)'
<1> DEFINE status == toInternalStatus(word)
           call == set_participant(a, status = "accepted")
<1>1. /\ status \in CustomerStatus /\ UNCHANGED <<late, approved>>
      /\ verdict' = IF status \in Verdicts THEN [verdict EXCEPT ![a] = status] ELSE verdict
  BY StatusOf DEF put_customer
<1>2. synced(status) <=> status \in Verdicts
  BY DEF synced, Verdicts
<1>3. synced(status) => verdict'[a] = status
  BY <1>1, <1>2 DEF TypeOK
<1>4. CASE ~synced(status)
  <2>1. Follows(a) /\ queue' = queue /\ verdict' = verdict
    BY <1>1, <1>2, <1>4 DEF put_customer, DisturbedAfter
  <2> QED
    BY <1>1, <2>1, UntouchedFollows
<1>5. CASE synced(status)
  <2>1. queue' = [queue EXCEPT ![s] = Append(@, call)]
    BY <1>5 DEF put_customer
  <2>2. call \in Calls /\ call.account = a /\ call.approved = (status = "accepted")
    BY ParticipantCall
  <2>3. ~ElsewhereFor(a, s)
    BY <1>5 DEF put_customer, DisturbedAfter
  <2>4. /\ \A t \in Servers \ {s} : About(t, a)' = About(t, a)
        /\ About(s, a)' # {}
        /\ \A k \in DOMAIN queue'[s] : LastAbout(s, a, k)' => queue'[s][k] = call
    BY <2>1, <2>2, AppendAbout
  <2>5. \A t \in Servers \ {s} : About(t, a)' = {}
    BY <2>3, <2>4 DEF ElsewhereFor, About
  <2>6. NothingLate(a)'
    BY <1>1, <2>3 DEF ElsewhereFor, NothingLate
  <2>7. OneProcess(a)'
    BY <2>5 DEF OneProcess
  <2>8. LastCallTold(a)'
    <3> SUFFICES ASSUME NEW t \in Servers, NEW k \in DOMAIN queue'[t], LastAbout(t, a, k)'
                 PROVE  Told(a, queue[t][k].approved)'
      BY DEF LastCallTold
    <3>1. t = s
      BY <2>5 DEF LastAbout
    <3>2. queue'[t][k] = call
      BY <2>4, <3>1
    <3> QED
      BY <1>3, <1>5, <2>2, <3>2 DEF Told
  <2>9. ChainTold(a)'
    <3>1. AtWork(a)'
      BY <2>4 DEF AtWork, About
    <3> QED
      BY <3>1 DEF ChainTold
  <2> QED
    BY <2>6, <2>7, <2>8, <2>9 DEF Follows
<1> QED
  BY <1>4, <1>5

\* A call about something else is queued.
LEMMA OtherQueued ==
  ASSUME TypeOK, NEW s \in Servers, NEW c \in Calls, NEW a \in Accounts, Follows(a),
         c.account # a,
         queue' = [queue EXCEPT ![s] = Append(@, c)],
         UNCHANGED <<late, approved>>, verdict'[a] = verdict[a]
  PROVE  Follows(a)'
<1>1. \A t \in Servers : \A i \in About(t, a) : queue'[t][i] = queue[t][i]
  BY AppendOther
<1>2. \A t \in Servers : About(t, a)' = About(t, a)
  BY AppendOther
<1>3. NothingLate(a)' /\ OneProcess(a)'
  BY <1>2 DEF Follows, NothingLate, OneProcess
<1>4. LastCallTold(a)'
  <2> SUFFICES ASSUME NEW t \in Servers, NEW i \in DOMAIN queue'[t], LastAbout(t, a, i)'
               PROVE  Told(a, queue[t][i].approved)'
    BY DEF LastCallTold
  <2>1. LastAbout(t, a, i) /\ i \in DOMAIN queue[t] /\ queue'[t][i] = queue[t][i]
    BY <1>1, <1>2 DEF LastAbout, About
  <2> QED
    BY <2>1 DEF Follows, LastCallTold, Told
<1>5. ChainTold(a)'
  <2>1. AtWork(a)' <=> AtWork(a)
    <3>1. AtWork(a) <=> \E t \in Servers : About(t, a) # {}
      BY AtWorkAbout
    <3>2. AtWork(a)' <=> \E t \in Servers : About(t, a)' # {}
      BY DEF AtWork, About
    <3> QED
      BY <1>2, <3>1, <3>2
  <2> QED
    BY <2>1 DEF Follows, ChainTold, Told
<1> QED
  BY <1>3, <1>4, <1>5 DEF Follows

\* The first call takes effect, or fails and is about another account.
LEMMA TailFollows ==
  ASSUME TypeOK, NEW s \in Servers, NEW a \in Accounts, Follows(a), queue[s] # <<>>,
         queue' = [queue EXCEPT ![s] = Tail(@)],
         UNCHANGED verdict,
         \A c \in late' : c.account = a => c \in late,
         \/ take_effect(at_work(s))
         \/ at_work(s).account # a /\ approved' = approved
  PROVE  Follows(a)'
<1>1. /\ \A t \in Servers \ {s} : queue'[t] = queue[t] /\ About(t, a)' = About(t, a)
      /\ \A i \in Nat \ {0} : i \in About(s, a)' <=> i + 1 \in About(s, a)
      /\ \A i \in About(s, a)' : queue'[s][i] = queue[s][i + 1]
      /\ at_work(s) = queue[s][1] /\ at_work(s) \in Calls
      /\ 1 \in About(s, a) <=> at_work(s).account = a
      /\ About(s, a) \subseteq Nat \ {0} /\ About(s, a)' \subseteq Nat \ {0}
  BY TailAbout
<1>2. \A t \in Servers : About(t, a)' # {} => About(t, a) # {}
  BY <1>1
<1>3. NothingLate(a)' /\ OneProcess(a)'
  BY <1>2 DEF Follows, NothingLate, OneProcess
<1>4. LastCallTold(a)'
  <2> SUFFICES ASSUME NEW t \in Servers, NEW i \in DOMAIN queue'[t], LastAbout(t, a, i)'
               PROVE  Told(a, queue[t][i].approved)'
    BY DEF LastCallTold
  <2>1. CASE t # s
    <3>1. LastAbout(t, a, i) /\ i \in DOMAIN queue[t] /\ queue'[t][i] = queue[t][i]
      BY <1>1, <2>1 DEF LastAbout
    <3> QED
      BY <3>1 DEF Follows, LastCallTold, Told
  <2>2. CASE t = s
    <3>1. /\ i \in Nat \ {0} /\ i + 1 \in About(s, a)
          /\ queue'[s][i] = queue[s][i + 1]
      BY <1>1, <2>2 DEF LastAbout
    <3>2. ASSUME NEW k \in About(s, a)
          PROVE  k <= i + 1
      <4>1. k \in Nat \ {0}
        BY <1>1
      <4>2. CASE k = 1
        BY <3>1, <4>2
      <4>3. CASE k # 1
        <5>1. k - 1 \in Nat \ {0} /\ (k - 1) + 1 = k
          BY <4>1, <4>3
        <5>2. k - 1 \in About(s, a)'
          BY <1>1, <5>1
        <5>3. k - 1 <= i
          BY <2>2, <5>2 DEF LastAbout
        <5> QED
          BY <3>1, <4>1, <5>3
      <4> QED
        BY <4>2, <4>3
    <3>3. LastAbout(s, a, i + 1) /\ i + 1 \in DOMAIN queue[s]
      BY <3>1, <3>2 DEF LastAbout, About
    <3> QED
      BY <2>2, <3>1, <3>3 DEF Follows, LastCallTold, Told
  <2> QED
    BY <2>1, <2>2
<1>5. ChainTold(a)'
  <2> SUFFICES ASSUME ~AtWork(a)'
               PROVE  Told(a, a \in approved)'
    BY DEF ChainTold
  <2>1. \A t \in Servers : About(t, a)' = {}
    BY DEF AtWork, About
  <2>2. CASE at_work(s).account = a
    <3>1. at_work(s).call # "set_price"
      BY <1>1, <2>2, CallFields, OnboardingAssumption
    <3>2. a \in approved' <=> at_work(s).approved
      BY <2>2, <3>1 DEF take_effect
    <3>3. LastAbout(s, a, 1) /\ 1 \in DOMAIN queue[s]
      <4>1. ASSUME NEW k \in About(s, a)
            PROVE  k <= 1
        <5>1. k \in Nat \ {0}
          BY <1>1
        <5>2. CASE k # 1
          <6>1. k - 1 \in Nat \ {0} /\ (k - 1) + 1 = k
            BY <5>1, <5>2
          <6> QED
            BY <1>1, <2>1, <6>1
        <5> QED
          BY <5>2
      <4> QED
        BY <1>1, <2>2, <4>1 DEF LastAbout, About
    <3>4. Told(a, at_work(s).approved)
      BY <1>1, <3>3 DEF Follows, LastCallTold
    <3> QED
      BY <3>2, <3>4 DEF Told
  <2>3. CASE at_work(s).account # a
    <3>1. a \in approved' <=> a \in approved
      BY <2>3 DEF take_effect
    <3>2. \A t \in Servers : About(t, a) = {}
      <4>1. About(s, a) = {}
        <5> SUFFICES ASSUME NEW k \in About(s, a)
                     PROVE  FALSE
          OBVIOUS
        <5>1. k \in Nat \ {0} /\ k # 1
          BY <1>1, <2>3
        <5>2. k - 1 \in Nat \ {0} /\ (k - 1) + 1 = k
          BY <5>1
        <5> QED
          BY <1>1, <2>1, <5>2
      <4> QED
        BY <1>1, <2>1, <4>1
    <3>3. ~AtWork(a)
      BY <3>2, AtWorkAbout
    <3> QED
      BY <3>1, <3>3 DEF Follows, ChainTold, Told
  <2> QED
    BY <2>2, <2>3
<1> QED
  BY <1>3, <1>4, <1>5 DEF Follows

\* A process dies: what it had queued is disturbed.
LEMMA CrashFollows ==
  ASSUME TypeOK, NEW s \in Servers, NEW a \in Accounts, crash(s), Follows(a), a \notin disturbed'
  PROVE  Follows(a)'
<1>1. /\ UNCHANGED <<approved, verdict>>
      /\ \A t \in Servers : queue'[t] = IF t = s THEN <<>> ELSE queue[t]
  BY DEF crash, server_dies, TypeOK
<1>2. About(s, a) = {}
  BY DEF crash, server_dies, About
<1>3. \A c \in late' : c.account = a => c \in late
  <2>1. queue[s] # <<>> => at_work(s) = queue[s][1] /\ 1 \in DOMAIN queue[s]
    BY TailOf DEF at_work, TypeOK
  <2>2. queue[s] # <<>> => at_work(s).account # a
    BY <1>2, <2>1 DEF About
  <2> QED
    BY <2>2 DEF crash, server_dies
<1>4. \A t \in Servers : About(t, a)' = About(t, a)
  BY <1>1, <1>2 DEF About
<1>5. NothingLate(a)' /\ OneProcess(a)'
  BY <1>3, <1>4 DEF Follows, NothingLate, OneProcess
<1>6. LastCallTold(a)'
  <2> SUFFICES ASSUME NEW t \in Servers, NEW i \in DOMAIN queue'[t], LastAbout(t, a, i)'
               PROVE  Told(a, queue[t][i].approved)'
    BY DEF LastCallTold
  <2>1. t # s
    BY <1>1
  <2>2. LastAbout(t, a, i) /\ queue'[t] = queue[t]
    BY <1>1, <1>4, <2>1 DEF LastAbout
  <2> QED
    BY <1>1, <2>2 DEF Follows, LastCallTold, Told
<1>7. ChainTold(a)'
  <2>1. AtWork(a)' <=> AtWork(a)
    <3>1. AtWork(a) <=> \E t \in Servers : About(t, a) # {}
      BY AtWorkAbout
    <3>2. AtWork(a)' <=> \E t \in Servers : About(t, a)' # {}
      BY DEF AtWork, About
    <3> QED
      BY <1>4, <3>1, <3>2
  <2> QED
    BY <1>1, <2>1 DEF Follows, ChainTold, Told
<1> QED
  BY <1>5, <1>6, <1>7 DEF Follows

LEMMA FollowStep ==
  ASSUME TypeOK, AllFollow, [Next]_vars
  PROVE  AllFollow'
<1> SUFFICES ASSUME NEW a \in Accounts, a \notin disturbed'
             PROVE  Follows(a)'
  BY DEF AllFollow
<1>1. a \notin disturbed => Follows(a)
  BY DEF AllFollow
<1>2. ASSUME NEW s \in Servers, NEW i \in Customers, NEW b \in Accounts, NEW word \in Reported,
             put_customer(s, i, b, word)
      PROVE  Follows(a)'
  <2>1. CASE b = a
    BY <1>1, <1>2, <2>1, ReportFollows
  <2>2. CASE b # a
    <3> DEFINE call == set_participant(b, toInternalStatus(word) = "accepted")
    <3>1. a \notin disturbed
      BY <1>2, <2>2 DEF put_customer, DisturbedAfter
    <3>2. /\ UNCHANGED <<late, approved>> /\ verdict'[a] = verdict[a]
          /\ queue' = queue \/ queue' = [queue EXCEPT ![s] = Append(@, call)]
      BY <1>2, <2>2 DEF put_customer, TypeOK
    <3>3. call \in Calls /\ call.account # a
      BY <2>2, ParticipantCall
    <3> HIDE DEF call
    <3>4. queue' = queue => Follows(a)'
      BY <1>1, <3>1, <3>2, UntouchedFollows
    <3> QED
      BY <1>1, <3>1, <3>2, <3>3, <3>4, OtherQueued
  <2> QED
    BY <2>1, <2>2
<1>3. ASSUME NEW s \in Servers, operator_tx(s)
      PROVE  Follows(a)'
  BY <1>1, <1>3, TailFollows DEF operator_tx
<1>4. ASSUME NEW s \in Servers, operator_tx_fails(s)
      PROVE  Follows(a)'
  <2>1. at_work(s).account # a /\ a \notin disturbed
    BY <1>4 DEF operator_tx_fails
  <2>2. \A c \in late' : c.account = a => c \in late
    BY <1>4, <2>1 DEF operator_tx_fails
  <2> QED
    BY <1>1, <1>4, <2>1, <2>2, TailFollows DEF operator_tx_fails
<1>5. ASSUME NEW c \in late, land_late(c) \/ expire(c)
      PROVE  Follows(a)'
  <2>1. a \notin disturbed /\ c.account # a
    BY <1>1, <1>5 DEF land_late, expire, Follows, NothingLate
  <2>2. /\ UNCHANGED <<queue, verdict>> /\ late' \subseteq late
        /\ a \in approved' <=> a \in approved
    BY <1>5, <2>1 DEF land_late, expire, take_effect
  <2> QED
    BY <1>1, <2>1, <2>2, UntouchedFollows
<1>6. ASSUME NEW s \in Servers, crash(s)
      PROVE  Follows(a)'
  BY <1>1, <1>6, CrashFollows DEF crash, server_dies
<1>7. CASE refresh_price
  <2>1. PICK p \in RefreshedPrices : queue' = [queue EXCEPT ![RefreshServer] = Append(@, set_price(p))]
    BY <1>7 DEF refresh_price
  <2>2. set_price(p) \in Calls /\ set_price(p).account # a
    BY RefreshedTyped, PriceCall, OnboardingAssumption
  <2>3. a \notin disturbed /\ UNCHANGED <<late, approved, verdict>>
    BY <1>7 DEF refresh_price
  <2> QED
    BY <1>1, <2>1, <2>2, <2>3, QuotingAssumption, OtherQueued
<1>8. CASE UNCHANGED <<late, queue, verdict, approved, disturbed>>
  BY <1>1, <1>8, UntouchedFollows
<1>9. ASSUME NEW s \in Servers,
             (\E i \in Customers, b \in Accounts : callback_select(s, i, b)) \/ callback_upsert(s)
      PROVE  Follows(a)'
  BY <1>8, <1>9 DEF callback_select, callback_upsert
<1>10. \/ \E s \in Servers, i \in Customers, b \in Accounts, word \in Reported :
            put_customer(s, i, b, word)
       \/ \E s \in Servers : (\E i \in Customers, b \in Accounts : callback_select(s, i, b))
                             \/ callback_upsert(s)
       \/ \E s \in Servers : operator_tx(s) \/ operator_tx_fails(s) \/ crash(s)
       \/ \E c \in late : land_late(c) \/ expire(c)
       \/ refresh_price
       \/ UNCHANGED <<late, queue, verdict, approved, disturbed>>
  BY DEF Next, OnboardingStep, CloseLedger, refresh_ledger, refresh_throws, quote_policies,
         quote_price, take_quote, select_asset, vars, onboardingVars
<1> QED
  BY <1>2, <1>3, <1>4, <1>5, <1>6, <1>7, <1>8, <1>9, <1>10

-------------------------------------------------------------------------------
(* The table follows the verdicts.                                         *)

\* The parts of the inductive invariant, for one account: a registration about to
\* write one of its rows tells no other verdict than the last, nor does its
\* newest row; and for all rows, that they were written in the past.
RegistrationTold(a) ==
  \A s \in Servers : registering[s] # None /\ registering[s].account = a =>
    (synced(registering[s].status) => registering[s].status = verdict[a])

RowTold(a) ==
  \A i \in newest(a) : synced(customer[i].status) => customer[i].status = verdict[a]

TableTold ==
  /\ \A i \in Customers : customer[i] # None => customer[i].updated_at <= 2 * requests + 1
  /\ \A a \in Accounts \ mixed : RegistrationTold(a) /\ RowTold(a)

\* A row written for an account is its newest: no other one is newer.
LEMMA WrittenHere ==
  ASSUME TypeOK, NEW i \in Customers, NEW a \in Accounts, NEW status \in CustomerStatus,
         NEW now \in Nat, upsert(i, a, status, now),
         \A j \in Customers : customer[j] # None => customer[j].updated_at <= now
  PROVE  /\ customer'[i].status = status /\ customer'[i].updated_at = now
         /\ \A j \in newest(a)' \ {i} : /\ j \in newest(a) /\ customer'[j] = customer[j]
                                      /\ customer[j].updated_at = now
<1>1. /\ customer'[i] = [account |-> a, status |-> status, updated_at |-> now]
      /\ customer'[i] # None
      /\ \A j \in Customers \ {i} : customer'[j] = customer[j]
  BY StatusAssumption DEF upsert, Row, TypeOK
<1>2. \A j \in Customers : customer[j] # None => customer[j].updated_at \in Nat
  BY DEF Row, TypeOK
<1>3. ASSUME NEW j \in newest(a)', j # i
      PROVE  j \in newest(a) /\ customer'[j] = customer[j] /\ customer[j].updated_at = now
  <2>1. i \in rowsOf(a)' /\ j \in Customers
    BY <1>1, <1>3 DEF rowsOf, newest
  <2>2. customer'[j] = customer[j] /\ j \in rowsOf(a) /\ now <= customer[j].updated_at
    BY <1>1, <1>3, <2>1 DEF rowsOf, newest
  <2>3. \A k \in rowsOf(a) : customer[k].updated_at <= now
    BY DEF rowsOf
  <2>4. customer[j].updated_at = now
    BY <1>2, <2>2, <2>3 DEF rowsOf
  <2> QED
    BY <2>2, <2>3, <2>4 DEF newest
<1> QED
  BY <1>1, <1>3

\* A row written for another account does not make an older one the newest, as
\* long as it was not the newest itself.
LEMMA WrittenElsewhere ==
  ASSUME TypeOK, NEW i \in Customers, NEW b \in Accounts, NEW status, NEW now,
         upsert(i, b, status, now), NEW a \in Accounts, a # b, a \notin LeftBy(i, b)
  PROVE  \A j \in newest(a)' : j \in newest(a) /\ customer'[j] = customer[j]
<1>1. /\ customer'[i] = [account |-> b, status |-> status, updated_at |-> now]
      /\ \A j \in Customers \ {i} : customer'[j] = customer[j]
  BY DEF upsert, TypeOK
<1>2. i \notin newest(a)
  BY DEF LeftBy
<1>3. i \notin rowsOf(a)'
  BY <1>1 DEF rowsOf
<1>4. \A k \in rowsOf(a) : customer[k].updated_at \in Nat
  BY DEF rowsOf, Row, TypeOK
<1> SUFFICES ASSUME NEW j \in newest(a)'
             PROVE  j \in newest(a) /\ customer'[j] = customer[j]
  OBVIOUS
<1>5. j \in Customers /\ j # i /\ j \in rowsOf(a) /\ customer'[j] = customer[j]
  BY <1>1, <1>3 DEF newest, rowsOf
<1>6. \A k \in rowsOf(a) \ {i} : customer[k].updated_at <= customer[j].updated_at
  BY <1>1, <1>5 DEF newest, rowsOf
<1>7. ASSUME i \in rowsOf(a)
      PROVE  customer[i].updated_at <= customer[j].updated_at
  <2>1. PICK k \in rowsOf(a) : ~(customer[k].updated_at <= customer[i].updated_at)
    BY <1>2, <1>7 DEF newest
  <2>2. k # i
    BY <1>4, <2>1
  <2> QED
    BY <1>4, <1>5, <1>6, <1>7, <2>1, <2>2
<1> QED
  BY <1>5, <1>6, <1>7 DEF newest

\* Time goes on, rows and registrations are left alone or given up.
LEMMA TableUntouched ==
  ASSUME TypeOK, TableTold, UNCHANGED <<customer, verdict, mixed>>,
         requests' \in {requests, requests + 1},
         \A s \in Servers : registering'[s] \in {registering[s], None}
  PROVE  TableTold'
<1>1. \A i \in Customers : customer'[i] # None => customer'[i].updated_at <= 2 * requests' + 1
  BY DEF TableTold, TypeOK, Row
<1>2. ASSUME NEW a \in Accounts \ mixed'
      PROVE  RegistrationTold(a)' /\ RowTold(a)'
  <2>1. RegistrationTold(a) /\ RowTold(a) /\ newest(a)' = newest(a)
    BY <1>2 DEF TableTold, newest, rowsOf
  <2> QED
    BY <2>1 DEF RegistrationTold, RowTold, synced
<1> QED
  BY <1>1, <1>2 DEF TableTold

\* Another account's row is written.
LEMMA RowElsewhere ==
  ASSUME TypeOK, NEW i \in Customers, NEW b \in Accounts, NEW status, NEW now,
         upsert(i, b, status, now), NEW a \in Accounts, a # b, a \notin LeftBy(i, b),
         RowTold(a), verdict'[a] = verdict[a]
  PROVE  RowTold(a)'
BY WrittenElsewhere DEF RowTold, synced

LEMMA PutTold ==
  ASSUME TypeOK, TableTold, NEW s \in Servers, NEW i \in Customers, NEW b \in Accounts,
         NEW word \in Reported, put_customer(s, i, b, word)
  PROVE  TableTold'
<1> DEFINE status == toInternalStatus(word)
<1>1. /\ status \in CustomerStatus /\ upsert(i, b, status, 2 * requests')
      /\ requests \in Nat /\ requests' = requests + 1 /\ 2 * requests' \in Nat
      /\ UNCHANGED registering /\ registering[s] = None
      /\ verdict' = IF status \in Verdicts THEN [verdict EXCEPT ![b] = status] ELSE verdict
      /\ mixed' = MixedAfter(i, b, s)
  BY StatusOf DEF put_customer, asks, TypeOK
<1> HIDE DEF status
<1>2. \A j \in Customers : customer[j] # None => /\ customer[j].updated_at \in Nat
                                               /\ customer[j].updated_at < 2 * requests'
  BY <1>1 DEF TableTold, TypeOK, Row
<1>3. /\ customer'[i].status = status /\ customer'[i].updated_at = 2 * requests'
      /\ \A j \in newest(b)' \ {i} : j \in newest(b) /\ customer[j].updated_at = 2 * requests'
  BY <1>1, <1>2, WrittenHere
<1>4. newest(b)' \subseteq {i}
  BY <1>2, <1>3 DEF newest, rowsOf
<1>5. \A j \in Customers : customer'[j] # None => customer'[j].updated_at <= 2 * requests' + 1
  <2>1. \A j \in Customers \ {i} : customer'[j] = customer[j]
    BY <1>1 DEF upsert, TypeOK
  <2> QED
    BY <1>1, <1>2, <1>3, <2>1
<1>6. ASSUME b \notin mixed'
      PROVE  RegistrationTold(b)' /\ RowTold(b)'
  <2>1. ~CrossedBy(b, s)
    BY <1>1, <1>6 DEF MixedAfter
  <2>2. RegistrationTold(b)'
    BY <1>1, <2>1 DEF CrossedBy, RegistrationTold
  <2>3. synced(status) => verdict'[b] = status
    BY <1>1 DEF synced, Verdicts, TypeOK
  <2> QED
    BY <1>3, <1>4, <2>2, <2>3 DEF RowTold, synced
<1>7. ASSUME NEW a \in Accounts \ mixed', a # b
      PROVE  RegistrationTold(a)' /\ RowTold(a)'
  <2>1. a \notin mixed /\ a \notin LeftBy(i, b)
    BY <1>1, <1>7 DEF MixedAfter
  <2>2. verdict'[a] = verdict[a]
    BY <1>1, <1>7 DEF TypeOK
  <2>3. RegistrationTold(a) /\ RowTold(a)
    BY <2>1 DEF TableTold
  <2>4. RegistrationTold(a)'
    BY <1>1, <2>2, <2>3 DEF RegistrationTold, synced
  <2> QED
    BY <1>1, <1>7, <2>1, <2>2, <2>3, <2>4, RowElsewhere
<1> QED
  BY <1>5, <1>6, <1>7 DEF TableTold

LEMMA SelectTold ==
  ASSUME TypeOK, TableTold, NEW s \in Servers, NEW i \in Customers, NEW b \in Accounts,
         callback_select(s, i, b)
  PROVE  TableTold'
<1> DEFINE r == [customer |-> i, account |-> b, status |-> kept_status(i)]
<1>1. /\ UNCHANGED <<customer, verdict>> /\ requests' = requests + 1 /\ requests \in Nat
      /\ registering'[s] = r /\ \A t \in Servers \ {s} : registering'[t] = registering[t]
  BY DEF callback_select, asks, TypeOK
<1>2. \A j \in Customers : customer'[j] # None => customer'[j].updated_at <= 2 * requests' + 1
  BY <1>1 DEF TableTold, TypeOK, Row
<1>3. ASSUME NEW a \in Accounts \ mixed'
      PROVE  RegistrationTold(a)' /\ RowTold(a)'
  <2>1. a \notin mixed
    BY <1>3 DEF callback_select
  <2>2. RegistrationTold(a) /\ RowTold(a) /\ newest(a)' = newest(a)
    BY <1>1, <2>1 DEF TableTold, newest, rowsOf
  <2>3. RowTold(a)'
    BY <1>1, <2>2 DEF RowTold, synced
  <2>4. a = b /\ synced(kept_status(i)) => kept_status(i) = verdict[a]
    <3> SUFFICES ASSUME a = b, synced(kept_status(i))
                 PROVE  kept_status(i) = verdict[a]
      OBVIOUS
    <3>1. i \in newest(a)
      BY <1>3 DEF callback_select
    <3>2. kept_status(i) = customer[i].status
      BY <3>1 DEF newest, rowsOf, kept_status
    <3> QED
      BY <2>2, <3>1, <3>2 DEF RowTold
  <2>5. RegistrationTold(a)'
    <3> SUFFICES ASSUME NEW t \in Servers, registering'[t] # None, registering'[t].account = a,
                        synced(registering'[t].status)
                 PROVE  registering'[t].status = verdict'[a]
      BY DEF RegistrationTold, synced
    <3>1. CASE t = s
      BY <1>1, <2>4, <3>1
    <3>2. CASE t # s
      BY <1>1, <2>2, <3>2 DEF RegistrationTold
    <3> QED
      BY <3>1, <3>2
  <2> QED
    BY <2>3, <2>5
<1> QED
  BY <1>2, <1>3 DEF TableTold

LEMMA UpsertTold ==
  ASSUME TypeOK, TableTold, NEW s \in Servers, callback_upsert(s)
  PROVE  TableTold'
<1>1. PICK i \in Customers, b \in Accounts, status \in CustomerStatus :
        registering[s] = [customer |-> i, account |-> b, status |-> status]
  BY DEF callback_upsert, Registration, TypeOK
<1>2. /\ registering[s] # None /\ upsert(i, b, status, 2 * requests + 1)
      /\ registering' = [registering EXCEPT ![s] = None]
      /\ mixed' = mixed \cup LeftBy(i, b) /\ UNCHANGED <<verdict, requests>>
      /\ requests \in Nat /\ 2 * requests + 1 \in Nat
  BY <1>1 DEF callback_upsert, TypeOK
<1>3. \A j \in Customers : customer[j] # None => customer[j].updated_at <= 2 * requests + 1
  BY DEF TableTold
<1>4. /\ customer'[i].status = status /\ customer'[i].updated_at = 2 * requests + 1
      /\ \A j \in newest(b)' \ {i} : j \in newest(b) /\ customer'[j] = customer[j]
  BY <1>2, <1>3, WrittenHere
<1>5. \A j \in Customers : customer'[j] # None => customer'[j].updated_at <= 2 * requests' + 1
  <2>1. \A j \in Customers \ {i} : customer'[j] = customer[j]
    BY <1>2 DEF upsert, TypeOK
  <2> QED
    BY <1>2, <1>3, <1>4, <2>1
<1>6. ASSUME NEW a \in Accounts \ mixed'
      PROVE  RegistrationTold(a)' /\ RowTold(a)'
  <2>1. a \notin mixed /\ a \notin LeftBy(i, b)
    BY <1>2, <1>6
  <2>2. RegistrationTold(a) /\ RowTold(a)
    BY <2>1 DEF TableTold
  <2>3. RegistrationTold(a)'
    <3>1. \A t \in Servers : registering'[t] \in {registering[t], None}
      BY <1>2 DEF TypeOK
    <3> QED
      BY <1>2, <2>2, <3>1 DEF RegistrationTold, synced
  <2>4. CASE a # b
    BY <1>2, <2>1, <2>2, <2>3, <2>4, RowElsewhere
  <2>5. CASE a = b
    <3>1. synced(status) => status = verdict[b]
      BY <1>1, <1>2, <2>2, <2>5 DEF RegistrationTold
    <3>2. \A j \in newest(b) : synced(customer[j].status) => customer[j].status = verdict[b]
      BY <2>2, <2>5 DEF RowTold
    <3> QED
      BY <1>2, <1>4, <2>3, <2>5, <3>1, <3>2 DEF RowTold, synced
  <2> QED
    BY <2>4, <2>5
<1> QED
  BY <1>5, <1>6 DEF TableTold

LEMMA ToldStep ==
  ASSUME TypeOK, TableTold, [Next]_vars
  PROVE  TableTold'
<1>1. ASSUME NEW s \in Servers, operator_tx(s) \/ operator_tx_fails(s) \/ crash(s)
      PROVE  TableTold'
  <2>1. /\ UNCHANGED <<customer, verdict, mixed, requests>>
        /\ \A t \in Servers : registering'[t] \in {registering[t], None}
    BY <1>1 DEF operator_tx, operator_tx_fails, crash, server_dies, TypeOK
  <2> QED
    BY <2>1, TableUntouched
<1>2. CASE UNCHANGED <<customer, registering, verdict, mixed>> /\ requests' \in {requests, requests + 1}
  BY <1>2, TableUntouched
<1>3. ASSUME NEW c \in late, land_late(c) \/ expire(c)
      PROVE  TableTold'
  BY <1>2, <1>3 DEF land_late, expire
<1>4. ASSUME \/ CloseLedger
             \/ refresh_ledger \/ refresh_price \/ refresh_throws
             \/ \E l \in Loads : quote_policies(l) \/ quote_price(l) \/ take_quote(l)
             \/ \E asset \in Assets : select_asset(asset)
      PROVE  TableTold'
  <2>1. CASE CloseLedger \/ refresh_price \/ refresh_throws
    BY <1>2, <2>1 DEF CloseLedger, refresh_price, refresh_throws, onboardingVars
  <2>2. CASE refresh_ledger
    BY <1>2, <2>2 DEF refresh_ledger, asks
  <2>3. ASSUME NEW l \in Loads, quote_policies(l) \/ quote_price(l) \/ take_quote(l)
        PROVE  UNCHANGED onboardingVars
    BY <2>3 DEF quote_policies, quote_price, take_quote
  <2>4. ASSUME NEW asset \in Assets, select_asset(asset)
        PROVE  TableTold'
    BY <1>2, <2>4 DEF select_asset, asks
  <2> QED
    BY <1>2, <1>4, <2>1, <2>2, <2>3, <2>4 DEF onboardingVars
<1>5. CASE UNCHANGED vars
  BY <1>2, <1>5 DEF vars, onboardingVars
<1> QED
  BY <1>1, <1>3, <1>4, <1>5, PutTold, SelectTold, UpsertTold DEF Next, OnboardingStep

\* recordCustomerStatus and putSep12Customer write the row and queue the
\* transaction in one breath, and a process sends its own in order: unless one
\* failed or two processes were at work on the account, the chain follows the last
\* verdict.  The row they write is the account's newest: unless a callback's
\* registration then writes a row again that was older, or takes the newest one to
\* another account, what a lookup by account finds tells no other verdict.
THEOREM ChainFollows == Spec => []ChainFollowsVerdict
<1>1. Init => AllFollow /\ TableTold
  <2> SUFFICES ASSUME Init
               PROVE  AllFollow /\ TableTold
    OBVIOUS
  <2>1. /\ \A s \in Servers : queue[s] = <<>> /\ registering[s] = None
        /\ late = {} /\ \A i \in Customers : customer[i] = None
        /\ \A a \in Accounts : verdict[a] = None
    BY DEF Init, OnboardingInit
  <2>2. ASSUME NEW a \in Accounts
        PROVE  Follows(a)
    <3>1. \A s \in Servers : About(s, a) = {}
      BY <2>1 DEF About
    <3>2. verdict[a] # "accepted" /\ verdict[a] # "rejected"
      BY <2>1, StatusAssumption DEF CustomerStatus
    <3> QED
      BY <2>1, <3>1, <3>2 DEF Follows, NothingLate, OneProcess, LastCallTold, ChainTold, Told
  <2>3. TableTold
    BY <2>1 DEF TableTold, RegistrationTold, RowTold, newest, rowsOf
  <2> QED
    BY <2>2, <2>3 DEF AllFollow
<1>2. TypeOK /\ AllFollow /\ TableTold => ChainFollowsVerdict
  <2> SUFFICES ASSUME TypeOK, AllFollow, TableTold, NEW a \in Accounts
               PROVE  ReachedChain(a) /\ ToldByTable(a)
    BY DEF ChainFollowsVerdict
  <2>1. verdict[a] \in {"accepted", "rejected", None}
    BY DEF TypeOK, Verdicts
  <2>2. ReachedChain(a)
    BY <2>1 DEF AllFollow, Follows, ChainTold, Told, ReachedChain
  <2>3. ToldByTable(a)
    BY DEF TableTold, RowTold, ToldByTable
  <2> QED
    BY <2>2, <2>3
<1> QED
  BY <1>1, <1>2, FollowStep, ToldStep, TypeCorrect, PTL DEF Spec
====================================================================================
