-------------------------- MODULE PrefundingServiceProofs --------------------------
(***************************************************************************)
(* The operator's transactions for any number of requests, positions,      *)
(* SEP-31 transactions and business-server callbacks: product status and   *)
(* evidence are backed by the chain, no two transactions the network holds *)
(* have one sequence number, and positions keep their phases.              *)
(*                                                                         *)
(* A status is also carried in a callback's memory, to be written back     *)
(* later, so the invariant speaks of both places (CarriedBacked).  It rests*)
(* on success being final: a transaction the network still holds has not   *)
(* been decided (Undecided), and a request is only confirmed by success.   *)
(*                                                                         *)
(* That there is one row of evidence per position and direction rests on   *)
(* the chain: a draw leaves "opened" and a repayment leaves everything     *)
(* but "repaid" for good (EffectsShow), so a second one of the same        *)
(* position never takes effect (LandedOnce).                               *)
(*                                                                         *)
(* Sequence numbers differ because only the head of the operator queue has *)
(* one it has not yet handed to the network (HeadOnly), and that one is as *)
(* large as any number passed on before (NumbersPassed).                   *)
(***************************************************************************)
EXTENDS PrefundingService, TLAPS

Typed ==
  /\ txStatus \in [Requests -> {"NOT_FOUND", "SUCCESS", "FAILED"}]
  /\ request \in [Requests -> Request]
  /\ product_status \in [AnchorTxs -> ProductStatus \cup {None}]
  /\ callback \in [Callbacks -> Callback \cup {None}]

Undecided ==
  \A r \in Requests :
    /\ r \in pending =>
         txStatus[r] = "NOT_FOUND" /\ request[r].at \notin {"new", "queued", "built"}
    /\ request[r].at \in {"new", "queued", "built"} => txStatus[r] = "NOT_FOUND"

ConfirmedLanded == \A r \in Requests : request[r].at = "confirmed" => Landed(r)

CarriedBacked ==
  \A c \in Callbacks :
    callback[c] # None => Backed(callback[c].anchorTx, callback[c].read)

IBacked == Typed /\ Undecided /\ ConfirmedLanded /\ CarriedBacked /\ StatusBackedByChain

\* What every step keeps: a request is what it is, and success is final.
Kept ==
  \A r \in Requests :
    /\ request'[r].anchorTx = request[r].anchorTx
    /\ request'[r].op = request[r].op
    /\ Landed(r) => Landed(r)'

\* Then whatever was backed still is.
LEMMA BackedStays ==
  ASSUME Kept, NEW a, NEW s, Backed(a, s)
  PROVE  Backed(a, s)'
  BY DEF Kept, Backed, StatusAfter

\* Neither a row that is missing nor a status before the credit needs backing.
LEMMA BackedTrivially ==
  ASSUME NEW a, NEW s, s \notin {"proof_verified", "credit_drawn", "repaid"}
  PROVE  Backed(a, s)'
  BY DEF Backed

\* Nothing is known, so nothing is claimed.
LEMMA BackedInit == Init => IBacked
<1>. SUFFICES ASSUME Init PROVE IBacked
  OBVIOUS
<1>1. Typed
  <2>1. request \in [Requests -> Request]
    BY DEF Init, Request
  <2>. QED  BY <2>1 DEF Init, Typed
<1>2. pending = {} /\ \A r \in Requests : request[r].at = "new" /\ txStatus[r] = "NOT_FOUND"
  BY DEF Init
<1>3. Undecided /\ ConfirmedLanded
  BY <1>2 DEF Undecided, ConfirmedLanded
<1>4. CarriedBacked
  BY DEF Init, CarriedBacked
<1>5. StatusBackedByChain
  BY ServiceAssumption DEF Init, StatusBackedByChain, Backed, ProductStatus
<1>. QED  BY <1>1, <1>3, <1>4, <1>5 DEF IBacked

-------------------------------------------------------------------------------
(* The chain.                                                              *)

\* A transaction still pending was undecided, so nothing backed is lost.
LEMMA IncludeKeeps ==
  ASSUME IBacked, NEW r \in Requests, include_tx(r)
  PROVE  IBacked'
<1>1. /\ r \in pending /\ pending' = pending \ {r}
      /\ UNCHANGED <<request, product_status, callback>>
  BY DEF include_tx, tables
<1>2. txStatus' = [txStatus EXCEPT ![r] = "SUCCESS"] \/ txStatus' = [txStatus EXCEPT ![r] = "FAILED"]
  BY DEF include_tx
<1>3. txStatus \in [Requests -> {"NOT_FOUND", "SUCCESS", "FAILED"}] /\ txStatus[r] = "NOT_FOUND"
  BY <1>1 DEF IBacked, Typed, Undecided
<1>4. \A q \in Requests \ {r} : txStatus'[q] = txStatus[q]
  BY <1>2, <1>3
<1>5. Kept
  BY <1>1, <1>3, <1>4 DEF Kept, Landed
<1>6. Typed'
  BY <1>1, <1>2, <1>3 DEF IBacked, Typed
<1>7. Undecided' /\ ConfirmedLanded'
  <2>1. request[r].at \notin {"new", "queued", "built", "confirmed"}
    BY <1>1, <1>3 DEF IBacked, Undecided, ConfirmedLanded, Landed
  <2>. QED  BY <1>1, <1>3, <1>4, <2>1 DEF IBacked, Undecided, ConfirmedLanded, Landed
<1>8. CarriedBacked' /\ StatusBackedByChain'
  BY <1>1, <1>5, BackedStays DEF IBacked, CarriedBacked, StatusBackedByChain
<1>. QED  BY <1>6, <1>7, <1>8 DEF IBacked

\* A step that touches neither transactions' fates nor requests nor statuses.
LEMMA SmallerPendingKeeps ==
  ASSUME IBacked, pending' \subseteq pending,
         UNCHANGED <<txStatus, request, product_status, callback>>
  PROVE  IBacked'
<1>1. Kept
  BY DEF Kept, Landed
<1>2. Typed' /\ Undecided' /\ ConfirmedLanded'
  BY DEF IBacked, Typed, Undecided, ConfirmedLanded, Landed
<1>3. CarriedBacked' /\ StatusBackedByChain'
  BY <1>1, BackedStays DEF IBacked, CarriedBacked, StatusBackedByChain
<1>. QED  BY <1>2, <1>3 DEF IBacked

-------------------------------------------------------------------------------
(* Requests.                                                               *)

\* A request r moves on to a stage it is entitled to, or all running ones end.
LEMMA MoveKeeps ==
  ASSUME IBacked,
         request' \in [Requests -> Request], pending' \subseteq Requests,
         UNCHANGED <<txStatus, product_status, callback>>,
         \A r \in Requests :
           /\ request'[r].anchorTx = request[r].anchorTx /\ request'[r].op = request[r].op
           /\ r \in pending' => \/ r \in pending /\ request'[r].at \in {request[r].at, "confirmed", "error"}
                                \/ request[r].at = "built" /\ request'[r].at = "polling"
           /\ request'[r].at \in {"new", "queued", "built"} =>
                request[r].at \in {"new", "queued", "built"}
           /\ request'[r].at = "confirmed" => request[r].at = "confirmed" \/ Landed(r)
  PROVE  IBacked'
<1>1. Kept
  BY DEF Kept, Landed
<1>2. Typed'
  BY DEF IBacked, Typed
<1>3. Undecided'
  BY DEF IBacked, Undecided
<1>4. ConfirmedLanded'
  BY DEF IBacked, ConfirmedLanded, Landed
<1>5. CarriedBacked' /\ StatusBackedByChain'
  BY <1>1, BackedStays DEF IBacked, CarriedBacked, StatusBackedByChain
<1>. QED  BY <1>2, <1>3, <1>4, <1>5 DEF IBacked

\* Changing the stage of one request keeps the table's type and the others.
LEMMA OneMoves ==
  ASSUME Typed, NEW r \in Requests,
         NEW at \in {"new", "queued", "built", "polling", "confirmed", "ok", "error"},
         Move(r, at)
  PROVE  /\ request' \in [Requests -> Request]
         /\ request'[r].at = at
         /\ \A q \in Requests :
              /\ request'[q].anchorTx = request[q].anchorTx /\ request'[q].op = request[q].op
              /\ q # r => request'[q].at = request[q].at
<1>1. request \in [Requests -> Request] /\ request[r] \in Request
  BY DEF Typed
<1>2. request' = [request EXCEPT ![r] = [request[r] EXCEPT !.at = at]]
  BY DEF Move
<1>3. [request[r] EXCEPT !.at = at] \in Request
  BY <1>1 DEF Request
<1>4. request' \in [Requests -> Request]
  BY <1>1, <1>2, <1>3
<1>5. request'[r] = [request[r] EXCEPT !.at = at]
  BY <1>1, <1>2
<1>6. \A q \in Requests \ {r} : request'[q] = request[q]
  BY <1>1, <1>2
<1>7. /\ request'[r].at = at /\ request'[r].anchorTx = request[r].anchorTx
      /\ request'[r].op = request[r].op
  BY <1>1, <1>5 DEF Request
<1>. QED  BY <1>4, <1>6, <1>7

\* The steps up to the answer of the network.
LEMMA EnqueueKeeps ==
  ASSUME IBacked, pending \subseteq Requests, NEW r \in Requests, enqueue(r)
  PROVE  IBacked'
<1>1. Typed
  BY DEF IBacked
<1>2. /\ request[r].at = "new" /\ Move(r, "queued")
      /\ UNCHANGED <<txStatus, pending, product_status, callback>>
  BY DEF enqueue, chain, tables
<1>3. r \notin pending
  BY <1>2 DEF IBacked, Undecided
<1>. QED  BY <1>1, <1>2, <1>3, OneMoves, MoveKeeps

LEMMA SendKeeps ==
  ASSUME IBacked, pending \subseteq Requests, NEW r \in Requests, send_tx(r)
  PROVE  IBacked'
<1>1. Typed
  BY DEF IBacked
<1>2. /\ request[r].at = "built" /\ Move(r, "polling") /\ pending' = pending \cup {r}
      /\ UNCHANGED <<txStatus, product_status, callback>>
  BY DEF send_tx, tables
<1>. QED  BY <1>1, <1>2, OneMoves, MoveKeeps

LEMMA ThrowKeeps ==
  ASSUME IBacked, pending \subseteq Requests, NEW r \in Requests, throw_before_send(r)
  PROVE  IBacked'
<1>1. Typed
  BY DEF IBacked
<1>2. /\ Move(r, "error") /\ UNCHANGED <<txStatus, pending, product_status, callback>>
  BY DEF throw_before_send, chain, tables
<1>. QED  BY <1>1, <1>2, OneMoves, MoveKeeps

\* Only SUCCESS confirms.
LEMMA PollKeeps ==
  ASSUME IBacked, pending \subseteq Requests, NEW r \in Requests, poll_tx(r)
  PROVE  IBacked'
<1>1. Typed
  BY DEF IBacked
<1>2. UNCHANGED <<txStatus, pending, product_status, callback>>
  BY DEF poll_tx, chain, tables
<1>3. CASE txStatus[r] = "SUCCESS"
  <2>1. Move(r, "confirmed") /\ Landed(r)
    BY <1>3 DEF poll_tx, Landed
  <2>. QED  BY <1>1, <1>2, <2>1, OneMoves, MoveKeeps
<1>4. CASE txStatus[r] # "SUCCESS"
  <2>1. Move(r, "error")
    BY <1>4 DEF poll_tx
  <2>. QED  BY <1>1, <1>2, <2>1, OneMoves, MoveKeeps
<1>. QED  BY <1>3, <1>4

\* Building the transaction also notes its sequence number.
LEMMA BuildKeeps ==
  ASSUME IBacked, pending \subseteq Requests, operatorSeq \in Nat,
         NEW r \in Requests, build_tx(r)
  PROVE  IBacked'
<1>1. /\ request[r].at = "queued"
      /\ request' = [request EXCEPT ![r].at = "built", ![r].seq = operatorSeq + 1]
      /\ UNCHANGED <<txStatus, pending, product_status, callback>>
  BY DEF build_tx, chain, tables
<1>2. request \in [Requests -> Request] /\ request[r] \in Request
  BY DEF IBacked, Typed
<1>3. request' = [request EXCEPT ![r] =
        [request[r] EXCEPT !.at = "built", !.seq = operatorSeq + 1]]
  BY <1>1, <1>2
<1>4. [request[r] EXCEPT !.at = "built", !.seq = operatorSeq + 1] \in Request
  <2>. PICK q : q = request[r]
    OBVIOUS
  <2>. PICK next : next = operatorSeq + 1
    OBVIOUS
  <2>1. q \in Request /\ next \in Nat
    BY <1>2
  <2>2. [q EXCEPT !.at = "built", !.seq = next] \in Request
    BY <2>1 DEF Request
  <2>. QED  BY <2>2
<1>5. request' \in [Requests -> Request]
  BY <1>2, <1>3, <1>4
<1>6. \A q \in Requests \ {r} : request'[q] = request[q]
  BY <1>2, <1>3
<1>7. /\ request'[r].at = "built" /\ request'[r].anchorTx = request[r].anchorTx
      /\ request'[r].op = request[r].op
  BY <1>2, <1>3 DEF Request
<1>8. r \notin pending
  BY <1>1 DEF IBacked, Undecided
<1>. QED  BY <1>1, <1>5, <1>6, <1>7, <1>8, MoveKeeps

-------------------------------------------------------------------------------
(* Writers of the status.                                                  *)

\* A step that changes the status of one SEP-31 transaction at most, to one that
\* is backed, and what callbacks carry to what was in the table.
LEMMA WriteKeeps ==
  ASSUME IBacked, Kept, Typed', Undecided', ConfirmedLanded',
         \A a \in AnchorTxs :
           product_status'[a] # product_status[a] => Backed(a, product_status[a])',
         \A c \in Callbacks :
           \/ callback'[c] = callback[c]
           \/ callback'[c] = None
           \/ /\ callback'[c].anchorTx \in AnchorTxs
              /\ callback'[c].read = product_status[callback'[c].anchorTx]
  PROVE  IBacked'
<1>1. StatusBackedByChain'
  <2>. SUFFICES ASSUME NEW a \in AnchorTxs PROVE Backed(a, product_status[a])'
    BY DEF StatusBackedByChain
  <2>1. CASE product_status'[a] = product_status[a]
    <3>. PICK s : s = product_status[a]
      OBVIOUS
    <3>1. Backed(a, s)
      BY DEF IBacked, StatusBackedByChain
    <3>2. Backed(a, s)'
      BY <3>1, BackedStays
    <3>. QED  BY <2>1, <3>2 DEF Backed
  <2>2. CASE product_status'[a] # product_status[a]
    BY <2>2 DEF Backed
  <2>. QED  BY <2>1, <2>2
<1>2. CarriedBacked'
  <2>. SUFFICES ASSUME NEW c \in Callbacks, callback'[c] # None
                PROVE  Backed(callback[c].anchorTx, callback[c].read)'
    BY DEF CarriedBacked
  <2>. PICK a, s : a = callback'[c].anchorTx /\ s = callback'[c].read
    OBVIOUS
  <2>1. CASE callback'[c] = callback[c]
    <3>1. Backed(a, s)
      BY <2>1 DEF IBacked, CarriedBacked
    <3>2. Backed(a, s)'
      BY <3>1, BackedStays
    <3>. QED  BY <3>2 DEF Backed
  <2>2. CASE callback'[c].anchorTx \in AnchorTxs /\ s = product_status[a]
    <3>1. Backed(a, s)
      BY <2>2 DEF IBacked, StatusBackedByChain
    <3>2. Backed(a, s)'
      BY <3>1, BackedStays
    <3>. QED  BY <3>2 DEF Backed
  <2>. QED  BY <2>1, <2>2
<1>. QED  BY <1>1, <1>2 DEF IBacked

\* When requests and transactions stand still, what is known of them stays.
LEMMA FateUnchanged ==
  ASSUME IBacked, UNCHANGED <<txStatus, pending, request>>
  PROVE  Kept /\ Undecided' /\ ConfirmedLanded'
  BY DEF IBacked, Kept, Undecided, ConfirmedLanded, Landed

\* The UPDATE changes one row at most, to the status given.
LEMMA UpdateTyped ==
  ASSUME Typed, NEW b, NEW s \in ProductStatus, updateProductStatus(b, s)
  PROVE  /\ product_status' \in [AnchorTxs -> ProductStatus \cup {None}]
         /\ \A a \in AnchorTxs :
              product_status'[a] # product_status[a] => a = b /\ product_status'[a] = s
  BY DEF Typed, updateProductStatus

\* The request's own transaction took effect: that is what backs the status.
LEMMA FinishKeeps ==
  ASSUME IBacked, pending \subseteq Requests, NEW r \in Requests, finish(r)
  PROVE  IBacked'
<1>. DEFINE b == request[r].anchorTx
            s == StatusAfter(request[r].op)
<1>1. Typed
  BY DEF IBacked
<1>2. /\ request[r].at = "confirmed" /\ UNCHANGED <<txStatus, pending, callback>>
      /\ updateProductStatus(b, s)
      /\ Move(r, "error") \/ Move(r, "ok")
  BY DEF finish, chain
<1>3. /\ request' \in [Requests -> Request]
      /\ request'[r].at \in {"error", "ok"}
      /\ \A q \in Requests :
           /\ request'[q].anchorTx = request[q].anchorTx /\ request'[q].op = request[q].op
           /\ q # r => request'[q].at = request[q].at
  BY <1>1, <1>2, OneMoves
<1>4. s \in ProductStatus
  <2>1. request[r] \in Request
    BY <1>1 DEF Typed
  <2>. QED  BY <2>1 DEF Request, Ops, StatusAfter, ProductStatus
<1>5. /\ product_status' \in [AnchorTxs -> ProductStatus \cup {None}]
      /\ \A a \in AnchorTxs :
           product_status'[a] # product_status[a] => a = b /\ product_status'[a] = s
  BY <1>1, <1>2, <1>4, UpdateTyped
<1>6. Landed(r)
  BY <1>2 DEF IBacked, ConfirmedLanded
<1>7. Kept
  BY <1>2, <1>3 DEF Kept, Landed
<1>8. Typed'
  BY <1>1, <1>2, <1>3, <1>5 DEF Typed
<1>9. Undecided' /\ ConfirmedLanded'
  BY <1>2, <1>3 DEF IBacked, Undecided, ConfirmedLanded, Landed
<1>10. ASSUME NEW a \in AnchorTxs, product_status'[a] # product_status[a]
       PROVE  Backed(a, product_status[a])'
  <2>1. a = request[r].anchorTx /\ product_status'[a] = StatusAfter(request[r].op)
    BY <1>5, <1>10
  <2>2. Landed(r)' /\ request'[r].anchorTx = a /\ StatusAfter(request'[r].op) = product_status'[a]
    BY <1>2, <1>3, <1>6, <2>1 DEF Landed, StatusAfter
  <2>. QED  BY <2>2 DEF Backed, StatusAfter
<1>. HIDE DEF b, s
<1>. QED  BY <1>2, <1>7, <1>8, <1>9, <1>10, WriteKeeps

LEMMA QuoteKeeps ==
  ASSUME IBacked, NEW b \in AnchorTxs, createQuote(b)
  PROVE  IBacked'
<1>1. /\ updateProductStatus(b, "credit_quote_ready")
      /\ UNCHANGED <<txStatus, pending, request, callback>>
  BY DEF createQuote, chain
<1>2. Typed /\ "credit_quote_ready" \in ProductStatus
  BY DEF IBacked, ProductStatus
<1>3. /\ product_status' \in [AnchorTxs -> ProductStatus \cup {None}]
      /\ \A a \in AnchorTxs :
           product_status'[a] # product_status[a] => product_status'[a] = "credit_quote_ready"
  BY <1>1, <1>2, UpdateTyped
<1>4. Kept /\ Undecided' /\ ConfirmedLanded'
  BY <1>1, FateUnchanged
<1>5. Typed'
  BY <1>1, <1>2, <1>3 DEF Typed
<1>6. \A a \in AnchorTxs :
        product_status'[a] # product_status[a] => Backed(a, product_status[a])'
  BY <1>3 DEF Backed
<1>. QED  BY <1>1, <1>4, <1>5, <1>6, WriteKeeps

LEMMA CreateKeeps ==
  ASSUME IBacked, NEW b \in AnchorTxs, createSep31Transaction(b)
  PROVE  IBacked'
<1>1. /\ product_status' = [product_status EXCEPT ![b] = Upserted(product_status[b])]
      /\ UNCHANGED <<txStatus, pending, request, callback>>
  BY DEF createSep31Transaction, chain
<1>2. Typed
  BY DEF IBacked
<1>3. Upserted(product_status[b]) \in ProductStatus
  BY <1>2 DEF Typed, Upserted, ProductStatus
<1>4. /\ product_status' \in [AnchorTxs -> ProductStatus \cup {None}]
      /\ \A a \in AnchorTxs :
           product_status'[a] # product_status[a] => product_status'[a] = "prefunding_required"
  BY <1>1, <1>2, <1>3 DEF Typed, Upserted
<1>5. Kept /\ Undecided' /\ ConfirmedLanded'
  BY <1>1, FateUnchanged
<1>6. Typed'
  BY <1>1, <1>2, <1>4 DEF Typed
<1>7. \A a \in AnchorTxs :
        product_status'[a] # product_status[a] => Backed(a, product_status[a])'
  BY <1>4 DEF Backed
<1>. QED  BY <1>1, <1>5, <1>6, <1>7, WriteKeeps

\* What is read is backed then, and so whenever it is written back.
LEMMA SelectKeeps ==
  ASSUME IBacked, NEW c \in Callbacks, callback_select(c)
  PROVE  IBacked'
<1>1. UNCHANGED <<txStatus, pending, request, product_status>>
  BY DEF callback_select, chain, tables
<1>2. PICK b \in AnchorTxs :
        callback' = [callback EXCEPT ![c] = [anchorTx |-> b, read |-> product_status[b]]]
  BY DEF callback_select
<1>3. Typed
  BY DEF IBacked
<1>4. [anchorTx |-> b, read |-> product_status[b]] \in Callback
  BY <1>3 DEF Typed, Callback
<1>5. callback' \in [Callbacks -> Callback \cup {None}]
  BY <1>2, <1>3, <1>4 DEF Typed
<1>6. \A d \in Callbacks :
        \/ callback'[d] = callback[d]
        \/ /\ callback'[d].anchorTx \in AnchorTxs
           /\ callback'[d].read = product_status[callback'[d].anchorTx]
  BY <1>2, <1>3 DEF Typed
<1>7. Kept /\ Undecided' /\ ConfirmedLanded'
  BY <1>1, FateUnchanged
<1>8. Typed'
  BY <1>1, <1>3, <1>5 DEF Typed
<1>. QED  BY <1>1, <1>6, <1>7, <1>8, WriteKeeps

LEMMA UpsertKeeps ==
  ASSUME IBacked, NEW c \in Callbacks, callback_upsert(c)
  PROVE  IBacked'
<1>1. /\ callback[c] # None
      /\ product_status' =
           [product_status EXCEPT ![callback[c].anchorTx] = Upserted(callback[c].read)]
      /\ callback' = [callback EXCEPT ![c] = None]
      /\ UNCHANGED <<txStatus, pending, request>>
  BY DEF callback_upsert, chain
<1>2. PICK b, s : b = callback[c].anchorTx /\ s = callback[c].read
  OBVIOUS
<1>3. Typed /\ Backed(b, s)
  BY <1>1, <1>2 DEF IBacked, CarriedBacked
<1>4. callback[c] \in Callback
  BY <1>1, <1>3 DEF Typed
<1>5. b \in AnchorTxs /\ Upserted(s) \in ProductStatus
  BY <1>2, <1>4 DEF Callback, Upserted, ProductStatus
<1>6. /\ product_status' \in [AnchorTxs -> ProductStatus \cup {None}]
      /\ \A a \in AnchorTxs :
           product_status'[a] # product_status[a] => a = b /\ product_status'[a] = Upserted(s)
  BY <1>1, <1>2, <1>3, <1>5 DEF Typed
<1>7. \A d \in Callbacks : callback'[d] = callback[d] \/ callback'[d] = None
  BY <1>1, <1>3 DEF Typed
<1>8. Kept /\ Undecided' /\ ConfirmedLanded'
  BY <1>1, FateUnchanged
<1>9. Typed'
  <2>1. callback' \in [Callbacks -> Callback \cup {None}]
    BY <1>1, <1>3 DEF Typed
  <2>. QED  BY <1>1, <1>3, <1>6, <2>1 DEF Typed
<1>10. ASSUME NEW a \in AnchorTxs, product_status'[a] # product_status[a]
       PROVE  Backed(a, product_status[a])'
  <2>1. a = b /\ product_status'[a] = Upserted(s)
    BY <1>6, <1>10
  <2>2. Backed(b, s)'
    BY <1>3, <1>8, BackedStays
  <2>3. CASE s = None
    BY <2>1, <2>3 DEF Upserted, Backed
  <2>4. CASE s # None
    <3>1. product_status'[a] = s
      BY <2>1, <2>4 DEF Upserted
    <3>. QED  BY <2>1, <2>2, <3>1 DEF Backed
  <2>. QED  BY <2>3, <2>4
<1>. QED  BY <1>7, <1>8, <1>9, <1>10, WriteKeeps

-------------------------------------------------------------------------------
(* The whole.                                                              *)

\* A crash ends the running requests and decides nothing.
LEMMA CrashKeeps ==
  ASSUME IBacked, pending \subseteq Requests, crash
  PROVE  IBacked'
<1>1. /\ request' = [r \in Requests |->
           IF request[r].at \in {"new", "ok", "error"} THEN request[r]
                                                       ELSE [request[r] EXCEPT !.at = "error"]]
      /\ UNCHANGED <<txStatus, pending, product_status, callback>>
  BY DEF crash, chain, tables
<1>2. \A r \in Requests : request[r] \in Request
  BY DEF IBacked, Typed
<1>3. ASSUME NEW r \in Requests
      PROVE  /\ request'[r] \in Request
             /\ request'[r].anchorTx = request[r].anchorTx /\ request'[r].op = request[r].op
             /\ request'[r].at \in {request[r].at, "error"}
  <2>1. PICK q : q = request[r]
    OBVIOUS
  <2>2. q \in Request
    BY <1>2, <2>1
  <2>3. LET e == [q EXCEPT !.at = "error"]
        IN  e \in Request /\ e.anchorTx = q.anchorTx /\ e.op = q.op /\ e.at = "error"
    BY <2>2 DEF Request
  <2>4. request'[r] = q \/ request'[r] = [q EXCEPT !.at = "error"]
    BY <1>1, <2>1
  <2>. QED  BY <2>1, <2>2, <2>3, <2>4
<1>4. request' \in [Requests -> Request]
  BY <1>1, <1>3
<1>. QED  BY <1>1, <1>3, <1>4, MoveKeeps

\* Sequence numbers and pending transactions have their types.
PendingTyped == pending \subseteq Requests /\ operatorSeq \in Nat

LEMMA PendingStep ==
  ASSUME PendingTyped, [Next]_vars
  PROVE  PendingTyped'
<1>1. ASSUME NEW r \in Requests, include_tx(r) \/ expire_tx(r) PROVE PendingTyped'
  <2>1. pending' = pending \ {r} /\ operatorSeq' \in {operatorSeq, operatorSeq + 1}
    BY <1>1 DEF include_tx, expire_tx
  <2>. QED  BY <2>1 DEF PendingTyped
<1>2. ASSUME NEW r \in Requests, send_tx(r) PROVE PendingTyped'
  BY <1>2 DEF PendingTyped, send_tx
<1>3. ASSUME NEW r \in Requests,
             enqueue(r) \/ build_tx(r) \/ throw_before_send(r) \/ poll_tx(r) \/ finish(r)
      PROVE  PendingTyped'
  <2>1. UNCHANGED <<pending, operatorSeq>>
    BY <1>3 DEF enqueue, build_tx, throw_before_send, poll_tx, finish, chain
  <2>. QED  BY <2>1 DEF PendingTyped
<1>4. ASSUME NEW p \in PositionIds, seize(p) PROVE PendingTyped'
  BY <1>4 DEF PendingTyped, seize
<1>5. CASE crash
  BY <1>5 DEF PendingTyped, crash, chain
<1>6. ASSUME NEW a \in AnchorTxs, createQuote(a) \/ createSep31Transaction(a)
      PROVE  PendingTyped'
  BY <1>6 DEF PendingTyped, createQuote, createSep31Transaction, chain
<1>7. ASSUME NEW c \in Callbacks, callback_select(c) \/ callback_upsert(c)
      PROVE  PendingTyped'
  BY <1>7 DEF PendingTyped, callback_select, callback_upsert, chain
<1>8. CASE UNCHANGED vars
  BY <1>8 DEF PendingTyped, vars
<1>. QED  BY <1>1, <1>2, <1>3, <1>4, <1>5, <1>6, <1>7, <1>8 DEF Next, RequestStep

LEMMA BackedStep ==
  ASSUME IBacked, PendingTyped, [Next]_vars
  PROVE  IBacked'
<1>1. pending \subseteq Requests /\ operatorSeq \in Nat
  BY DEF PendingTyped
<1>2. ASSUME NEW r \in Requests, enqueue(r) PROVE IBacked'
  BY <1>1, <1>2, EnqueueKeeps
<1>3. ASSUME NEW r \in Requests, build_tx(r) PROVE IBacked'
  BY <1>1, <1>3, BuildKeeps
<1>4. ASSUME NEW r \in Requests, send_tx(r) PROVE IBacked'
  BY <1>1, <1>4, SendKeeps
<1>5. ASSUME NEW r \in Requests, throw_before_send(r) PROVE IBacked'
  BY <1>1, <1>5, ThrowKeeps
<1>6. ASSUME NEW r \in Requests, poll_tx(r) PROVE IBacked'
  BY <1>1, <1>6, PollKeeps
<1>7. ASSUME NEW r \in Requests, finish(r) PROVE IBacked'
  BY <1>1, <1>7, FinishKeeps
<1>8. ASSUME NEW r \in Requests, include_tx(r) PROVE IBacked'
  BY <1>8, IncludeKeeps
<1>9. ASSUME NEW r \in Requests, expire_tx(r) PROVE IBacked'
  <2>1. pending' \subseteq pending /\ UNCHANGED <<txStatus, request, product_status, callback>>
    BY <1>9 DEF expire_tx, tables
  <2>. QED  BY <2>1, SmallerPendingKeeps
<1>10. ASSUME NEW p \in PositionIds, seize(p) PROVE IBacked'
  <2>1. pending' \subseteq pending /\ UNCHANGED <<txStatus, request, product_status, callback>>
    BY <1>10 DEF seize, tables
  <2>. QED  BY <2>1, SmallerPendingKeeps
<1>11. CASE crash
  BY <1>1, <1>11, CrashKeeps
<1>12. ASSUME NEW a \in AnchorTxs, createQuote(a) \/ createSep31Transaction(a) PROVE IBacked'
  BY <1>12, QuoteKeeps, CreateKeeps
<1>13. ASSUME NEW c \in Callbacks, callback_select(c) \/ callback_upsert(c) PROVE IBacked'
  BY <1>13, SelectKeeps, UpsertKeeps
<1>14. CASE UNCHANGED vars
  <2>1. pending' \subseteq pending /\ UNCHANGED <<txStatus, request, product_status, callback>>
    BY <1>14 DEF vars
  <2>. QED  BY <2>1, SmallerPendingKeeps
<1>. QED
  BY <1>2, <1>3, <1>4, <1>5, <1>6, <1>7, <1>8, <1>9, <1>10, <1>11, <1>12, <1>13, <1>14
  DEF Next, RequestStep

\* Whatever times out, lands late, crashes or is written by the other process, a
\* credit status the backend shows (proof_verified, credit_drawn, repaid) rests on
\* a transaction of that SEP-31 transaction which took effect.
THEOREM StatusIsBacked == Spec => []StatusBackedByChain
<1>1. Init => PendingTyped
  BY DEF Init, PendingTyped
<1>2. IBacked => StatusBackedByChain
  BY DEF IBacked
<1>. QED  BY <1>1, <1>2, BackedInit, BackedStep, PendingStep, PTL DEF Spec

-------------------------------------------------------------------------------
(* Evidence.                                                               *)

PhaseTyped == phase \in [PositionIds -> {"none", "opened", "drawn", "repaid", "seized"}]

\* What took effect shows on chain, and stays.
EffectsShow ==
  \A r \in Requests :
    Landed(r) =>
      /\ request[r].op = "draw" => phase[request[r].position] \in {"drawn", "repaid", "seized"}
      /\ request[r].op = "repay" => phase[request[r].position] = "repaid"

LandedOnce ==
  \A q, r \in Requests :
    /\ Landed(q) /\ Landed(r)
    /\ request[q].position = request[r].position
    /\ request[q].op = request[r].op /\ request[r].op \in {"draw", "repay"}
    => q = r

\* A row of evidence says of its transaction what the request was.
RowsAreTrue ==
  \A e \in evidence :
    /\ e \in Evidence /\ Landed(e.tx)
    /\ e.position = request[e.tx].position /\ e.direction = request[e.tx].op

IEvidence == PhaseTyped /\ EffectsShow /\ LandedOnce /\ RowsAreTrue

\* A transaction of r is included and takes effect.
TakesEffect(r) ==
  /\ txStatus[r] = "NOT_FOUND" /\ allows(request[r].op, phase[request[r].position])
  /\ phase' = [phase EXCEPT ![request[r].position] = After(request[r].op)]
  /\ txStatus' = [txStatus EXCEPT ![r] = "SUCCESS"]
  /\ UNCHANGED <<request, evidence>>

SameRequests ==
  \A r \in Requests :
    request'[r].op = request[r].op /\ request'[r].position = request[r].position

NoEffect == \A r \in Requests : Landed(r)' <=> Landed(r)

Seized ==
  \E p \in PositionIds :
    phase[p] \in {"opened", "drawn"} /\ phase' = [phase EXCEPT ![p] = "seized"]

\* The rows that finish(r) writes: one for a draw or a repayment, else none.
RowsOf(r) ==
  {e \in Evidence : e.tx = r /\ e.position = request[r].position /\ e.direction = request[r].op}

Filed == \E r \in Requests : Landed(r) /\ evidence' = evidence \cup RowsOf(r)

\* No step changes what a request asks for.
LEMMA RequestsStay ==
  ASSUME Typed, [Next]_vars
  PROVE  SameRequests
<1>1. \A r \in Requests : request[r] \in Request
  BY DEF Typed
<1>2. ASSUME NEW r \in Requests, NEW at, Move(r, at) PROVE SameRequests
  <2>1. ASSUME NEW q \in Requests
        PROVE  request'[q].op = request[q].op /\ request'[q].position = request[q].position
    BY <1>1, <1>2 DEF Typed, Move, Request
  <2>. QED  BY <2>1 DEF SameRequests
<1>3. ASSUME NEW r \in Requests, build_tx(r) PROVE SameRequests
  <2>1. request' = [request EXCEPT ![r].at = "built", ![r].seq = operatorSeq + 1]
    BY <1>3 DEF build_tx
  <2>2. ASSUME NEW q \in Requests
        PROVE  request'[q].op = request[q].op /\ request'[q].position = request[q].position
    BY <1>1, <2>1 DEF Typed, Request
  <2>. QED  BY <2>2 DEF SameRequests
<1>4. CASE crash
  <2>1. request' = [r \in Requests |->
           IF request[r].at \in {"new", "ok", "error"} THEN request[r]
                                                       ELSE [request[r] EXCEPT !.at = "error"]]
    BY <1>4 DEF crash
  <2>2. ASSUME NEW q \in Requests
        PROVE  request'[q].op = request[q].op /\ request'[q].position = request[q].position
    <3>1. request'[q] = request[q] \/ request'[q] = [request[q] EXCEPT !.at = "error"]
      BY <2>1
    <3>. QED  BY <1>1, <3>1 DEF Request
  <2>. QED  BY <2>2 DEF SameRequests
<1>5. ASSUME UNCHANGED request PROVE SameRequests
  BY <1>5 DEF SameRequests
<1>6. ASSUME NEW r \in Requests,
             enqueue(r) \/ send_tx(r) \/ throw_before_send(r) \/ poll_tx(r) \/ finish(r)
      PROVE  \E at : Move(r, at)
  BY <1>6 DEF enqueue, send_tx, throw_before_send, poll_tx, finish
<1>7. ASSUME NEW r \in Requests, include_tx(r) \/ expire_tx(r) PROVE UNCHANGED request
  BY <1>7 DEF include_tx, expire_tx
<1>8. ASSUME NEW p \in PositionIds, seize(p) PROVE UNCHANGED request
  BY <1>8 DEF seize
<1>9. ASSUME NEW a \in AnchorTxs, createQuote(a) \/ createSep31Transaction(a)
      PROVE  UNCHANGED request
  BY <1>9 DEF createQuote, createSep31Transaction
<1>10. ASSUME NEW c \in Callbacks, callback_select(c) \/ callback_upsert(c)
       PROVE  UNCHANGED request
  BY <1>10 DEF callback_select, callback_upsert
<1>11. CASE UNCHANGED vars
  BY <1>5, <1>11 DEF vars
<1>. QED
  BY <1>2, <1>3, <1>4, <1>5, <1>6, <1>7, <1>8, <1>9, <1>10, <1>11 DEF Next, RequestStep

\* A step lets one transaction take effect, or seizes a position, or files the
\* evidence of one that took effect; the others leave all three alone.
LEMMA StepsByEffect ==
  ASSUME IBacked, [Next]_vars
  PROVE  \/ \E r \in Requests : TakesEffect(r)
         \/ NoEffect /\ Seized /\ UNCHANGED evidence
         \/ NoEffect /\ UNCHANGED phase /\ (Filed \/ UNCHANGED evidence)
<1>. DEFINE Goal == \/ \E r \in Requests : TakesEffect(r)
                    \/ NoEffect /\ Seized /\ UNCHANGED evidence
                    \/ NoEffect /\ UNCHANGED phase /\ (Filed \/ UNCHANGED evidence)
<1>1. ASSUME UNCHANGED <<txStatus, phase, evidence>> PROVE Goal
  BY <1>1 DEF NoEffect, Landed
<1>2. ASSUME NEW r \in Requests, include_tx(r) PROVE Goal
  <2>1. r \in pending /\ UNCHANGED <<request, evidence>>
    BY <1>2 DEF include_tx, tables
  <2>2. txStatus[r] = "NOT_FOUND" /\ txStatus \in [Requests -> {"NOT_FOUND", "SUCCESS", "FAILED"}]
    BY <2>1 DEF IBacked, Undecided, Typed
  <2>3. CASE txStatus' = [txStatus EXCEPT ![r] = "FAILED"] /\ UNCHANGED phase
    BY <2>1, <2>2, <2>3 DEF NoEffect, Landed
  <2>4. CASE /\ allows(request[r].op, phase[request[r].position])
             /\ phase' = [phase EXCEPT ![request[r].position] = After(request[r].op)]
             /\ txStatus' = [txStatus EXCEPT ![r] = "SUCCESS"]
    BY <2>1, <2>2, <2>4 DEF TakesEffect
  <2>. QED  BY <1>2, <2>3, <2>4 DEF include_tx
<1>3. ASSUME NEW p \in PositionIds, seize(p) PROVE Goal
  BY <1>3 DEF seize, tables, NoEffect, Landed, Seized
<1>4. ASSUME NEW r \in Requests, finish(r) PROVE Goal
  <2>1. Landed(r) /\ UNCHANGED <<txStatus, phase>>
    BY <1>4 DEF finish, chain, IBacked, ConfirmedLanded
  <2>2. evidence' = evidence \cup RowsOf(r)
    BY <1>4 DEF finish, RowsOf
  <2>. QED  BY <2>1, <2>2 DEF NoEffect, Landed, Filed
<1>. HIDE DEF Goal
<1>5. ASSUME NEW r \in Requests,
             \/ enqueue(r) \/ build_tx(r) \/ send_tx(r) \/ throw_before_send(r)
             \/ poll_tx(r) \/ expire_tx(r)
      PROVE  Goal
  BY <1>1, <1>5
  DEF enqueue, build_tx, send_tx, throw_before_send, poll_tx, expire_tx, chain, tables
<1>6. ASSUME crash PROVE Goal
  BY <1>1, <1>6 DEF crash, chain, tables
<1>7. ASSUME NEW a \in AnchorTxs, createQuote(a) \/ createSep31Transaction(a) PROVE Goal
  BY <1>1, <1>7 DEF createQuote, createSep31Transaction, chain
<1>8. ASSUME NEW c \in Callbacks, callback_select(c) \/ callback_upsert(c) PROVE Goal
  BY <1>1, <1>8 DEF callback_select, callback_upsert, chain, tables
<1>9. ASSUME UNCHANGED vars PROVE Goal
  BY <1>1, <1>9 DEF vars
<1>10. Goal
  BY <1>2, <1>3, <1>4, <1>5, <1>6, <1>7, <1>8, <1>9 DEF Next, RequestStep
<1>. QED  BY <1>10 DEF Goal

\* Effects and rows as they were, and no position falls back.
LEMMA SeizureKeepsEvidence ==
  ASSUME Typed, IEvidence, SameRequests, NoEffect, Seized, UNCHANGED evidence
  PROVE  IEvidence'
<1>1. PICK p \in PositionIds :
        phase[p] \in {"opened", "drawn"} /\ phase' = [phase EXCEPT ![p] = "seized"]
  BY DEF Seized
<1>2. PhaseTyped'
  BY <1>1 DEF IEvidence, PhaseTyped
<1>3. EffectsShow'
  <2>. SUFFICES ASSUME NEW r \in Requests, Landed(r)'
                PROVE  /\ request'[r].op = "draw" =>
                            phase'[request'[r].position] \in {"drawn", "repaid", "seized"}
                       /\ request'[r].op = "repay" => phase'[request'[r].position] = "repaid"
    BY DEF EffectsShow
  <2>1. Landed(r) /\ request'[r].op = request[r].op /\ request'[r].position = request[r].position
    BY DEF NoEffect, SameRequests
  <2>2. request[r].position \in PositionIds
    BY DEF Typed, Request
  <2>3. \/ phase'[request[r].position] = phase[request[r].position]
        \/ phase[request[r].position] \in {"opened", "drawn"} /\ phase'[request[r].position] = "seized"
    BY <1>1, <2>2 DEF IEvidence, PhaseTyped
  <2>. QED  BY <2>1, <2>3 DEF IEvidence, EffectsShow
<1>4. LandedOnce'
  BY DEF IEvidence, LandedOnce, NoEffect, SameRequests
<1>5. RowsAreTrue'
  BY DEF IEvidence, RowsAreTrue, NoEffect, SameRequests, Evidence
<1>. QED  BY <1>2, <1>3, <1>4, <1>5 DEF IEvidence

\* A row is filed for what took effect.
LEMMA FilingKeepsEvidence ==
  ASSUME IEvidence, SameRequests, NoEffect, UNCHANGED phase, Filed \/ UNCHANGED evidence
  PROVE  IEvidence'
<1>1. PhaseTyped' /\ EffectsShow' /\ LandedOnce'
  BY DEF IEvidence, PhaseTyped, EffectsShow, LandedOnce, NoEffect, SameRequests
<1>2. RowsAreTrue'
  <2>. SUFFICES ASSUME NEW e \in evidence'
                PROVE  /\ e \in Evidence /\ Landed(e.tx)'
                       /\ e.position = request'[e.tx].position /\ e.direction = request'[e.tx].op
    BY DEF RowsAreTrue
  <2>1. /\ e \in Evidence /\ Landed(e.tx)
        /\ e.position = request[e.tx].position /\ e.direction = request[e.tx].op
    <3>1. CASE e \in evidence
      BY <3>1 DEF IEvidence, RowsAreTrue
    <3>2. CASE e \notin evidence
      BY <3>2 DEF Filed, RowsOf
    <3>. QED  BY <3>1, <3>2
  <2>2. e.tx \in Requests
    BY <2>1 DEF Evidence
  <2>. QED  BY <2>1, <2>2 DEF NoEffect, SameRequests
<1>. QED  BY <1>1, <1>2 DEF IEvidence

\* What takes effect is the first of its kind: the phase says that none was before.
LEMMA EffectKeepsEvidence ==
  ASSUME Typed, IEvidence, NEW r \in Requests, TakesEffect(r)
  PROVE  IEvidence'
<1>. DEFINE p == request[r].position
            op == request[r].op
<1>1. p \in PositionIds /\ op \in Ops
  BY DEF Typed, Request
<1>2. /\ phase' = [phase EXCEPT ![p] = After(op)] /\ allows(op, phase[p])
      /\ UNCHANGED <<request, evidence>>
  BY DEF TakesEffect
<1>3. ASSUME NEW q \in Requests PROVE Landed(q)' <=> q = r \/ Landed(q)
  BY DEF TakesEffect, Landed, Typed
<1>. HIDE DEF p, op
<1>4. PhaseTyped'
  BY <1>1, <1>2 DEF IEvidence, PhaseTyped, After, Ops
<1>5. /\ phase'[p] = After(op)
      /\ \A x \in PositionIds \ {p} : phase'[x] = phase[x]
  BY <1>1, <1>2 DEF IEvidence, PhaseTyped
<1>6. EffectsShow'
  <2>. SUFFICES ASSUME NEW q \in Requests, Landed(q)'
                PROVE  /\ request[q].op = "draw" =>
                            phase'[request[q].position] \in {"drawn", "repaid", "seized"}
                       /\ request[q].op = "repay" => phase'[request[q].position] = "repaid"
    BY <1>2 DEF EffectsShow
  <2>1. request[q].position \in PositionIds
    BY DEF Typed, Request
  <2>2. CASE q = r
    BY <1>5, <2>2 DEF After, p, op
  <2>3. CASE Landed(q) /\ request[q].position # p
    BY <1>5, <2>1, <2>3 DEF IEvidence, EffectsShow
  <2>4. CASE Landed(q) /\ request[q].position = p
    BY <1>1, <1>2, <1>5, <2>4 DEF IEvidence, EffectsShow, allows, After, Ops
  <2>. QED  BY <1>3, <2>2, <2>3, <2>4
<1>7. LandedOnce'
  <2>1. ASSUME NEW q \in Requests, Landed(q), request[q].position = p, request[q].op = op
        PROVE  op \notin {"draw", "repay"}
    BY <1>2, <2>1 DEF IEvidence, EffectsShow, allows
  <2>. SUFFICES ASSUME NEW q \in Requests, NEW s \in Requests, Landed(q)', Landed(s)',
                       request[q].position = request[s].position,
                       request[q].op = request[s].op, request[s].op \in {"draw", "repay"}
                PROVE  q = s
    BY <1>2 DEF LandedOnce
  <2>2. CASE Landed(q) /\ Landed(s)
    BY <2>2 DEF IEvidence, LandedOnce
  <2>3. CASE q = r \/ s = r
    BY <1>3, <2>1, <2>3 DEF p, op
  <2>. QED  BY <1>3, <2>2, <2>3
<1>8. RowsAreTrue'
  BY <1>2, <1>3 DEF IEvidence, RowsAreTrue, Evidence
<1>. QED  BY <1>4, <1>6, <1>7, <1>8 DEF IEvidence

LEMMA EvidenceStep ==
  ASSUME IBacked, IEvidence, [Next]_vars
  PROVE  IEvidence'
<1>1. Typed /\ SameRequests
  BY RequestsStay DEF IBacked
<1>. QED
  BY <1>1, StepsByEffect, SeizureKeepsEvidence, FilingKeepsEvidence, EffectKeepsEvidence

\* Two rows of one position and direction are of one transaction, hence one row.
LEMMA EvidenceFollows ==
  ASSUME IEvidence
  PROVE  EvidenceBackedByChain
<1>. SUFFICES ASSUME NEW e \in evidence
              PROVE  /\ Landed(e.tx) /\ phase[e.position] \notin {"none", "opened"}
                     /\ \A f \in evidence :
                          e.position = f.position /\ e.direction = f.direction => e = f
  BY DEF EvidenceBackedByChain
<1>1. /\ e.tx \in Requests /\ Landed(e.tx) /\ e.direction \in {"draw", "repay"}
      /\ e.position = request[e.tx].position /\ e.direction = request[e.tx].op
  BY DEF IEvidence, RowsAreTrue, Evidence
<1>2. phase[e.position] \notin {"none", "opened"}
  BY <1>1 DEF IEvidence, EffectsShow
<1>3. ASSUME NEW f \in evidence, e.position = f.position, e.direction = f.direction
      PROVE  e = f
  <2>1. /\ f.tx \in Requests /\ Landed(f.tx)
        /\ f.position = request[f.tx].position /\ f.direction = request[f.tx].op
    BY DEF IEvidence, RowsAreTrue, Evidence
  <2>2. e.tx = f.tx
    BY <1>1, <1>3, <2>1 DEF IEvidence, LandedOnce
  <2>3. e \in Evidence /\ f \in Evidence
    BY DEF IEvidence, RowsAreTrue
  <2>. QED  BY <1>3, <2>2, <2>3 DEF Evidence
<1>. QED  BY <1>1, <1>2, <1>3

\* However often a draw or a repayment is requested, resent or lands after the
\* process gave up on it, a row of evidence is of a transaction that took effect
\* and the only one of its position and direction.
THEOREM EvidenceIsBacked == Spec => []EvidenceBackedByChain
<1>1. Init => PendingTyped /\ IEvidence
  <2>. SUFFICES ASSUME Init PROVE PendingTyped /\ IEvidence
    OBVIOUS
  <2>1. \A r \in Requests : ~Landed(r)
    BY DEF Init, Landed
  <2>. QED
    BY <2>1 DEF Init, PendingTyped, IEvidence, PhaseTyped, EffectsShow, LandedOnce, RowsAreTrue
<1>2. IEvidence => EvidenceBackedByChain
  BY EvidenceFollows
<1>. QED
  BY <1>1, <1>2, BackedInit, BackedStep, PendingStep, EvidenceStep, PTL DEF Spec

-------------------------------------------------------------------------------
(* The operator's sequence numbers.                                        *)

Ordered == queue \in Seq(Requests)

InFlight(r) == request[r].at \in {"built", "polling"}
Settled(r) == request[r].at \in {"confirmed", "ok"}

\* The process works on the head of its queue only.
HeadOnly == \A r \in Requests : InFlight(r) => IsRunning(r)

\* What took effect used a number that is passed, and the request under way was
\* built after every request that succeeded.
NumbersPassed ==
  \A r \in Requests :
    /\ Landed(r) => request[r].seq <= operatorSeq
    /\ InFlight(r) => \A s \in Requests : Settled(s) => request[s].seq < request[r].seq

SettledLanded == \A r \in Requests : Settled(r) => Landed(r)

ISerial == Ordered /\ HeadOnly /\ NumbersPassed /\ SettledLanded /\ SequenceNumbersDiffer

\* Where nobody comes under way or succeeds, and no number changes, nothing new has
\* to be ordered.
LEMMA NothingNewSerial ==
  ASSUME ISerial, Ordered', operatorSeq \in Nat, operatorSeq' \in Nat, operatorSeq <= operatorSeq',
         \A r \in Requests :
           /\ request[r].seq \in Nat /\ request'[r].seq = request[r].seq
           /\ Landed(r)' => Landed(r) \/ request[r].seq <= operatorSeq'
           /\ InFlight(r)' => InFlight(r) /\ IsRunning(r)'
           /\ Settled(r)' => Settled(r)
           /\ Landed(r) => Landed(r)'
  PROVE  ISerial'
<1>1. HeadOnly'
  BY DEF HeadOnly
<1>2. NumbersPassed'
  BY DEF ISerial, NumbersPassed
<1>3. SequenceNumbersDiffer' /\ SettledLanded'
  BY DEF ISerial, SequenceNumbersDiffer, SettledLanded, InFlight, Settled
<1>. QED  BY <1>1, <1>2, <1>3 DEF ISerial

\* The head has had its turn: who was under way was the head.
LEMMA QueueAdvances ==
  ASSUME Ordered, HeadOnly, NEW r \in Requests, IsRunning(r), NEW ok, advance(ok)
  PROVE  Ordered' /\ \A q \in Requests : InFlight(q) => q = r
<1>1. queue \in Seq(Requests) /\ queue # <<>> /\ Head(queue) = r /\ queue' = Tail(queue)
  BY DEF Ordered, IsRunning, advance
<1>. QED  BY <1>1 DEF Ordered, HeadOnly, IsRunning

\* A request that moves on keeps its number.
LEMMA NumbersStay ==
  ASSUME Typed, NEW r \in Requests,
         NEW at \in {"new", "queued", "built", "polling", "confirmed", "ok", "error"},
         Move(r, at)
  PROVE  /\ request'[r].at = at
         /\ \A q \in Requests :
              /\ request[q].seq \in Nat /\ request'[q].seq = request[q].seq
              /\ q # r => request'[q].at = request[q].at
<1>1. request \in [Requests -> Request] /\ \A q \in Requests : request[q].seq \in Nat
  BY DEF Typed, Request
<1>2. request' = [request EXCEPT ![r] = [request[r] EXCEPT !.at = at]]
  BY DEF Move
<1>3. request'[r] = [request[r] EXCEPT !.at = at] /\ \A q \in Requests \ {r} : request'[q] = request[q]
  BY <1>1, <1>2
<1>4. request'[r].at = at /\ request'[r].seq = request[r].seq
  BY <1>1, <1>3 DEF Request
<1>. QED  BY <1>1, <1>3, <1>4

\* A new request waits behind the others.
LEMMA EnqueueSerial ==
  ASSUME IBacked, PendingTyped, ISerial, NEW r \in Requests, enqueue(r)
  PROVE  ISerial'
<1>1. Typed /\ operatorSeq \in Nat
  BY DEF IBacked, PendingTyped
<1>2. /\ request[r].at = "new" /\ Move(r, "queued") /\ queue' = Append(queue, r)
      /\ UNCHANGED <<operatorSeq, txStatus>>
  BY DEF enqueue, chain
<1>3. /\ request'[r].at = "queued"
      /\ \A q \in Requests :
           /\ request[q].seq \in Nat /\ request'[q].seq = request[q].seq
           /\ q # r => request'[q].at = request[q].at
  BY <1>1, <1>2, NumbersStay
<1>4. Ordered' /\ \A q \in Requests : IsRunning(q) => IsRunning(q)'
  BY <1>2 DEF ISerial, Ordered, IsRunning
<1>5. ASSUME NEW q \in Requests
      PROVE  /\ InFlight(q)' => InFlight(q) /\ IsRunning(q)'
             /\ Settled(q)' => Settled(q)
             /\ Landed(q)' <=> Landed(q)
  BY <1>2, <1>3, <1>4 DEF InFlight, Settled, Landed, ISerial, HeadOnly
<1>. QED  BY <1>1, <1>2, <1>3, <1>4, <1>5, NothingNewSerial

\* The number is the account's next: after every one that was used.  Nobody else is
\* under way, because r is the head.
LEMMA BuildSerial ==
  ASSUME IBacked, PendingTyped, ISerial, NEW r \in Requests, build_tx(r)
  PROVE  ISerial'
<1>1. /\ IsRunning(r) /\ request[r].at = "queued"
      /\ request' = [request EXCEPT ![r].at = "built", ![r].seq = operatorSeq + 1]
      /\ UNCHANGED <<operatorSeq, txStatus, queue>>
  BY DEF build_tx, chain
<1>2. request \in [Requests -> Request] /\ operatorSeq \in Nat
  BY DEF IBacked, Typed, PendingTyped
<1>3. \A q \in Requests \ {r} : request'[q] = request[q]
  BY <1>1, <1>2
<1>4. request'[r].at = "built" /\ request'[r].seq = operatorSeq + 1
  BY <1>1, <1>2 DEF Request
<1>5. \A q \in Requests : request[q].seq \in Nat
  BY <1>2 DEF Request
<1>6. \A q \in Requests : ~InFlight(q)
  BY <1>1 DEF ISerial, HeadOnly, IsRunning, InFlight
<1>7. txStatus[r] = "NOT_FOUND"
  BY <1>1 DEF IBacked, Undecided
<1>8. \A q \in Requests : /\ Settled(q)' => q # r /\ Settled(q)
                          /\ Landed(q)' => q # r /\ Landed(q)
                          /\ InFlight(q)' => q = r
  BY <1>1, <1>3, <1>4, <1>6, <1>7 DEF Settled, Landed, InFlight
<1>9. \A q \in Requests : Settled(q) => Landed(q) /\ request[q].seq <= operatorSeq
  BY DEF ISerial, SettledLanded, NumbersPassed
<1>10. Ordered' /\ HeadOnly'
  BY <1>1, <1>8 DEF ISerial, Ordered, HeadOnly, IsRunning
<1>11. NumbersPassed'
  BY <1>1, <1>2, <1>3, <1>4, <1>5, <1>8, <1>9 DEF ISerial, NumbersPassed
<1>12. SettledLanded'
  BY <1>1, <1>8, <1>9 DEF SettledLanded, Landed
<1>13. SequenceNumbersDiffer'
  <2>1. ASSUME NEW q \in Requests, request'[q].at \in {"built", "polling", "confirmed", "ok"}
        PROVE  q = r \/ (Settled(q) /\ request'[q] = request[q] /\ request[q].seq <= operatorSeq)
    BY <1>3, <1>6, <1>9, <2>1 DEF InFlight, Settled
  <2>2. \A q \in Requests : request[q].seq <= operatorSeq => request[q].seq # operatorSeq + 1
    BY <1>2, <1>5
  <2>. QED  BY <1>4, <2>1, <2>2 DEF ISerial, SequenceNumbersDiffer, Settled
<1>. QED  BY <1>10, <1>11, <1>12, <1>13 DEF ISerial

\* The transaction is sent: its request stays under way, with its number.
LEMMA SendSerial ==
  ASSUME IBacked, PendingTyped, ISerial, NEW r \in Requests, send_tx(r)
  PROVE  ISerial'
<1>1. Typed /\ operatorSeq \in Nat
  BY DEF IBacked, PendingTyped
<1>2. /\ request[r].at = "built" /\ Move(r, "polling")
      /\ UNCHANGED <<operatorSeq, txStatus, queue>>
  BY DEF send_tx
<1>3. /\ request'[r].at = "polling"
      /\ \A q \in Requests :
           /\ request[q].seq \in Nat /\ request'[q].seq = request[q].seq
           /\ q # r => request'[q].at = request[q].at
  BY <1>1, <1>2, NumbersStay
<1>4. ASSUME NEW q \in Requests
      PROVE  /\ InFlight(q)' <=> InFlight(q)
             /\ Settled(q)' <=> Settled(q)
             /\ Landed(q)' <=> Landed(q)
             /\ IsRunning(q)' <=> IsRunning(q)
  BY <1>2, <1>3 DEF InFlight, Settled, Landed, IsRunning
<1>5. Ordered' /\ HeadOnly' /\ NumbersPassed' /\ SettledLanded'
  BY <1>2, <1>3, <1>4 DEF ISerial, Ordered, HeadOnly, NumbersPassed, SettledLanded
<1>6. SequenceNumbersDiffer'
  BY <1>3, <1>4 DEF ISerial, SequenceNumbersDiffer, InFlight, Settled
<1>. QED  BY <1>5, <1>6 DEF ISerial

\* The head settles.  If it took effect, its number came after all others that did.
LEMMA HeadSerial ==
  ASSUME IBacked, PendingTyped, ISerial, NEW r \in Requests,
         throw_before_send(r) \/ poll_tx(r)
  PROVE  ISerial'
<1>1. Typed /\ operatorSeq \in Nat
  BY DEF IBacked, PendingTyped
<1>2. PICK at \in {"confirmed", "error"} :
        /\ IsRunning(r) /\ Move(r, at) /\ queue' = Tail(queue)
        /\ UNCHANGED <<operatorSeq, txStatus>>
        /\ at = "confirmed" => InFlight(r) /\ Landed(r)
  BY DEF throw_before_send, poll_tx, advance, chain, InFlight, Landed
<1>3. /\ request'[r].at = at
      /\ \A q \in Requests :
           /\ request[q].seq \in Nat /\ request'[q].seq = request[q].seq
           /\ q # r => request'[q].at = request[q].at
  BY <1>1, <1>2, NumbersStay
<1>4. Ordered'
  BY <1>2 DEF ISerial, Ordered, IsRunning
<1>5. \A q \in Requests : InFlight(q) => q = r
  BY <1>2 DEF ISerial, HeadOnly, IsRunning
<1>6. ASSUME NEW q \in Requests
      PROVE  /\ ~InFlight(q)'
             /\ Settled(q)' => Settled(q) \/ (q = r /\ InFlight(q) /\ Landed(q))
             /\ Landed(q)' <=> Landed(q)
  BY <1>2, <1>3, <1>5 DEF InFlight, Settled, Landed
<1>7. HeadOnly' /\ NumbersPassed' /\ SettledLanded'
  BY <1>2, <1>3, <1>6 DEF ISerial, HeadOnly, NumbersPassed, SettledLanded
<1>8. SequenceNumbersDiffer'
  BY <1>3, <1>6 DEF ISerial, SequenceNumbersDiffer, InFlight, Settled
<1>. QED  BY <1>4, <1>7, <1>8 DEF ISerial

\* What was confirmed has landed, and stays so.
LEMMA FinishSerial ==
  ASSUME IBacked, PendingTyped, ISerial, NEW r \in Requests, finish(r)
  PROVE  ISerial'
<1>1. Typed /\ operatorSeq \in Nat
  BY DEF IBacked, PendingTyped
<1>2. /\ request[r].at = "confirmed" /\ UNCHANGED <<operatorSeq, txStatus, queue>>
      /\ Move(r, "error") \/ Move(r, "ok")
  BY DEF finish, chain
<1>3. /\ request'[r].at \in {"error", "ok"}
      /\ \A q \in Requests :
           /\ request[q].seq \in Nat /\ request'[q].seq = request[q].seq
           /\ q # r => request'[q].at = request[q].at
  BY <1>1, <1>2, NumbersStay
<1>4. ASSUME NEW q \in Requests
      PROVE  /\ InFlight(q)' => InFlight(q) /\ IsRunning(q)'
             /\ Settled(q)' => Settled(q)
             /\ Landed(q)' <=> Landed(q)
  BY <1>2, <1>3 DEF InFlight, Settled, Landed, IsRunning, ISerial, HeadOnly
<1>5. Ordered'
  BY <1>2 DEF ISerial, Ordered
<1>. QED  BY <1>1, <1>2, <1>3, <1>4, <1>5, NothingNewSerial

\* A ledger takes the next number; the request may long have been given up on.
LEMMA IncludeSerial ==
  ASSUME IBacked, PendingTyped, ISerial, NEW r \in Requests, include_tx(r)
  PROVE  ISerial'
<1>1. /\ request[r].seq = operatorSeq + 1 /\ operatorSeq' = operatorSeq + 1
      /\ UNCHANGED <<request, queue>>
      /\ \/ txStatus' = [txStatus EXCEPT ![r] = "SUCCESS"]
         \/ txStatus' = [txStatus EXCEPT ![r] = "FAILED"]
      /\ r \in pending
  BY DEF include_tx
<1>2. operatorSeq \in Nat /\ \A q \in Requests : request[q].seq \in Nat
  BY DEF IBacked, PendingTyped, Typed, Request
<1>3. txStatus \in [Requests -> {"NOT_FOUND", "SUCCESS", "FAILED"}] /\ txStatus[r] = "NOT_FOUND"
  BY <1>1 DEF IBacked, Typed, Undecided
<1>4. ASSUME NEW q \in Requests
      PROVE  /\ Landed(q)' => Landed(q) \/ q = r
             /\ Landed(q) => Landed(q)'
             /\ InFlight(q)' => InFlight(q) /\ IsRunning(q)'
             /\ Settled(q)' => Settled(q)
  BY <1>1, <1>3 DEF Landed, InFlight, Settled, IsRunning, ISerial, HeadOnly
<1>5. Ordered'
  BY <1>1 DEF ISerial, Ordered
<1>. QED  BY <1>1, <1>2, <1>4, <1>5, NothingNewSerial

\* The process dies with its queue: nobody is under way.
LEMMA CrashSerial ==
  ASSUME IBacked, PendingTyped, ISerial, crash
  PROVE  ISerial'
<1>1. /\ request' = [r \in Requests |->
           IF request[r].at \in {"new", "ok", "error"} THEN request[r]
                                                       ELSE [request[r] EXCEPT !.at = "error"]]
      /\ queue' = <<>> /\ UNCHANGED <<operatorSeq, txStatus>>
  BY DEF crash, chain
<1>2. operatorSeq \in Nat /\ \A q \in Requests : request[q] \in Request
  BY DEF IBacked, PendingTyped, Typed
<1>3. ASSUME NEW q \in Requests
      PROVE  /\ request[q].seq \in Nat /\ request'[q].seq = request[q].seq
             /\ ~InFlight(q)'
             /\ Settled(q)' => Settled(q)
             /\ Landed(q)' <=> Landed(q)
  <2>1. PICK e : e = request[q]
    OBVIOUS
  <2>2. e \in Request
    BY <1>2, <2>1
  <2>3. [e EXCEPT !.at = "error"].at = "error" /\ [e EXCEPT !.at = "error"].seq = e.seq
    BY <2>2 DEF Request
  <2>4. \/ request'[q] = e /\ e.at \in {"new", "ok", "error"}
        \/ request'[q] = [e EXCEPT !.at = "error"]
    BY <1>1, <2>1
  <2>5. e.seq \in Nat
    BY <2>2 DEF Request
  <2>. QED  BY <1>1, <2>1, <2>3, <2>4, <2>5 DEF InFlight, Settled, Landed
<1>4. Ordered'
  BY <1>1 DEF Ordered
<1>. QED  BY <1>1, <1>2, <1>3, <1>4, NothingNewSerial

LEMMA SerialStep ==
  ASSUME IBacked, PendingTyped, ISerial, [Next]_vars
  PROVE  ISerial'
<1>1. ASSUME UNCHANGED <<operatorSeq, txStatus, queue, request>>
      PROVE  ISerial'
  BY <1>1 DEF ISerial, Ordered, HeadOnly, NumbersPassed, SettledLanded, SequenceNumbersDiffer,
              IsRunning, InFlight, Settled, Landed
<1>2. ASSUME NEW r \in Requests, expire_tx(r) PROVE ISerial'
  BY <1>1, <1>2 DEF expire_tx
<1>3. ASSUME NEW p \in PositionIds, seize(p) PROVE ISerial'
  BY <1>1, <1>3 DEF seize
<1>4. ASSUME NEW a \in AnchorTxs, createQuote(a) \/ createSep31Transaction(a) PROVE ISerial'
  BY <1>1, <1>4 DEF createQuote, createSep31Transaction, chain
<1>5. ASSUME NEW c \in Callbacks, callback_select(c) \/ callback_upsert(c) PROVE ISerial'
  BY <1>1, <1>5 DEF callback_select, callback_upsert, chain
<1>6. CASE UNCHANGED vars
  BY <1>1, <1>6 DEF vars
<1>. QED
  BY <1>2, <1>3, <1>4, <1>5, <1>6, EnqueueSerial, BuildSerial, SendSerial, HeadSerial,
     FinishSerial, IncludeSerial, CrashSerial
  DEF Next, RequestStep

\* enqueueOperatorTx: between getAccount and its answer the process has one
\* operator transaction at a time, so no two requests under way or successful ever
\* signed one sequence number, however many were given up on meanwhile.
THEOREM OneNumberEach == Spec => []SequenceNumbersDiffer
<1>1. Init => PendingTyped /\ ISerial
  <2>. SUFFICES ASSUME Init PROVE PendingTyped /\ ISerial
    OBVIOUS
  <2>1. queue = <<>> /\ \A r \in Requests : request[r].at = "new" /\ ~Landed(r)
    BY DEF Init, Landed
  <2>2. ISerial
    BY <2>1 DEF ISerial, Ordered, HeadOnly, NumbersPassed, SettledLanded, SequenceNumbersDiffer,
                InFlight, Settled
  <2>. QED  BY <2>2 DEF Init, PendingTyped
<1>2. ISerial => SequenceNumbersDiffer
  BY DEF ISerial
<1>. QED  BY <1>1, <1>2, BackedInit, BackedStep, PendingStep, SerialStep, PTL DEF Spec

-------------------------------------------------------------------------------
(* The chain as the operator's transactions move it.                       *)

\* A transaction that takes effect opens, draws or repays its position, as the
\* position's phase allows; the manager may seize it; nothing else moves a phase.
LEMMA PhasesStep ==
  ASSUME Typed, PhaseTyped, [Next]_vars
  PROVE  PhaseTyped' /\ [OnChain!Next]_phase
<1>1. ASSUME UNCHANGED phase PROVE PhaseTyped' /\ [OnChain!Next]_phase
  BY <1>1 DEF PhaseTyped
<1>2. ASSUME NEW r \in Requests, NEW p \in PositionIds, p = request[r].position,
             allows(request[r].op, phase[p]),
             phase' = [phase EXCEPT ![p] = After(request[r].op)]
      PROVE  PhaseTyped' /\ [OnChain!Next]_phase
  <2>1. OnChain!Open(p) \/ OnChain!Draw(p) \/ OnChain!Repay(p)
    BY <1>2 DEF allows, After, OnChain!Open, OnChain!Draw, OnChain!Repay, OnChain!Outstanding,
                OnChain!Turns
  <2>2. PhaseTyped'
    BY <1>2 DEF PhaseTyped, allows, After
  <2>. QED  BY <2>1, <2>2 DEF OnChain!Next
<1>3. ASSUME NEW p \in PositionIds, seize(p) PROVE PhaseTyped' /\ [OnChain!Next]_phase
  <2>1. OnChain!Seize(p) /\ PhaseTyped'
    BY <1>3 DEF seize, PhaseTyped, OnChain!Seize, OnChain!Outstanding, OnChain!Turns
  <2>. QED  BY <2>1 DEF OnChain!Next
<1>4. ASSUME NEW r \in Requests, include_tx(r) PROVE PhaseTyped' /\ [OnChain!Next]_phase
  <2>1. PICK p \in PositionIds : p = request[r].position
    BY DEF Typed, Request
  <2>2. \/ UNCHANGED phase
        \/ /\ allows(request[r].op, phase[p])
           /\ phase' = [phase EXCEPT ![p] = After(request[r].op)]
    BY <1>4, <2>1 DEF include_tx
  <2>. QED  BY <1>1, <1>2, <2>1, <2>2
<1>5. ASSUME NEW r \in Requests,
             \/ enqueue(r) \/ build_tx(r) \/ send_tx(r) \/ throw_before_send(r)
             \/ poll_tx(r) \/ finish(r) \/ expire_tx(r)
      PROVE  UNCHANGED phase
  BY <1>5 DEF enqueue, build_tx, send_tx, throw_before_send, poll_tx, finish, expire_tx, chain
<1>6. ASSUME NEW a \in AnchorTxs, createQuote(a) \/ createSep31Transaction(a)
      PROVE  UNCHANGED phase
  BY <1>6 DEF createQuote, createSep31Transaction, chain
<1>7. ASSUME NEW c \in Callbacks, callback_select(c) \/ callback_upsert(c)
      PROVE  UNCHANGED phase
  BY <1>7 DEF callback_select, callback_upsert, chain
<1>8. crash \/ UNCHANGED vars => UNCHANGED phase
  BY DEF crash, chain, vars
<1>. QED  BY <1>1, <1>3, <1>4, <1>5, <1>6, <1>7, <1>8 DEF Next, RequestStep

\* The service implements PositionPhases, as the contracts do: however requests are
\* retried, expire or land late, what becomes of a position through the backend is
\* what the credit line allows.
THEOREM ServiceKeepsPhases == Spec => OnChain!Spec
<1>1. Init => OnChain!Init /\ PhaseTyped
  BY DEF Init, OnChain!Init, PhaseTyped
<1>2. IBacked => Typed
  BY DEF IBacked
<1>3. Init => PendingTyped
  BY DEF Init, PendingTyped
<1>. QED
  BY <1>1, <1>2, <1>3, BackedInit, BackedStep, PendingStep, PhasesStep, PTL
  DEF Spec, OnChain!Spec
=================================================================================
