---------------------------- MODULE PrefundingService ----------------------------
(***************************************************************************)
(* The backend between an anchor and the credit line.                      *)
(*                                                                         *)
(* A request to open, draw or repay becomes one transaction of the         *)
(* operator account.  The process submits its transactions one after the   *)
(* other (operator-tx.ts), watches each for 30 seconds, and only when it   *)
(* has seen it succeed does the request write its evidence row and the     *)
(* product status (credit-line.ts).  But the transaction is valid for 180  *)
(* seconds, the process may die, and the anchor's business server, another *)
(* process, rewrites the same status where both run on one database.       *)
(*                                                                         *)
(* sep_status is left out: it is written here but never decides anything.  *)
(***************************************************************************)
EXTENDS Integers, Sequences, FiniteSets

CONSTANTS
  Requests,     \* requests to the credit-line routes; also the hash of their tx
  PositionIds,  \* positions
  AnchorTxs,    \* SEP-31 transaction ids
  Callbacks,    \* SEP-31 requests the business server is working on
  None

Ops == {"open", "draw", "repay"}

ProductStatus ==
  {"prefunding_required", "credit_quote_ready", "proof_verified", "credit_drawn", "repaid"}

ASSUME ServiceAssumption == None \notin AnchorTxs \cup ProductStatus

VARIABLES
  phase,        \* on chain: where each position is in its life
  operatorSeq,  \* on chain: sequence number of the operator account
  pending,      \* transactions the network has and may still include
  txStatus,     \* what getTransaction says of each transaction
  queue,        \* the process's promise chain of operator transactions
  request,      \* what each request is and how far it got
  product_status,  \* table anchor_transactions, None where there is no row
  evidence,     \* table confidential_transfer_evidence
  callback      \* what each business-server request has read

vars == <<phase, operatorSeq, pending, txStatus, queue, request, product_status,
          evidence, callback>>
chain == <<phase, operatorSeq, pending, txStatus>>
tables == <<product_status, evidence>>

Request == [at : {"new", "queued", "built", "polling", "confirmed", "ok", "error"},
            op : Ops, position : PositionIds, anchorTx : AnchorTxs \cup {None}, seq : Nat]
Evidence == [tx : Requests, position : PositionIds, direction : {"draw", "repay"}]
Callback == [anchorTx : AnchorTxs, read : ProductStatus \cup {None}]

TypeOK ==
  /\ phase \in [PositionIds -> {"none", "opened", "drawn", "repaid", "seized"}]
  /\ operatorSeq \in Nat
  /\ pending \subseteq Requests
  /\ txStatus \in [Requests -> {"NOT_FOUND", "SUCCESS", "FAILED"}]
  /\ queue \in Seq(Requests)
  /\ request \in [Requests -> Request]
  /\ product_status \in [AnchorTxs -> ProductStatus \cup {None}]
  /\ evidence \subseteq Evidence
  /\ callback \in [Callbacks -> Callback \cup {None}]

Init ==
  /\ phase = [p \in PositionIds |-> "none"]
  /\ operatorSeq = 0
  /\ pending = {}
  /\ txStatus = [r \in Requests |-> "NOT_FOUND"]
  /\ queue = <<>>
  /\ request \in [Requests ->
       [at : {"new"}, op : Ops, position : PositionIds,
        anchorTx : AnchorTxs \cup {None}, seq : {0}]]
  /\ product_status = [a \in AnchorTxs |-> None]
  /\ evidence = {}
  /\ callback = [c \in Callbacks |-> None]

\* A request moves on.
Move(r, at) == request' = [request EXCEPT ![r].at = at]

-------------------------------------------------------------------------------
(* The chain, as far as the operator's transactions reach it.              *)

\* Variant with a plausible bug: a drawn position can be drawn again.
mut_allows_second_draw(op, ph) ==
  \/ op = "open" /\ ph = "none"
  \/ op = "draw" /\ ph \in {"opened", "drawn"}
  \/ op = "repay" /\ ph \in {"opened", "drawn"}

\* What the credit line lets happen to a position in this phase.
allows(op, ph) ==
  \/ op = "open" /\ ph = "none"
  \/ op = "draw" /\ ph = "opened"
  \/ op = "repay" /\ ph \in {"opened", "drawn"}

After(op) == CASE op = "open" -> "opened" [] op = "draw" -> "drawn" [] op = "repay" -> "repaid"

\* A ledger includes a transaction whose sequence number is next.  It may fail
\* for other reasons than the phase (price, proof, pause): then nothing happens.
include_tx(r) ==
  LET p == request[r].position IN
  /\ r \in pending /\ request[r].seq = operatorSeq + 1
  /\ pending' = pending \ {r}
  /\ operatorSeq' = operatorSeq + 1
  /\ \/ /\ allows(request[r].op, phase[p])
        /\ phase' = [phase EXCEPT ![p] = After(request[r].op)]
        /\ txStatus' = [txStatus EXCEPT ![r] = "SUCCESS"]
     \/ /\ txStatus' = [txStatus EXCEPT ![r] = "FAILED"]
        /\ UNCHANGED phase
  /\ UNCHANGED <<queue, request, tables, callback>>

\* Its time bounds pass (180 seconds), or its sequence number is taken.
expire_tx(r) ==
  /\ r \in pending
  /\ pending' = pending \ {r}
  /\ UNCHANGED <<phase, operatorSeq, txStatus, queue, request, tables, callback>>

\* The manager seizes an overdue position, without this backend.
seize(p) ==
  /\ phase[p] \in {"opened", "drawn"}
  /\ phase' = [phase EXCEPT ![p] = "seized"]
  /\ UNCHANGED <<operatorSeq, pending, txStatus, queue, request, tables, callback>>

-------------------------------------------------------------------------------
(* enqueueOperatorTx and submitContractCallWithSigners.                    *)

\* Variant with a plausible bug: `queue.then(task)`, so a failure stops the queue.
mut_advance_on_success(ok) == queue' = IF ok THEN Tail(queue) ELSE queue

\* queue.then(task, task): the next task runs whether or not this one failed.
advance(ok) == queue' = Tail(queue)

\* Variant with a plausible bug: what was enqueued runs at once.
mut_runs_at_once(r) == \E i \in DOMAIN queue : queue[i] = r

\* Its turn has come: everything enqueued before it has settled.
IsRunning(r) == queue # <<>> /\ Head(queue) = r

\* A route calls openCreditLine, executeDraw or repayCreditLine.
enqueue(r) ==
  /\ request[r].at = "new"
  /\ queue' = Append(queue, r)
  /\ Move(r, "queued")
  /\ UNCHANGED <<chain, tables, callback>>

\* getAccount and simulateTransaction: what would fail now is not sent.
build_tx(r) ==
  /\ IsRunning(r) /\ request[r].at = "queued"
  /\ allows(request[r].op, phase[request[r].position])
  /\ request' = [request EXCEPT ![r].at = "built", ![r].seq = operatorSeq + 1]
  /\ UNCHANGED <<chain, queue, tables, callback>>

send_tx(r) ==
  /\ IsRunning(r) /\ request[r].at = "built"
  /\ pending' = pending \cup {r}
  /\ Move(r, "polling")
  /\ UNCHANGED <<phase, operatorSeq, txStatus, queue, tables, callback>>

\* The simulation fails, an RPC call throws, sendTransaction says ERROR.
throw_before_send(r) ==
  /\ IsRunning(r) /\ request[r].at \in {"queued", "built"}
  /\ advance(FALSE)
  /\ Move(r, "error")
  /\ UNCHANGED <<chain, tables, callback>>

\* Variant with a plausible bug: only FAILED is an error, NOT_FOUND is not.
mut_poll_accepts_not_found(r) ==
  /\ IsRunning(r) /\ request[r].at = "polling"
  /\ advance(txStatus[r] # "FAILED")
  /\ Move(r, IF txStatus[r] # "FAILED" THEN "confirmed" ELSE "error")
  /\ UNCHANGED <<chain, tables, callback>>

\* getTransaction has an answer, or has had none for 30 seconds: only SUCCESS
\* lets the request go on.
poll_tx(r) ==
  /\ IsRunning(r) /\ request[r].at = "polling"
  /\ advance(txStatus[r] = "SUCCESS")
  /\ Move(r, IF txStatus[r] = "SUCCESS" THEN "confirmed" ELSE "error")
  /\ UNCHANGED <<chain, tables, callback>>

-------------------------------------------------------------------------------
(* credit-line.ts after the transaction, in one run of the event loop.     *)

\* UPDATE ... WHERE anchor_transaction_id = ?: no row, no effect.
updateProductStatus(a, s) ==
  product_status' = [b \in AnchorTxs |->
    IF b = a /\ product_status[b] # None THEN s ELSE product_status[b]]

StatusAfter(op) ==
  CASE op = "open" -> "proof_verified" [] op = "draw" -> "credit_drawn" [] op = "repay" -> "repaid"

\* Draws and repayments leave a row of evidence; then the status is set.  A draw
\* for a SEP-31 transaction nobody knows throws at the very end.
finish(r) ==
  LET q == request[r] IN
  /\ q.at = "confirmed"
  /\ evidence' = evidence \cup
       {e \in Evidence : e.tx = r /\ e.position = q.position /\ e.direction = q.op}
  /\ updateProductStatus(q.anchorTx, StatusAfter(q.op))
  /\ Move(r, IF q.op = "draw" /\ q.anchorTx # None /\ product_status[q.anchorTx] = None
               THEN "error" ELSE "ok")
  /\ UNCHANGED <<chain, queue, callback>>

\* The API process dies: queue and running requests are gone, nothing else is.
crash ==
  /\ \E r \in Requests : request[r].at \notin {"new", "ok", "error"}
  /\ queue' = <<>>
  /\ request' = [r \in Requests |->
       IF request[r].at \in {"new", "ok", "error"} THEN request[r]
                                                   ELSE [request[r] EXCEPT !.at = "error"]]
  /\ UNCHANGED <<chain, tables, callback>>

-------------------------------------------------------------------------------
(* Other writers of product_status.                                        *)

\* createQuote writes its status last, whatever happened to the credit meanwhile.
createQuote(a) ==
  /\ updateProductStatus(a, "credit_quote_ready")
  /\ UNCHANGED <<chain, queue, request, evidence, callback>>

Upserted(read) == IF read = None THEN "prefunding_required" ELSE read

\* createSep31Transaction / recordAnchorTransactionCallback in the API process:
\* SELECT and upsert are not interrupted by the requests above.
createSep31Transaction(a) ==
  /\ product_status' = [product_status EXCEPT ![a] = Upserted(@)]
  /\ UNCHANGED <<chain, queue, request, evidence, callback>>

\* The same in the business-server process: the SELECT ...
callback_select(c) ==
  /\ callback[c] = None
  /\ \E a \in AnchorTxs :
       callback' = [callback EXCEPT ![c] = [anchorTx |-> a, read |-> product_status[a]]]
  /\ UNCHANGED <<chain, queue, request, tables>>

\* ... and the upsert, which writes back the status that was read.
callback_upsert(c) ==
  /\ callback[c] # None
  /\ product_status' =
       [product_status EXCEPT ![callback[c].anchorTx] = Upserted(callback[c].read)]
  /\ callback' = [callback EXCEPT ![c] = None]
  /\ UNCHANGED <<chain, queue, request, evidence>>

-------------------------------------------------------------------------------

RequestStep(r) ==
  \/ build_tx(r)
  \/ send_tx(r)
  \/ throw_before_send(r)
  \/ poll_tx(r)
  \/ finish(r)

Next ==
  \/ \E r \in Requests : enqueue(r) \/ RequestStep(r) \/ include_tx(r) \/ expire_tx(r)
  \/ \E p \in PositionIds : seize(p)
  \/ crash
  \/ \E a \in AnchorTxs : createQuote(a) \/ createSep31Transaction(a)
  \/ \E c \in Callbacks : callback_select(c) \/ callback_upsert(c)

Spec == Init /\ [][Next]_vars

\* The event loop runs on and RPC calls return or throw; polling is bounded, so
\* nothing is assumed of the chain or of the clients.
Fairness == \A r \in Requests : WF_vars(RequestStep(r))

FairSpec == Spec /\ Fairness

-------------------------------------------------------------------------------
(* What makes the backend correct.                                         *)

\* The request's transaction took effect on chain.
Landed(r) == txStatus[r] = "SUCCESS"

Backed(a, s) ==
  s \in {"proof_verified", "credit_drawn", "repaid"} =>
    \E r \in Requests :
      Landed(r) /\ request[r].anchorTx = a /\ StatusAfter(request[r].op) = s

\* A SEP-31 transaction is never shown further than the chain is: each credit
\* status it has rests on a transaction of its own that took effect, although
\* transactions time out and land later and two processes write the status.
StatusBackedByChain ==
  \A a \in AnchorTxs : Backed(a, product_status[a])

\* A row of evidence is of a transaction that took effect, and there is one row
\* per position and direction: no draw or repayment is ever shown twice, however
\* often it was requested.
EvidenceBackedByChain ==
  \A e \in evidence :
    /\ Landed(e.tx) /\ phase[e.position] \notin {"none", "opened"}
    /\ \A f \in evidence : e.position = f.position /\ e.direction = f.direction => e = f

\* The operator's sequence number is read by getAccount and used several awaits
\* later.  No two requests that are under way or took effect ever signed the same
\* one: only a transaction that was given up on, and answered with an error, can
\* have a number that another request builds on again.
SequenceNumbersDiffer ==
  \A r, s \in Requests :
    /\ request[r].at \in {"built", "polling", "confirmed", "ok"}
    /\ request[s].at \in {"built", "polling", "confirmed", "ok"}
    /\ request[r].seq = request[s].seq
    => r = s

\* However requests are retried, and transactions expire, fail or land after they
\* were given up on, what the operator makes happen to a position is what the
\* credit line allows (PositionPhases, which CreditLine implements as well).
OnChain == INSTANCE PositionPhases

\* Every queued request is answered, whatever becomes of the ones before it.
RequestsAnswered ==
  \A r \in Requests : request[r].at = "queued" ~> request[r].at \in {"ok", "error"}
=================================================================================
