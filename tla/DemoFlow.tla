-------------------------------- MODULE DemoFlow --------------------------------
(***************************************************************************)
(* The demo flow: bootstrap, open, draw, repay and prove history, over one *)
(* stored snapshot (demo-flow.ts, repayment-history.ts).                   *)
(*                                                                         *)
(* A handler reads the snapshot, awaits proofs and transactions, and then  *)
(* writes the snapshot whole.  Two of the handlers (open, bootstrap) read  *)
(* it again before they write; three (draw, repay, history) write back     *)
(* what they read at the beginning.  Nothing keeps requests apart.         *)
(*                                                                         *)
(* Profiles, quotes and the contents of proofs are abstracted: whatever    *)
(* they make a handler refuse, it refuses in refuse().                     *)
(***************************************************************************)
EXTENDS Integers, Sequences, FiniteSets

CONSTANTS
  Clients,       \* who may have a request running; one request each
  PositionIds,   \* the random position ids of openDemoCredit
  AnchorTxs,     \* SEP-31 transaction ids
  None

LeavesPerPosition == 3

SepStatus == {"pending_sender", "pending_stellar", "completed"}

ASSUME DemoFlowAssumption == None \notin PositionIds \cup AnchorTxs \cup SepStatus

VARIABLES
  phase,      \* on chain: where each position is in its life
  seeded,     \* on chain: how many of its three leaves a position has
  rooted,     \* on chain: the positions with a history root
  proven,     \* on chain: the positions with a verified history
  late,       \* transactions given up on that the network may still include
  sep31,      \* table anchor_transactions: sep_status, None without a row
  snapshot,   \* table demo_state_snapshots, row SNAPSHOT_KEY
  request,    \* what each client's request is and how far it got
  strayed,    \* history: a request named another position than the snapshot
  smooth      \* history: requests came one by one, none ended half done

chainVars == <<phase, seeded, rooted, proven, late>>
vars == <<chainVars, sep31, snapshot, request, strayed, smooth>>

\* A section of the snapshot is represented by the position its transaction was
\* for.  quote, proof and open are always written together: one section.
DemoFlowSnapshot ==
  [positionId : PositionIds \cup {None}, anchorTransactionId : AnchorTxs \cup {None},
   open : PositionIds \cup {None}, draw : PositionIds \cup {None},
   repay : PositionIds \cup {None}, historyProof : PositionIds \cup {None}]

blankState ==
  [positionId |-> None, anchorTransactionId |-> None,
   open |-> None, draw |-> None, repay |-> None, historyProof |-> None]

\* What each handler awaits, in order: the participant sync, or transactions.
\* The proof jobs and the merge of balances change nothing that is modelled here:
\* a handler just stays longer at the await that follows.
Awaits ==
  [bootstrap |-> <<"sync">>, reset |-> <<"sync">>,
   open |-> <<"open">>,
   draw |-> <<"draw">>,
   repay |-> <<"repay">>,
   history |-> <<"seed1", "seed2", "seed3", "finalize", "verify">>]

Ops == DOMAIN Awaits

\* The handlers that write back the snapshot they read at the beginning.
WritesBack == {"draw", "repay", "history"}

\* The awaits that are transactions of this flow on the contracts modelled here.
Transactions == {"open", "draw", "repay", "seed1", "seed2", "seed3", "finalize", "verify"}

\* `current` is what the handler read of the snapshot when it began; `step` is
\* the await it is at, one more than there are when it is about to write.
Request ==
  [at : {"idle", "running", "ok", "error"}, op : Ops, step : 1 .. 6,
   positionId : PositionIds \cup {None}, anchorTransactionId : AnchorTxs \cup {None},
   current : DemoFlowSnapshot]

NoRequest ==
  [at |-> "idle", op |-> "reset", step |-> 1, positionId |-> None,
   anchorTransactionId |-> None, current |-> blankState]

TypeOK ==
  /\ phase \in [PositionIds -> {"none", "opened", "drawn", "repaid"}]
  /\ seeded \in [PositionIds -> 0 .. LeavesPerPosition]
  /\ rooted \subseteq PositionIds
  /\ proven \subseteq PositionIds
  /\ late \subseteq Transactions \X PositionIds
  /\ sep31 \in [AnchorTxs -> SepStatus \cup {None}]
  /\ snapshot \in DemoFlowSnapshot
  /\ request \in [Clients -> Request]
  /\ strayed \in BOOLEAN
  /\ smooth \in BOOLEAN

Init ==
  /\ phase = [p \in PositionIds |-> "none"]
  /\ seeded = [p \in PositionIds |-> 0]
  /\ rooted = {} /\ proven = {} /\ late = {}
  /\ sep31 = [a \in AnchorTxs |-> None]
  /\ snapshot = blankState
  /\ request = [c \in Clients |-> NoRequest]
  /\ strayed = FALSE
  /\ smooth = TRUE

Running(c) == request[c].at = "running"

\* input.positionId ?? current.positionId, and the same for the anchor's.
Or(input, stored) == IF input # None THEN input ELSE stored

-------------------------------------------------------------------------------
(* The chain: which transaction the contracts accept, and what it does.    *)

LeafNumber(tx) == CASE tx = "seed1" -> 1 [] tx = "seed2" -> 2 [] tx = "seed3" -> 3

\* Variant with a plausible bug: the registry takes a leaf that it has.
mut_accepted_leaf_again(tx, p) ==
  \/ tx = "open" /\ phase[p] = "none"
  \/ tx = "draw" /\ phase[p] = "opened"
  \/ tx = "repay" /\ phase[p] \in {"opened", "drawn"}
  \/ tx \in {"seed1", "seed2", "seed3"} /\ seeded[p] >= LeafNumber(tx) - 1
  \/ tx = "finalize" /\ seeded[p] = LeavesPerPosition
  \/ tx = "verify" /\ p \in rooted

\* The fixture derives the same three leaves for a position every time, and the
\* registry accepts a leaf once.
accepted(tx, p) ==
  \/ tx = "open" /\ phase[p] = "none"
  \/ tx = "draw" /\ phase[p] = "opened"
  \/ tx = "repay" /\ phase[p] \in {"opened", "drawn"}
  \/ tx \in {"seed1", "seed2", "seed3"} /\ seeded[p] = LeafNumber(tx) - 1
  \/ tx = "finalize" /\ seeded[p] = LeavesPerPosition
  \/ tx = "verify" /\ p \in rooted

PhaseAfter(tx) == CASE tx = "open" -> "opened" [] tx = "draw" -> "drawn" [] tx = "repay" -> "repaid"

take_effect(tx, p) ==
  /\ accepted(tx, p)
  /\ phase' = IF tx \in {"open", "draw", "repay"}
              THEN [phase EXCEPT ![p] = PhaseAfter(tx)] ELSE phase
  /\ seeded' = IF tx \in {"seed1", "seed2", "seed3"}
               THEN [seeded EXCEPT ![p] = LeafNumber(tx)] ELSE seeded
  /\ rooted' = IF tx = "finalize" THEN rooted \cup {p} ELSE rooted
  /\ proven' = IF tx = "verify" THEN proven \cup {p} ELSE proven

\* A transaction the process stopped watching (30 seconds) lands all the same.
land_late(tx, p) ==
  /\ <<tx, p>> \in late
  /\ take_effect(tx, p)
  /\ late' = late \ {<<tx, p>>}
  /\ UNCHANGED <<sep31, snapshot, request, strayed, smooth>>

-------------------------------------------------------------------------------
(* A request begins: the handler up to its first await.                    *)

\* Nobody else's request is running.
Alone(c) == \A d \in Clients \ {c} : ~Running(d)

begin(c, op, p, a) ==
  /\ request[c].at = "idle"
  /\ request' = [request EXCEPT ![c] =
       [at |-> "running", op |-> op, step |-> 1, positionId |-> p,
        anchorTransactionId |-> a,
        current |-> IF op \in WritesBack THEN snapshot ELSE blankState]]
  /\ smooth' = (smooth /\ Alone(c))

\* createSep31Transaction: the row is there, and its sep_status set back.
createSep31Transaction(a) == sep31' = [sep31 EXCEPT ![a] = "pending_sender"]

bootstrapDemoFlow(c, a) ==
  /\ begin(c, "bootstrap", None, a)
  /\ createSep31Transaction(a)
  /\ UNCHANGED <<chainVars, snapshot, strayed>>

\* The blank snapshot is stored before anything is awaited.
resetDemoFlow(c, a) ==
  /\ begin(c, "reset", None, a)
  /\ createSep31Transaction(a)
  /\ snapshot' = [blankState EXCEPT !.anchorTransactionId = a]
  /\ UNCHANGED <<chainVars, strayed>>

\* The position id is drawn at random: one nobody has used.
Fresh(p) ==
  /\ phase[p] = "none"
  /\ <<"open", p>> \notin late
  /\ \A c \in Clients : request[c].positionId # p

openDemoCredit(c, p, a) ==
  /\ Fresh(p)
  /\ begin(c, "open", p, a)
  /\ UNCHANGED <<chainVars, sep31, snapshot, strayed>>

\* What draw, repay and history do with the position a client may name.
resolve(c, op, input, a) ==
  /\ Or(input, snapshot.positionId) # None
  /\ begin(c, op, Or(input, snapshot.positionId), a)
  /\ strayed' = (strayed \/ input \notin {None, snapshot.positionId})

\* The commitment the draw must repeat is that of the stored proof.
drawDemoCredit(c, input, a) ==
  /\ snapshot.open # None
  /\ resolve(c, "draw", input, Or(a, snapshot.anchorTransactionId))
  /\ UNCHANGED <<chainVars, sep31, snapshot>>

repayDemoCredit(c, input, a) ==
  /\ resolve(c, "repay", input, Or(a, snapshot.anchorTransactionId))
  /\ UNCHANGED <<chainVars, sep31, snapshot>>

\* A history already shown as verified is answered at once.
proveDemoRepaymentHistory(c, input) ==
  /\ snapshot.repay # None
  /\ \/ /\ snapshot.historyProof = None
        /\ resolve(c, "history", input, None)
     \/ /\ snapshot.historyProof # None
        /\ request[c].at = "idle"
        /\ request' = [request EXCEPT ![c].at = "ok"]
        /\ UNCHANGED <<strayed, smooth>>
  /\ UNCHANGED <<chainVars, sep31, snapshot>>

-------------------------------------------------------------------------------
(* A request goes on: its awaits, one after the other.                     *)

AwaitsOf(c) == Awaits[request[c].op]
Awaiting(c) == Running(c) /\ request[c].step <= Len(AwaitsOf(c))
AtWrite(c) == Running(c) /\ request[c].step > Len(AwaitsOf(c))

\* The transaction a request is at, as a set of at most one.
Submitted(c) ==
  IF Awaiting(c) /\ AwaitsOf(c)[request[c].step] \in Transactions
  THEN {<<AwaitsOf(c)[request[c].step], request[c].positionId>>} ELSE {}

\* Variant with a plausible bug: the handler goes on when it stops watching.
mut_succeed_unseen(c) ==
  /\ Awaiting(c)
  /\ late' = late \cup Submitted(c)
  /\ request' = [request EXCEPT ![c].step = @ + 1]
  /\ UNCHANGED <<phase, seeded, rooted, proven, sep31, snapshot, strayed, smooth>>

\* The await returns: the transaction was seen to succeed.
succeed(c) ==
  /\ Awaiting(c)
  /\ IF Submitted(c) = {} THEN UNCHANGED <<phase, seeded, rooted, proven>>
     ELSE \A t \in Submitted(c) : take_effect(t[1], t[2])
  /\ request' = [request EXCEPT ![c].step = @ + 1]
  /\ UNCHANGED <<late, sep31, snapshot, strayed, smooth>>

\* The request is answered; the answer to an open names the position.
answer(c, at, p) ==
  request' = [request EXCEPT ![c] = [NoRequest EXCEPT !.at = at, !.positionId = p]]

\* The await throws and nothing came of it; participant sync never throws.
refuse(c) ==
  /\ Awaiting(c) /\ request[c].op \notin {"bootstrap", "reset"}
  /\ answer(c, "error", None)
  /\ smooth' = (smooth /\ (request[c].op = "history" => request[c].step = 1))
  /\ UNCHANGED <<chainVars, sep31, snapshot, strayed>>

\* The transaction was sent and not seen to succeed in time.
give_up(c) ==
  /\ Submitted(c) # {}
  /\ late' = late \cup Submitted(c)
  /\ answer(c, "error", None)
  /\ smooth' = FALSE
  /\ UNCHANGED <<phase, seeded, rooted, proven, sep31, snapshot, strayed>>

\* The process dies with everything it was doing.
crash ==
  /\ \E c \in Clients : Running(c)
  /\ late' = late \cup UNION {Submitted(c) : c \in Clients}
  /\ request' = [c \in Clients |->
       IF Running(c) THEN [NoRequest EXCEPT !.at = "error"] ELSE request[c]]
  /\ smooth' = FALSE
  /\ UNCHANGED <<phase, seeded, rooted, proven, sep31, snapshot, strayed>>

-------------------------------------------------------------------------------
(* A request ends: what the handler writes after its last await.           *)

\* Open and bootstrap write over the snapshot as it is now.
write_bootstrap(c) ==
  /\ AtWrite(c) /\ request[c].op \in {"bootstrap", "reset"}
  /\ snapshot' = [snapshot EXCEPT !.anchorTransactionId = request[c].anchorTransactionId]
  /\ answer(c, "ok", None)
  /\ UNCHANGED <<chainVars, sep31, strayed, smooth>>

\* Variant with a plausible bug: the sections of the last position stay.
mut_cleared(s) == s

\* The sections of another position go.
cleared(s) == [s EXCEPT !.draw = None, !.repay = None, !.historyProof = None]

write_open(c) ==
  LET p == request[c].positionId IN
  /\ AtWrite(c) /\ request[c].op = "open"
  /\ snapshot' = [cleared(snapshot) EXCEPT !.positionId = p, !.open = p,
       !.anchorTransactionId = request[c].anchorTransactionId]
  /\ answer(c, "ok", p)
  /\ UNCHANGED <<chainVars, sep31, strayed, smooth>>

\* Variant with a plausible bug: the handlers read the snapshot again, as open
\* does, though it may be about another position by now.
mut_written_over(c) == snapshot

\* Draw, repay and history write over the snapshot as they read it.
written_over(c) == request[c].current

\* executeDraw marks the SEP-31 transaction, and throws when nobody knows it:
\* then the snapshot is not written, though the draw took effect.
settle(c, status) ==
  LET a == request[c].anchorTransactionId IN
  /\ a # None => sep31[a] # None
  /\ sep31' = [b \in AnchorTxs |-> IF b = a THEN status ELSE sep31[b]]

write_draw(c) ==
  /\ AtWrite(c) /\ request[c].op = "draw"
  /\ settle(c, "pending_stellar")
  /\ snapshot' = [written_over(c) EXCEPT
       !.positionId = request[c].positionId, !.draw = request[c].positionId,
       !.anchorTransactionId = request[c].anchorTransactionId]
  /\ answer(c, "ok", None)
  /\ UNCHANGED <<chainVars, strayed, smooth>>

write_repay(c) ==
  /\ AtWrite(c) /\ request[c].op = "repay"
  /\ settle(c, "completed")
  /\ snapshot' = [written_over(c) EXCEPT
       !.positionId = request[c].positionId, !.repay = request[c].positionId,
       !.anchorTransactionId = request[c].anchorTransactionId]
  /\ answer(c, "ok", None)
  /\ UNCHANGED <<chainVars, strayed, smooth>>

write_history(c) ==
  /\ AtWrite(c) /\ request[c].op = "history"
  /\ snapshot' = [written_over(c) EXCEPT
       !.positionId = request[c].positionId, !.historyProof = request[c].positionId]
  /\ answer(c, "ok", None)
  /\ UNCHANGED <<chainVars, sep31, strayed, smooth>>

\* Nobody knows the SEP-31 transaction.
throw_at_settlement(c) ==
  LET a == request[c].anchorTransactionId IN
  /\ AtWrite(c) /\ request[c].op \in {"draw", "repay"}
  /\ a # None /\ sep31[a] = None
  /\ answer(c, "error", None)
  /\ smooth' = FALSE
  /\ UNCHANGED <<chainVars, sep31, snapshot, strayed>>

\* The client has the answer and may ask again.
take_answer(c) ==
  /\ request[c].at \in {"ok", "error"}
  /\ request' = [request EXCEPT ![c] = NoRequest]
  /\ UNCHANGED <<chainVars, sep31, snapshot, strayed, smooth>>

-------------------------------------------------------------------------------

\* One step of the handler's own.
HandlerStep(c) ==
  \/ succeed(c) \/ refuse(c) \/ give_up(c)
  \/ write_bootstrap(c) \/ write_open(c) \/ write_draw(c) \/ write_repay(c)
  \/ write_history(c) \/ throw_at_settlement(c)

\* What happens to a request without the client.
ServerStep ==
  \/ \E c \in Clients : HandlerStep(c)
  \/ \E t \in late : land_late(t[1], t[2])
  \/ crash

\* Positions a client can know of.
Known == {p \in PositionIds : phase[p] # "none"}

\* What a client may ask: any anchor transaction id, any position there is.
Ask(c) ==
  \/ \E a \in AnchorTxs : bootstrapDemoFlow(c, a) \/ resetDemoFlow(c, a)
  \/ \E a \in AnchorTxs \cup {None} :
       \/ \E p \in PositionIds : openDemoCredit(c, p, a)
       \/ \E p \in Known \cup {None} : drawDemoCredit(c, p, a) \/ repayDemoCredit(c, p, a)
  \/ \E p \in Known \cup {None} : proveDemoRepaymentHistory(c, p)

Next ==
  \/ \E c \in Clients : Ask(c) \/ take_answer(c)
  \/ ServerStep

Spec == Init /\ [][Next]_vars

-------------------------------------------------------------------------------
(* What makes the flow correct.                                            *)

\* Whatever requests overlap, are lost or land late, the snapshot shows nothing
\* that did not happen on chain: each section is of a position it is true of,
\* and a SEP-31 transaction is completed only once a position was repaid.
SnapshotBackedByChain ==
  /\ snapshot.open # None => phase[snapshot.open] # "none"
  /\ snapshot.draw # None => phase[snapshot.draw] \in {"drawn", "repaid"}
  /\ snapshot.repay # None => phase[snapshot.repay] = "repaid"
  /\ snapshot.historyProof # None => snapshot.historyProof \in proven
  /\ \A a \in AnchorTxs : sep31[a] = "completed" => \E p \in PositionIds : phase[p] = "repaid"

\* As long as no request names another position than the snapshot it read, the
\* sections of the snapshot are all of its one position: requests may undo one
\* another's writes, they never mix two positions.
SnapshotOfOnePosition ==
  strayed \/ {snapshot.open, snapshot.draw, snapshot.repay, snapshot.historyProof}
               \subseteq {snapshot.positionId, None}

\* As long as requests come one by one and none ends half done, the snapshot
\* is not behind the chain either, once the last one is answered: what
\* happened to its position is what it shows.
SnapshotComplete ==
  LET p == snapshot.positionId IN
  (smooth /\ ~strayed /\ p # None /\ \A c \in Clients : ~Running(c)) =>
    /\ phase[p] = IF snapshot.repay # None THEN "repaid"
                  ELSE IF snapshot.draw # None THEN "drawn" ELSE "opened"
    /\ p \in proven <=> snapshot.historyProof # None

\* The sections a snapshot has.
Shown(s) == {f \in {"open", "draw", "repay", "historyProof"} : s[f] # None}

\* As long as requests come one by one and none ends half done, no request takes
\* a section away from the position the snapshot is of: the handlers that write
\* the snapshot whole lose nothing of it.
NothingForgotten ==
  [][(smooth' /\ ~strayed' /\ snapshot.positionId # None
      /\ snapshot'.positionId = snapshot.positionId) =>
       Shown(snapshot) \subseteq Shown(snapshot')]_vars

\* Whatever overlaps, is lost or lands late, what the flow makes happen to a
\* position on chain is what the credit line allows, and what it puts on record
\* of its repayments is what the registry allows: PositionPhases, which CreditLine
\* implements as well, and HistoryRecord, which RepaymentHistory implements.
OnChain == INSTANCE PositionPhases
Registry == INSTANCE HistoryRecord WITH filed <- seeded
ChainInOrder == OnChain!Spec /\ Registry!Spec

\* What Disclosure assumes of the flow.
View == INSTANCE FlowView WITH
  shown <- [positionId |-> snapshot.positionId, historyProof |-> snapshot.historyProof]
================================================================================
