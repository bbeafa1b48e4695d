----------------------------- MODULE DemoFlowProofs -----------------------------
(***************************************************************************)
(* The snapshot of the demo flow, for any number of clients, positions and *)
(* SEP-31 transactions: it is well typed, it shows nothing that did not    *)
(* happen on chain, it is about one position, and it is not behind the     *)
(* chain when requests come one by one.  And the pages over it: they are   *)
(* clients of the flow like any other, and what they say has happened.     *)
(*                                                                         *)
(* A handler carries the snapshot it read until it writes it back, a page  *)
(* keeps a copy and awaits another, so each invariant speaks of all these  *)
(* places.  What is about to be written or shown has happened because the  *)
(* last await has returned, and nothing on chain is taken back.            *)
(*                                                                         *)
(* What the flow does on chain is a behaviour of PositionPhases and of     *)
(* HistoryRecord, the abstractions the contracts implement too; a late     *)
(* transaction that the contracts would refuse leaves both as they are.    *)
(***************************************************************************)
EXTENDS Console, TLAPS

\* The handlers that touch no position.
Positionless == {"bootstrap", "reset"}

\* A handler about a position knows which, and is at an await or past the last.
Shaped ==
  \A c \in Clients : Running(c) =>
    /\ request[c].op \notin Positionless => request[c].positionId \in PositionIds
    /\ request[c].step <= Len(AwaitsOf(c)) + 1

IType == TypeOK /\ Shaped

\* What the handlers await.
LEMMA AwaitsAre ==
  /\ Ops = {"bootstrap", "reset", "open", "draw", "repay", "history"}
  /\ Awaits["bootstrap"] = <<"sync">> /\ Awaits["reset"] = <<"sync">>
  /\ Awaits["open"] = <<"open">> /\ Awaits["draw"] = <<"draw">> /\ Awaits["repay"] = <<"repay">>
  /\ Awaits["history"] = <<"seed1", "seed2", "seed3", "finalize", "verify">>
  BY DEF Ops, Awaits

LEMMA AwaitsAreTransactions ==
  ASSUME NEW op \in Ops
  PROVE  /\ Len(Awaits[op]) \in 1 .. 5
         /\ \A i \in 1 .. Len(Awaits[op]) :
              Awaits[op][i] \in Transactions => op \notin Positionless
<1>1. CASE op \in Positionless
  <2>1. Awaits[op] = <<"sync">>
    BY <1>1, AwaitsAre DEF Positionless
  <2>. QED  BY <2>1 DEF Transactions
<1>2. CASE op \in {"open", "draw", "repay"}
  <2>1. Awaits[op] = <<op>>
    BY <1>2, AwaitsAre
  <2>. QED  BY <1>2, <2>1 DEF Positionless
<1>3. CASE op = "history"
  <2>1. Awaits[op] = <<"seed1", "seed2", "seed3", "finalize", "verify">>
    BY <1>3, AwaitsAre
  <2>. QED  BY <1>3, <2>1 DEF Positionless
<1>. QED  BY <1>1, <1>2, <1>3, AwaitsAre DEF Positionless

LEMMA BlankTyped == blankState \in DemoFlowSnapshot /\ NoRequest \in Request
  BY AwaitsAre DEF blankState, DemoFlowSnapshot, NoRequest, Request

-------------------------------------------------------------------------------
(* Types.                                                                  *)

\* The first type of everything.
LEMMA TypeInit == Init => IType
<1>. SUFFICES ASSUME Init PROVE IType
  OBVIOUS
<1>1. \A c \in Clients : ~Running(c)
  BY DEF Init, Running, NoRequest
<1>2. request \in [Clients -> Request] /\ snapshot \in DemoFlowSnapshot
  BY BlankTyped DEF Init
<1>3. strayed \in BOOLEAN /\ smooth \in BOOLEAN
  BY DEF Init
<1>4. /\ phase \in [PositionIds -> {"none", "opened", "drawn", "repaid"}]
      /\ seeded \in [PositionIds -> 0 .. LeavesPerPosition]
      /\ sep31 \in [AnchorTxs -> SepStatus \cup {None}]
      /\ rooted = {} /\ proven = {} /\ late = {}
  BY DEF Init, LeavesPerPosition
<1>5. TypeOK
  BY <1>2, <1>3, <1>4 DEF TypeOK
<1>. QED  BY <1>1, <1>5 DEF IType, Shaped

\* A request that begins.
LEMMA BeginTyped ==
  ASSUME IType, NEW c \in Clients, NEW op \in Ops,
         NEW p \in PositionIds \cup {None}, NEW a \in AnchorTxs \cup {None},
         op \notin Positionless => p \in PositionIds,
         begin(c, op, p, a)
  PROVE  request' \in [Clients -> Request] /\ Shaped' /\ smooth' \in BOOLEAN
<1> DEFINE r == [at |-> "running", op |-> op, step |-> 1, positionId |-> p,
                 anchorTransactionId |-> a,
                 current |-> IF op \in WritesBack THEN snapshot ELSE blankState]
<1>1. request' = [request EXCEPT ![c] = r] /\ smooth' \in BOOLEAN
  BY DEF begin, IType, TypeOK
<1>2. r \in Request
  BY BlankTyped DEF Request, IType, TypeOK
<1>3. request' \in [Clients -> Request]
  BY <1>1, <1>2 DEF IType, TypeOK
<1>4. Shaped'
  BY <1>1, AwaitsAreTransactions DEF IType, TypeOK, Shaped, Running, AwaitsOf
<1>. QED  BY <1>1, <1>3, <1>4

\* A request that is answered.
LEMMA AnswerTyped ==
  ASSUME IType, NEW c \in Clients, NEW at \in {"ok", "error"}, NEW p \in PositionIds \cup {None},
         answer(c, at, p)
  PROVE  request' \in [Clients -> Request] /\ Shaped'
<1>1. [NoRequest EXCEPT !.at = at, !.positionId = p] \in Request
  BY BlankTyped DEF Request
<1>2. request' \in [Clients -> Request]
  BY <1>1 DEF answer, IType, TypeOK
<1>3. Shaped'
  <2>1. request'[c].at = at /\ \A d \in Clients \ {c} : request'[d] = request[d]
    BY DEF answer, IType, TypeOK, NoRequest
  <2>. QED  BY <2>1 DEF IType, Shaped, Running, AwaitsOf
<1>. QED  BY <1>2, <1>3

\* A transaction that takes effect.
LEMMA EffectTyped ==
  ASSUME IType, NEW tx \in Transactions, NEW p \in PositionIds, take_effect(tx, p)
  PROVE  /\ phase' \in [PositionIds -> {"none", "opened", "drawn", "repaid"}]
         /\ seeded' \in [PositionIds -> 0 .. LeavesPerPosition]
         /\ rooted' \subseteq PositionIds /\ proven' \subseteq PositionIds
  BY DEF take_effect, IType, TypeOK, PhaseAfter, LeafNumber, LeavesPerPosition, Transactions

\* The transaction a request is at.
LEMMA SubmittedTyped ==
  ASSUME IType, NEW c \in Clients
  PROVE  Submitted(c) \subseteq Transactions \X PositionIds
<1>1. CASE Submitted(c) = {}
  BY <1>1
<1>2. CASE Submitted(c) # {}
  <2>1. /\ Awaiting(c) /\ AwaitsOf(c)[request[c].step] \in Transactions
        /\ Submitted(c) = {<<AwaitsOf(c)[request[c].step], request[c].positionId>>}
    BY <1>2 DEF Submitted
  <2>2. request[c].op \in Ops /\ request[c].step \in 1 .. Len(Awaits[request[c].op])
    BY <2>1, AwaitsAreTransactions DEF Awaiting, AwaitsOf, IType, TypeOK, Request
  <2>3. request[c].positionId \in PositionIds
    BY <2>1, <2>2, AwaitsAreTransactions DEF IType, Shaped, Awaiting, AwaitsOf
  <2>. QED  BY <2>1, <2>3
<1>. QED  BY <1>1, <1>2

\* A snapshot that is written.
LEMMA WrittenTyped ==
  ASSUME IType, NEW c \in Clients, Running(c)
  PROVE  /\ request[c].current \in DemoFlowSnapshot
         /\ request[c].op \in Ops /\ request[c].step \in 1 .. 6
         /\ request[c].positionId \in PositionIds \cup {None}
         /\ request[c].anchorTransactionId \in AnchorTxs \cup {None}
         /\ request[c].op \notin Positionless => request[c].positionId \in PositionIds
  BY DEF IType, TypeOK, Shaped, Request

-------------------------------------------------------------------------------
(* Every step keeps the types: requests that begin.                        *)

LEMMA AskTyped ==
  ASSUME IType, NEW c \in Clients, Ask(c)
  PROVE  IType'
<1>1. ASSUME NEW a \in AnchorTxs, bootstrapDemoFlow(c, a)
      PROVE  IType'
  <2>1. request' \in [Clients -> Request] /\ Shaped' /\ smooth' \in BOOLEAN
    BY <1>1, BeginTyped, AwaitsAre DEF bootstrapDemoFlow, Positionless
  <2>. QED  BY <1>1, <2>1 DEF bootstrapDemoFlow, createSep31Transaction, SepStatus, chainVars,
                              IType, TypeOK
<1>2. ASSUME NEW a \in AnchorTxs, resetDemoFlow(c, a)
      PROVE  IType'
  <2>1. request' \in [Clients -> Request] /\ Shaped' /\ smooth' \in BOOLEAN
    BY <1>2, BeginTyped, AwaitsAre DEF resetDemoFlow, Positionless
  <2>2. snapshot' \in DemoFlowSnapshot
    BY <1>2, BlankTyped DEF resetDemoFlow, DemoFlowSnapshot
  <2>. QED  BY <1>2, <2>1, <2>2 DEF resetDemoFlow, createSep31Transaction, SepStatus, chainVars,
                                    IType, TypeOK
<1>3. ASSUME NEW a \in AnchorTxs \cup {None}, NEW p \in PositionIds, openDemoCredit(c, p, a)
      PROVE  IType'
  <2>1. request' \in [Clients -> Request] /\ Shaped' /\ smooth' \in BOOLEAN
    BY <1>3, BeginTyped, AwaitsAre DEF openDemoCredit
  <2>. QED  BY <1>3, <2>1 DEF openDemoCredit, chainVars, IType, TypeOK
<1>4. ASSUME NEW op \in {"draw", "repay", "history"}, NEW input \in Known \cup {None},
             NEW a \in AnchorTxs \cup {None}, resolve(c, op, input, a),
             UNCHANGED <<chainVars, sep31, snapshot>>
      PROVE  IType'
  <2>1. Or(input, snapshot.positionId) \in PositionIds
    BY <1>4 DEF resolve, Or, Known, IType, TypeOK, DemoFlowSnapshot
  <2>2. request' \in [Clients -> Request] /\ Shaped' /\ smooth' \in BOOLEAN
    BY <1>4, <2>1, BeginTyped, AwaitsAre DEF resolve
  <2>. QED  BY <1>4, <2>2 DEF resolve, chainVars, IType, TypeOK
<1>5. \A a \in AnchorTxs \cup {None} : Or(a, snapshot.anchorTransactionId) \in AnchorTxs \cup {None}
  BY DEF Or, IType, TypeOK, DemoFlowSnapshot
<1>6. ASSUME NEW a \in AnchorTxs \cup {None}, NEW p \in Known \cup {None},
             drawDemoCredit(c, p, a) \/ repayDemoCredit(c, p, a)
      PROVE  IType'
  BY <1>4, <1>5, <1>6 DEF drawDemoCredit, repayDemoCredit
<1>7. ASSUME NEW p \in Known \cup {None}, proveDemoRepaymentHistory(c, p)
      PROVE  IType'
  <2>1. CASE resolve(c, "history", p, None)
    BY <1>4, <1>7, <2>1 DEF proveDemoRepaymentHistory
  <2>2. CASE /\ request[c].at = "idle" /\ request' = [request EXCEPT ![c].at = "ok"]
             /\ UNCHANGED <<strayed, smooth>>
    <3>1. request' \in [Clients -> Request]
      BY <2>2 DEF IType, TypeOK, Request
    <3>2. Shaped'
      BY <2>2 DEF IType, TypeOK, Shaped, Running, AwaitsOf
    <3>. QED  BY <1>7, <2>2, <3>1, <3>2 DEF proveDemoRepaymentHistory, chainVars, IType, TypeOK
  <2>. QED  BY <1>7, <2>1, <2>2 DEF proveDemoRepaymentHistory
<1>. QED  BY <1>1, <1>2, <1>3, <1>6, <1>7 DEF Ask

-------------------------------------------------------------------------------
(* Every step keeps the types: requests that go on.                        *)

LEMMA SucceedTyped ==
  ASSUME IType, NEW c \in Clients, succeed(c)
  PROVE  IType'
<1>1. /\ Awaiting(c) /\ request' = [request EXCEPT ![c].step = @ + 1]
      /\ UNCHANGED <<late, sep31, snapshot, strayed, smooth>>
  BY DEF succeed
<1>2. request[c].op \in Ops /\ request[c].step \in 1 .. 5 /\ Len(AwaitsOf(c)) \in 1 .. 5
  BY <1>1, WrittenTyped, AwaitsAreTransactions DEF Awaiting, AwaitsOf
<1>3. request' \in [Clients -> Request]
  BY <1>1, <1>2 DEF IType, TypeOK, Request
<1>4. Shaped'
  BY <1>1, <1>2 DEF IType, TypeOK, Shaped, Running, AwaitsOf, Awaiting
<1>5. /\ phase' \in [PositionIds -> {"none", "opened", "drawn", "repaid"}]
      /\ seeded' \in [PositionIds -> 0 .. LeavesPerPosition]
      /\ rooted' \subseteq PositionIds /\ proven' \subseteq PositionIds
  <2>1. CASE Submitted(c) = {}
    BY <2>1 DEF succeed, IType, TypeOK
  <2>2. CASE Submitted(c) # {}
    <3>1. PICK t \in Submitted(c) : take_effect(t[1], t[2])
      BY <2>2 DEF succeed
    <3>2. t[1] \in Transactions /\ t[2] \in PositionIds
      BY <3>1, SubmittedTyped
    <3>. QED  BY <3>1, <3>2, EffectTyped
  <2>. QED  BY <2>1, <2>2
<1>. QED  BY <1>1, <1>3, <1>4, <1>5 DEF IType, TypeOK

LEMMA LandLateTyped ==
  ASSUME IType, NEW t \in late, land_late(t[1], t[2])
  PROVE  IType'
<1>1. t[1] \in Transactions /\ t[2] \in PositionIds
  BY DEF IType, TypeOK
<1>2. /\ phase' \in [PositionIds -> {"none", "opened", "drawn", "repaid"}]
      /\ seeded' \in [PositionIds -> 0 .. LeavesPerPosition]
      /\ rooted' \subseteq PositionIds /\ proven' \subseteq PositionIds
  BY <1>1, EffectTyped DEF land_late
<1>3. Shaped'
  BY DEF land_late, IType, Shaped, Running, AwaitsOf
<1>. QED  BY <1>2, <1>3 DEF land_late, IType, TypeOK

LEMMA CrashTyped ==
  ASSUME IType, crash
  PROVE  IType'
<1>1. late' \subseteq Transactions \X PositionIds
  BY SubmittedTyped DEF crash, IType, TypeOK
<1>2. [NoRequest EXCEPT !.at = "error"] \in Request
  BY BlankTyped DEF Request
<1>3. request' \in [Clients -> Request]
  BY <1>2 DEF crash, IType, TypeOK
<1>4. \A c \in Clients : ~Running(c)'
  BY DEF crash, Running, NoRequest
<1>. QED  BY <1>1, <1>3, <1>4 DEF crash, IType, TypeOK, Shaped

-------------------------------------------------------------------------------
(* Every step keeps the types: requests that end.                          *)

\* Nothing but the request changes, and what a handler writes.
LEMMA EndTyped ==
  ASSUME IType, NEW c \in Clients, NEW at \in {"ok", "error"}, NEW p \in PositionIds \cup {None},
         answer(c, at, p), UNCHANGED <<phase, seeded, rooted, proven, strayed>>,
         late' \subseteq Transactions \X PositionIds,
         sep31' \in [AnchorTxs -> SepStatus \cup {None}],
         snapshot' \in DemoFlowSnapshot, smooth' \in BOOLEAN
  PROVE  IType'
  BY AnswerTyped DEF IType, TypeOK

LEMMA FailTyped ==
  ASSUME IType, NEW c \in Clients, refuse(c) \/ give_up(c) \/ throw_at_settlement(c)
  PROVE  IType'
<1>1. /\ answer(c, "error", None) /\ UNCHANGED <<phase, seeded, rooted, proven, strayed>>
      /\ UNCHANGED <<sep31, snapshot>> /\ smooth' \in BOOLEAN
  BY DEF refuse, give_up, throw_at_settlement, chainVars, IType, TypeOK
<1>2. late' \subseteq Transactions \X PositionIds
  BY SubmittedTyped DEF refuse, give_up, throw_at_settlement, chainVars, IType, TypeOK
<1>. QED  BY <1>1, <1>2, EndTyped DEF IType, TypeOK

LEMMA WriteTyped ==
  ASSUME IType, NEW c \in Clients,
         \/ write_bootstrap(c) \/ write_open(c) \/ write_draw(c) \/ write_repay(c)
         \/ write_history(c)
  PROVE  IType'
<1>. DEFINE p == request[c].positionId
            a == request[c].anchorTransactionId
<1>1. AtWrite(c) /\ Running(c)
  BY DEF write_bootstrap, write_open, write_draw, write_repay, write_history, AtWrite
<1>2. /\ request[c].current \in DemoFlowSnapshot
      /\ a \in AnchorTxs \cup {None} /\ p \in PositionIds \cup {None}
      /\ request[c].op \notin Positionless => p \in PositionIds
      /\ snapshot \in DemoFlowSnapshot /\ smooth \in BOOLEAN
      /\ late \subseteq Transactions \X PositionIds
      /\ sep31 \in [AnchorTxs -> SepStatus \cup {None}]
  BY <1>1, WrittenTyped DEF IType, TypeOK
<1>3. CASE write_bootstrap(c)
  <2>1. snapshot' \in DemoFlowSnapshot
    BY <1>2, <1>3 DEF write_bootstrap, DemoFlowSnapshot
  <2>. QED  BY <1>2, <1>3, <2>1, EndTyped DEF write_bootstrap, chainVars
<1>4. CASE write_open(c)
  <2>1. snapshot' \in DemoFlowSnapshot
    BY <1>2, <1>4 DEF write_open, cleared, DemoFlowSnapshot
  <2>2. answer(c, "ok", p)
    BY <1>4 DEF write_open
  <2>. QED  BY <1>2, <1>4, <2>1, <2>2, EndTyped DEF write_open, chainVars
<1>5. CASE write_draw(c)
  <2>1. snapshot' \in DemoFlowSnapshot
    BY <1>2, <1>5 DEF write_draw, written_over, DemoFlowSnapshot
  <2>2. sep31' \in [AnchorTxs -> SepStatus \cup {None}]
    BY <1>2, <1>5 DEF write_draw, settle, SepStatus
  <2>. QED  BY <1>2, <1>5, <2>1, <2>2, EndTyped DEF write_draw, chainVars
<1>6. CASE write_repay(c)
  <2>1. snapshot' \in DemoFlowSnapshot
    BY <1>2, <1>6 DEF write_repay, written_over, DemoFlowSnapshot
  <2>2. sep31' \in [AnchorTxs -> SepStatus \cup {None}]
    BY <1>2, <1>6 DEF write_repay, settle, SepStatus
  <2>. QED  BY <1>2, <1>6, <2>1, <2>2, EndTyped DEF write_repay, chainVars
<1>7. CASE write_history(c)
  <2>1. snapshot' \in DemoFlowSnapshot
    BY <1>2, <1>7 DEF write_history, written_over, DemoFlowSnapshot
  <2>. QED  BY <1>2, <1>7, <2>1, EndTyped DEF write_history, chainVars
<1>. QED  BY <1>3, <1>4, <1>5, <1>6, <1>7

LEMMA TakeAnswerTyped ==
  ASSUME IType, NEW c \in Clients, take_answer(c)
  PROVE  IType'
<1>1. request' \in [Clients -> Request]
  BY BlankTyped DEF take_answer, IType, TypeOK
<1>2. Shaped'
  BY DEF take_answer, IType, TypeOK, Shaped, Running, AwaitsOf, NoRequest
<1>. QED  BY <1>1, <1>2 DEF take_answer, chainVars, IType, TypeOK

LEMMA TypeNext == IType /\ [Next]_vars => IType'
<1>. SUFFICES ASSUME IType, [Next]_vars PROVE IType'
  OBVIOUS
<1>1. ASSUME NEW c \in Clients, HandlerStep(c)
      PROVE  IType'
  BY <1>1, SucceedTyped, FailTyped, WriteTyped DEF HandlerStep
<1>2. CASE UNCHANGED vars
  BY <1>2 DEF vars, chainVars, IType, TypeOK, Shaped, Running, AwaitsOf
<1>. QED  BY <1>1, <1>2, AskTyped, TakeAnswerTyped, LandLateTyped, CrashTyped DEF Next, ServerStep

\* Every reachable state of the flow is well typed, however many clients, positions
\* and SEP-31 transactions there are; and a handler past its last await knows
\* what it is about (demo-flow.ts).
THEOREM FlowTyped == Spec => []IType
  BY TypeInit, TypeNext, PTL DEF Spec

-------------------------------------------------------------------------------
(* What is shown has happened.                                             *)

\* What a snapshot s shows has happened on chain.
Backed(s) ==
  /\ s.open # None => phase[s.open] # "none"
  /\ s.draw # None => phase[s.draw] \in {"drawn", "repaid"}
  /\ s.repay # None => phase[s.repay] = "repaid"
  /\ s.historyProof # None => s.historyProof \in proven

\* What a handler about position p will add to the snapshot has happened.
Happened(op, p) ==
  /\ op = "open" => phase[p] # "none"
  /\ op = "draw" => phase[p] \in {"drawn", "repaid"}
  /\ op = "repay" => phase[p] = "repaid"
  /\ op = "history" => p \in proven

CarriedBacked == \A c \in Clients : Running(c) => Backed(request[c].current)
WritesHappened == \A c \in Clients : AtWrite(c) => Happened(request[c].op, request[c].positionId)
CompletedRepaid ==
  \A a \in AnchorTxs : sep31[a] = "completed" => \E p \in PositionIds : phase[p] = "repaid"

IBacked == Backed(snapshot) /\ CarriedBacked /\ WritesHappened /\ CompletedRepaid

\* Nothing on chain is taken back.
Kept ==
  /\ \A p \in PositionIds :
       /\ phase[p] # "none" => phase'[p] # "none"
       /\ phase[p] \in {"drawn", "repaid"} => phase'[p] \in {"drawn", "repaid"}
       /\ phase[p] = "repaid" => phase'[p] = "repaid"
  /\ proven \subseteq proven'

LEMMA BackedStays ==
  ASSUME Kept, NEW s \in DemoFlowSnapshot, Backed(s)
  PROVE  Backed(s)'
  BY DEF Kept, Backed, DemoFlowSnapshot

LEMMA HappenedStays ==
  ASSUME Kept, NEW op, NEW p \in PositionIds, Happened(op, p)
  PROVE  Happened(op, p)'
  BY DEF Kept, Happened

LEMMA CompletedStays ==
  ASSUME Kept, CompletedRepaid, UNCHANGED sep31
  PROVE  CompletedRepaid'
  BY DEF Kept, CompletedRepaid

\* A transaction only adds, and adds what it is for.
LEMMA EffectKept ==
  ASSUME IType, NEW tx \in Transactions, NEW p \in PositionIds, take_effect(tx, p)
  PROVE  /\ Kept
         /\ tx = "verify" => p \in proven'
         /\ tx \in {"open", "draw", "repay"} => Happened(tx, p)'
<1>1. /\ phase \in [PositionIds -> {"none", "opened", "drawn", "repaid"}]
      /\ accepted(tx, p)
      /\ phase' = IF tx \in {"open", "draw", "repay"}
                  THEN [phase EXCEPT ![p] = PhaseAfter(tx)] ELSE phase
      /\ proven' = IF tx = "verify" THEN proven \cup {p} ELSE proven
  BY DEF take_effect, IType, TypeOK
<1>. QED  BY <1>1 DEF accepted, PhaseAfter, Kept, Happened

\* A request that goes on, ends or stays carries what it carried.
LEMMA CarriedStays ==
  ASSUME IType, CarriedBacked, Kept,
         \A c \in Clients : Running(c)' => Running(c) /\ request'[c].current = request[c].current
  PROVE  CarriedBacked'
<1>. SUFFICES ASSUME NEW c \in Clients, Running(c)' PROVE Backed(request[c].current)'
  BY DEF CarriedBacked
<1>1. Running(c) /\ request'[c].current = request[c].current
  OBVIOUS
<1>2. request[c].current \in DemoFlowSnapshot /\ Backed(request[c].current)
  BY <1>1, WrittenTyped DEF CarriedBacked
<1>3. \A s \in DemoFlowSnapshot : Backed(s) => Backed(s)'
  BY BackedStays
<1>. QED  BY <1>1, <1>2, <1>3 DEF Backed

\* A request that does not come to its last await has nothing new to write.
LEMMA WritesStay ==
  ASSUME IType, WritesHappened, Kept, NEW C \in SUBSET Clients,
         \A c \in C : AtWrite(c)' =>
           /\ AtWrite(c)
           /\ request'[c].op = request[c].op /\ request'[c].positionId = request[c].positionId
  PROVE  \A c \in C : AtWrite(c)' => Happened(request[c].op, request[c].positionId)'
<1>. SUFFICES ASSUME NEW c \in C, AtWrite(c)'
              PROVE  Happened(request[c].op, request[c].positionId)'
  OBVIOUS
<1>1. /\ AtWrite(c) /\ Running(c) /\ request'[c].op = request[c].op
      /\ request'[c].positionId = request[c].positionId
  BY DEF AtWrite
<1>2. Happened(request[c].op, request[c].positionId)
  BY <1>1 DEF WritesHappened
<1>3. CASE request[c].op \in Positionless
  BY <1>1, <1>3 DEF Happened, Positionless
<1>4. CASE request[c].op \notin Positionless
  BY <1>1, <1>2, <1>4, WrittenTyped, HappenedStays DEF Happened, Kept
<1>. QED  BY <1>3, <1>4

LEMMA BackedInit == Init => IBacked
<1>. SUFFICES ASSUME Init PROVE IBacked
  OBVIOUS
<1>1. Backed(snapshot)
  BY DEF Init, Backed, blankState
<1>2. \A c \in Clients : ~Running(c)
  BY DEF Init, Running, NoRequest
<1>3. CompletedRepaid
  BY DemoFlowAssumption DEF Init, CompletedRepaid, SepStatus
<1>. QED  BY <1>1, <1>2, <1>3 DEF IBacked, CarriedBacked, WritesHappened, AtWrite

\* A request that begins carries the snapshot or nothing, and has an await to go.
LEMMA BegunBacked ==
  ASSUME IType, IBacked, NEW c \in Clients, NEW op \in Ops, NEW p, NEW a,
         begin(c, op, p, a), UNCHANGED <<phase, proven>>
  PROVE  CarriedBacked' /\ WritesHappened'
<1>1. /\ request'[c].current \in {snapshot, blankState}
      /\ request'[c].op = op /\ request'[c].step = 1
      /\ \A d \in Clients \ {c} : request'[d] = request[d]
  BY DEF begin, IType, TypeOK
<1>2. Len(Awaits[op]) \in 1 .. 5
  BY AwaitsAreTransactions
<1>5. ~AtWrite(c)'
  <2>1. AwaitsOf(c)' = Awaits[op]
    BY <1>1 DEF AwaitsOf
  <2>2. PICK n \in 1 .. 5 : n = Len(Awaits[op])
    BY <1>2
  <2>3. ~(request'[c].step > n)
    BY <1>1
  <2>. QED  BY <2>1, <2>2, <2>3 DEF AtWrite
<1>3. ASSUME NEW d \in Clients, Running(d)'
      PROVE  Backed(request[d].current)'
  <2>1. CASE d = c
    BY <1>1, <2>1 DEF IBacked, Backed, blankState
  <2>2. CASE d # c
    BY <1>1, <1>3, <2>2 DEF IBacked, CarriedBacked, Running, Backed
  <2>. QED  BY <2>1, <2>2
<1>4. ASSUME NEW d \in Clients, AtWrite(d)'
      PROVE  Happened(request[d].op, request[d].positionId)'
  <2>1. d # c
    BY <1>4, <1>5
  <2>. QED  BY <1>1, <1>4, <2>1 DEF IBacked, WritesHappened, AtWrite, AwaitsOf, Running, Happened
<1>. QED  BY <1>3, <1>4 DEF CarriedBacked, WritesHappened

LEMMA AskBacked ==
  ASSUME IType, IBacked, NEW c \in Clients, Ask(c)
  PROVE  IBacked'
<1>1. UNCHANGED <<phase, proven>>
  BY DEF Ask, bootstrapDemoFlow, resetDemoFlow, openDemoCredit, drawDemoCredit, repayDemoCredit,
         proveDemoRepaymentHistory, chainVars
<1>2. Backed(snapshot)'
  <2>1. CASE snapshot' = snapshot
    BY <1>1, <2>1 DEF IBacked, Backed
  <2>2. CASE \E a \in AnchorTxs : snapshot' = [blankState EXCEPT !.anchorTransactionId = a]
    BY <2>2 DEF Backed, blankState
  <2>. QED  BY <2>1, <2>2 DEF Ask, bootstrapDemoFlow, resetDemoFlow, openDemoCredit,
                 drawDemoCredit, repayDemoCredit, proveDemoRepaymentHistory
<1>3. CompletedRepaid'
  <2>1. \A a \in AnchorTxs : sep31'[a] \in {sep31[a], "pending_sender"}
    BY DEF Ask, bootstrapDemoFlow, resetDemoFlow, openDemoCredit, drawDemoCredit,
           repayDemoCredit, proveDemoRepaymentHistory, createSep31Transaction, IType, TypeOK
  <2>. QED  BY <1>1, <2>1 DEF IBacked, CompletedRepaid
<1>4. CarriedBacked' /\ WritesHappened'
  <2>1. CASE \E op \in Ops : \E p, a : begin(c, op, p, a)
    BY <1>1, <2>1, BegunBacked
  <2>2. CASE request[c].at = "idle" /\ request' = [request EXCEPT ![c].at = "ok"]
    <3>1. /\ request'[c].at = "ok" /\ \A d \in Clients \ {c} : request'[d] = request[d]
      BY <2>2 DEF IType, TypeOK, Request
    <3>. QED  BY <1>1, <3>1 DEF IBacked, CarriedBacked, WritesHappened, AtWrite, AwaitsOf,
                                Running, Backed, Happened
  <2>3. \/ \E op \in Ops : \E p, a : begin(c, op, p, a)
        \/ request[c].at = "idle" /\ request' = [request EXCEPT ![c].at = "ok"]
    BY AwaitsAre DEF Ask, bootstrapDemoFlow, resetDemoFlow, openDemoCredit, drawDemoCredit,
           repayDemoCredit, proveDemoRepaymentHistory, resolve
  <2>. QED  BY <2>1, <2>2, <2>3
<1>. QED  BY <1>2, <1>3, <1>4 DEF IBacked

LEMMA SucceedBacked ==
  ASSUME IType, IBacked, NEW c \in Clients, succeed(c)
  PROVE  IBacked'
<1>1. /\ Awaiting(c) /\ Running(c)
      /\ request' = [request EXCEPT ![c].step = @ + 1]
      /\ UNCHANGED <<late, sep31, snapshot, strayed, smooth>>
  BY DEF succeed, Awaiting
<1>0. PICK op, tx, p :
        /\ op \in Ops /\ op = request[c].op
        /\ tx = AwaitsOf(c)[request[c].step] /\ p = request[c].positionId
  BY <1>1, WrittenTyped
<1>2. /\ AwaitsOf(c) = Awaits[op]
      /\ request[c].step \in 1 .. Len(Awaits[op]) /\ Len(Awaits[op]) \in 1 .. 5
  <2>1. AwaitsOf(c) = Awaits[op] /\ Len(Awaits[op]) \in 1 .. 5
    BY <1>0, AwaitsAreTransactions DEF AwaitsOf
  <2>2. request[c].step \in 1 .. 6
    BY <1>1, WrittenTyped
  <2>3. request[c].step <= Len(AwaitsOf(c))
    BY <1>1 DEF Awaiting
  <2>. QED  BY <2>1, <2>2, <2>3
<1>3. /\ \A d \in Clients \ {c} : request'[d] = request[d]
      /\ \A d \in Clients : request'[d].at = request[d].at /\ request'[d].current = request[d].current
      /\ request'[c].op = op /\ request'[c].positionId = p /\ request'[c].step = request[c].step + 1
  BY <1>0, <1>1 DEF IType, TypeOK, Request
<1>4. CASE Submitted(c) = {}
  <2>1. UNCHANGED <<phase, proven>>
    BY <1>4 DEF succeed
  <2>2. tx \notin Transactions
    BY <1>0, <1>1, <1>4 DEF Submitted
  <2>3. op \in Positionless
    BY <1>0, <1>2, <2>2, AwaitsAre DEF Transactions, Positionless
  <2>4. Kept
    BY <2>1 DEF Kept
  <2>5. Backed(snapshot)' /\ CompletedRepaid'
    BY <1>1, <2>1 DEF IBacked, Backed, CompletedRepaid
  <2>6. CarriedBacked'
    BY <1>3, <2>4, CarriedStays DEF IBacked, Running
  <2>7. \A d \in Clients \ {c} : AtWrite(d)' => Happened(request[d].op, request[d].positionId)'
    BY <1>3, <2>4, WritesStay DEF IBacked, AtWrite, AwaitsOf, Running
  <2>8. Happened(request[c].op, request[c].positionId)'
    BY <1>3, <2>3 DEF Happened, Positionless
  <2>. QED  BY <2>5, <2>6, <2>7, <2>8 DEF IBacked, WritesHappened
<1>5. CASE Submitted(c) # {}
  <2>1. tx \in Transactions /\ Submitted(c) = {<<tx, p>>}
    BY <1>0, <1>5 DEF Submitted
  <2>2. p \in PositionIds
    <3>1. <<tx, p>> \in Transactions \X PositionIds
      BY <2>1, SubmittedTyped
    <3>. QED  BY <3>1
  <2>3. take_effect(tx, p)
    <3>1. \A t \in Submitted(c) : take_effect(t[1], t[2])
      BY <1>5 DEF succeed
    <3>. QED  BY <2>1, <3>1
  <2>4. /\ Kept
        /\ tx = "verify" => p \in proven'
        /\ tx \in {"open", "draw", "repay"} => Happened(tx, p)'
    BY <2>1, <2>2, <2>3, EffectKept
  <2>5. Backed(snapshot)' /\ CompletedRepaid'
    <3>1. snapshot \in DemoFlowSnapshot
      BY DEF IType, TypeOK
    <3>2. \A s \in DemoFlowSnapshot : Backed(s) => Backed(s)'
      BY <2>4, BackedStays
    <3>3. CompletedRepaid'
      BY <1>1, <2>4, CompletedStays DEF IBacked
    <3>. QED  BY <1>1, <3>1, <3>2, <3>3 DEF IBacked, Backed
  <2>6. CarriedBacked'
    BY <1>3, <2>4, CarriedStays DEF IBacked, Running
  <2>7. \A d \in Clients \ {c} : AtWrite(d)' => Happened(request[d].op, request[d].positionId)'
    BY <1>3, <2>4, WritesStay DEF IBacked, AtWrite, AwaitsOf, Running
  <2>8. ASSUME AtWrite(c)'
        PROVE  Happened(request[c].op, request[c].positionId)'
    <3>1. request[c].step = Len(Awaits[op])
      <4>1. AwaitsOf(c)' = Awaits[op]
        BY <1>3 DEF AwaitsOf
      <4>. QED  BY <1>2, <1>3, <2>8, <4>1 DEF AtWrite
    <3>2. CASE op = "history"
      <4>1. tx = "verify"
        BY <1>0, <1>2, <3>1, <3>2, AwaitsAre
      <4>. QED  BY <1>3, <2>4, <3>2, <4>1 DEF Happened
    <3>3. CASE op \in {"open", "draw", "repay"}
      <4>1. tx = op
        BY <1>0, <1>2, <3>1, <3>3, AwaitsAre
      <4>. QED  BY <1>3, <2>4, <3>3, <4>1 DEF Happened
    <3>4. CASE op \in Positionless
      BY <1>3, <3>4 DEF Happened, Positionless
    <3>. QED  BY <1>0, <3>2, <3>3, <3>4, AwaitsAre DEF Positionless
  <2>. QED  BY <2>5, <2>6, <2>7, <2>8 DEF IBacked, WritesHappened
<1>. QED  BY <1>4, <1>5

LEMMA LandLateBacked ==
  ASSUME IType, IBacked, NEW t \in late, land_late(t[1], t[2])
  PROVE  IBacked'
<1>1. t[1] \in Transactions /\ t[2] \in PositionIds /\ take_effect(t[1], t[2])
  BY DEF IType, TypeOK, land_late
<1>2. Kept /\ UNCHANGED <<sep31, snapshot, request>>
  BY <1>1, EffectKept DEF land_late
<1>3. Backed(snapshot)'
  <2>1. snapshot \in DemoFlowSnapshot
    BY DEF IType, TypeOK
  <2>2. \A s \in DemoFlowSnapshot : Backed(s) => Backed(s)'
    BY <1>2, BackedStays
  <2>. QED  BY <1>2, <2>1, <2>2 DEF IBacked, Backed
<1>4. CarriedBacked'
  BY <1>2, CarriedStays DEF IBacked, Running
<1>5. WritesHappened'
  BY <1>2, WritesStay DEF IBacked, AtWrite, AwaitsOf, Running, WritesHappened
<1>6. CompletedRepaid'
  BY <1>2, CompletedStays DEF IBacked
<1>. QED  BY <1>3, <1>4, <1>5, <1>6 DEF IBacked

\* Requests that end take what they carried with them.
LEMMA EndedBacked ==
  ASSUME IBacked, UNCHANGED <<phase, proven>>, Backed(snapshot)', CompletedRepaid',
         \A d \in Clients : Running(d)' => Running(d) /\ request'[d] = request[d]
  PROVE  IBacked'
<1>1. CarriedBacked'
  BY DEF IBacked, CarriedBacked, Backed
<1>2. WritesHappened'
  BY DEF IBacked, WritesHappened, AtWrite, AwaitsOf, Happened
<1>. QED  BY <1>1, <1>2 DEF IBacked

LEMMA AnswerEnds ==
  ASSUME IType, NEW c \in Clients, NEW at \in {"ok", "error"}, NEW p, answer(c, at, p)
  PROVE  \A d \in Clients : Running(d)' => Running(d) /\ request'[d] = request[d]
<1>1. request'[c].at = at /\ \A d \in Clients \ {c} : request'[d] = request[d]
  BY DEF answer, IType, TypeOK, NoRequest
<1>. QED  BY <1>1 DEF Running

LEMMA FailBacked ==
  ASSUME IType, IBacked, NEW c \in Clients,
         refuse(c) \/ give_up(c) \/ throw_at_settlement(c)
  PROVE  IBacked'
<1>1. /\ answer(c, "error", None) /\ UNCHANGED <<phase, proven, sep31, snapshot>>
  BY DEF refuse, give_up, throw_at_settlement, chainVars
<1>2. Backed(snapshot)' /\ CompletedRepaid'
  BY <1>1 DEF IBacked, Backed, CompletedRepaid
<1>. QED  BY <1>1, <1>2, AnswerEnds, EndedBacked

LEMMA StopBacked ==
  ASSUME IType, IBacked, crash \/ \E c \in Clients : take_answer(c)
  PROVE  IBacked'
<1>1. UNCHANGED <<phase, proven, sep31, snapshot>>
  BY DEF crash, take_answer, chainVars
<1>2. \A d \in Clients : Running(d)' => Running(d) /\ request'[d] = request[d]
  BY DEF crash, take_answer, IType, TypeOK, Running, NoRequest
<1>3. Backed(snapshot)' /\ CompletedRepaid'
  BY <1>1 DEF IBacked, Backed, CompletedRepaid
<1>. QED  BY <1>1, <1>2, <1>3, EndedBacked

\* What a handler writes it has read, or it happened to the handler's position.
LEMMA WriteBacked ==
  ASSUME IType, IBacked, NEW c \in Clients,
         \/ write_bootstrap(c) \/ write_open(c) \/ write_draw(c) \/ write_repay(c)
         \/ write_history(c)
  PROVE  IBacked'
<1>. DEFINE p == request[c].positionId
<1>1. AtWrite(c) /\ Running(c)
  BY DEF write_bootstrap, write_open, write_draw, write_repay, write_history, AtWrite
<1>2. /\ Backed(request[c].current) /\ Backed(snapshot) /\ Happened(request[c].op, p)
      /\ request[c].current \in DemoFlowSnapshot /\ snapshot \in DemoFlowSnapshot
  BY <1>1, WrittenTyped DEF IBacked, CarriedBacked, WritesHappened, IType, TypeOK
<1>3. UNCHANGED <<phase, proven>> /\ \E q : answer(c, "ok", q)
  BY DEF write_bootstrap, write_open, write_draw, write_repay, write_history, chainVars
<1>4. Backed(snapshot)'
  <2>1. CASE write_bootstrap(c)
    BY <1>2, <1>3, <2>1 DEF write_bootstrap, Backed, DemoFlowSnapshot
  <2>2. CASE write_open(c)
    <3>1. /\ snapshot'.open = p /\ snapshot'.draw = None /\ snapshot'.repay = None
          /\ snapshot'.historyProof = None /\ request[c].op = "open"
      BY <1>2, <2>2 DEF write_open, cleared, DemoFlowSnapshot
    <3>. QED  BY <1>2, <1>3, <3>1 DEF Backed, Happened
  <2>3. CASE write_draw(c)
    <3>1. /\ snapshot'.open = request[c].current.open /\ snapshot'.draw = p
          /\ snapshot'.repay = request[c].current.repay
          /\ snapshot'.historyProof = request[c].current.historyProof /\ request[c].op = "draw"
      BY <1>2, <2>3 DEF write_draw, written_over, DemoFlowSnapshot
    <3>. QED  BY <1>2, <1>3, <3>1 DEF Backed, Happened
  <2>4. CASE write_repay(c)
    <3>1. /\ snapshot'.open = request[c].current.open /\ snapshot'.repay = p
          /\ snapshot'.draw = request[c].current.draw
          /\ snapshot'.historyProof = request[c].current.historyProof /\ request[c].op = "repay"
      BY <1>2, <2>4 DEF write_repay, written_over, DemoFlowSnapshot
    <3>. QED  BY <1>2, <1>3, <3>1 DEF Backed, Happened
  <2>5. CASE write_history(c)
    <3>1. /\ snapshot'.open = request[c].current.open /\ snapshot'.historyProof = p
          /\ snapshot'.draw = request[c].current.draw
          /\ snapshot'.repay = request[c].current.repay /\ request[c].op = "history"
      BY <1>2, <2>5 DEF write_history, written_over, DemoFlowSnapshot
    <3>. QED  BY <1>2, <1>3, <3>1 DEF Backed, Happened
  <2>. QED  BY <2>1, <2>2, <2>3, <2>4, <2>5
<1>5. CompletedRepaid'
  <2>1. CASE write_repay(c)
    <3>1. phase'[p] = "repaid" /\ p \in PositionIds
      BY <1>1, <1>2, <1>3, <2>1, WrittenTyped DEF write_repay, Happened, Positionless
    <3>. QED  BY <3>1 DEF CompletedRepaid
  <2>2. CASE ~write_repay(c)
    <3>1. \A a \in AnchorTxs : sep31'[a] = "completed" => sep31[a] = "completed"
      BY <2>2 DEF write_bootstrap, write_open, write_draw, write_history, settle
    <3>. QED  BY <1>3, <3>1 DEF IBacked, CompletedRepaid
  <2>. QED  BY <2>1, <2>2
<1>. QED  BY <1>3, <1>4, <1>5, AnswerEnds, EndedBacked

LEMMA BackedNext == IType /\ IBacked /\ [Next]_vars => IBacked'
<1>. SUFFICES ASSUME IType, IBacked, [Next]_vars PROVE IBacked'
  OBVIOUS
<1>1. ASSUME NEW c \in Clients, HandlerStep(c)
      PROVE  IBacked'
  BY <1>1, SucceedBacked, FailBacked, WriteBacked DEF HandlerStep
<1>2. CASE UNCHANGED vars
  <2>1. UNCHANGED <<phase, proven, sep31, snapshot, request>>
    BY <1>2 DEF vars, chainVars
  <2>2. \A d \in Clients : Running(d)' => Running(d) /\ request'[d] = request[d]
    BY <2>1 DEF Running
  <2>3. Backed(snapshot)' /\ CompletedRepaid'
    BY <2>1 DEF IBacked, Backed, CompletedRepaid
  <2>. QED  BY <2>1, <2>2, <2>3, EndedBacked
<1>. QED  BY <1>1, <1>2, AskBacked, StopBacked, LandLateBacked DEF Next, ServerStep

\* Whatever requests overlap, are given up on, land late or die with the process,
\* the stored snapshot shows nothing that did not happen on chain, and a SEP-31
\* transaction is completed only once a position was repaid (demo-flow.ts,
\* sep31.ts).
THEOREM SnapshotBacked == Spec => []SnapshotBackedByChain
<1>1. IBacked => SnapshotBackedByChain
  BY DEF IBacked, Backed, CompletedRepaid, SnapshotBackedByChain
<1>. QED  BY <1>1, TypeInit, TypeNext, BackedInit, BackedNext, PTL DEF Spec

-------------------------------------------------------------------------------
(* What is shown is of one position.                                       *)

OnePosition(s) == {s.open, s.draw, s.repay, s.historyProof} \subseteq {s.positionId, None}

\* A handler that will write over what it read is about the position it read of.
AboutWhatItRead(c) ==
  Running(c) /\ request[c].op \in WritesBack =>
    /\ OnePosition(request[c].current)
    /\ request[c].positionId = request[c].current.positionId

IOnePosition == strayed \/ (OnePosition(snapshot) /\ \A c \in Clients : AboutWhatItRead(c))

LEMMA OnePositionInit == Init => IOnePosition
  BY DEF Init, IOnePosition, OnePosition, blankState, AboutWhatItRead, Running, NoRequest

\* Requests that do not begin.
LEMMA OnePositionStays ==
  ASSUME IOnePosition, UNCHANGED strayed, strayed \/ OnePosition(snapshot)',
         \A d \in Clients : Running(d)' =>
           /\ Running(d) /\ request'[d].op = request[d].op
           /\ request'[d].current = request[d].current
           /\ request'[d].positionId = request[d].positionId
  PROVE  IOnePosition'
  BY DEF IOnePosition, AboutWhatItRead, OnePosition

\* Requests that begin, about the position the snapshot is of.
LEMMA OnePositionBegun ==
  ASSUME IType, IOnePosition, NEW c \in Clients, NEW op \in Ops, NEW p, NEW a,
         begin(c, op, p, a), strayed => strayed', strayed' \/ OnePosition(snapshot)',
         op \in WritesBack => strayed' \/ p = snapshot.positionId
  PROVE  IOnePosition'
<1>1. /\ request'[c].op = op /\ request'[c].positionId = p
      /\ op \in WritesBack => request'[c].current = snapshot
      /\ \A d \in Clients \ {c} : request'[d] = request[d]
  BY DEF begin, IType, TypeOK
<1>2. ASSUME ~strayed', NEW d \in Clients
      PROVE  AboutWhatItRead(d)'
  <2>1. CASE d = c
    BY <1>1, <1>2, <2>1 DEF IOnePosition, AboutWhatItRead, OnePosition
  <2>2. CASE d # c
    BY <1>1, <1>2, <2>2 DEF IOnePosition, AboutWhatItRead, OnePosition, Running
  <2>. QED  BY <2>1, <2>2
<1>. QED  BY <1>2 DEF IOnePosition

LEMMA AskOnePosition ==
  ASSUME IType, IOnePosition, NEW c \in Clients, Ask(c)
  PROVE  IOnePosition'
<1>1. ASSUME NEW a \in AnchorTxs, bootstrapDemoFlow(c, a)
      PROVE  IOnePosition'
  <2>1. begin(c, "bootstrap", None, a) /\ UNCHANGED <<strayed, snapshot>>
    BY <1>1 DEF bootstrapDemoFlow
  <2>. QED  BY <2>1, OnePositionBegun, AwaitsAre DEF WritesBack, IOnePosition, OnePosition
<1>2. ASSUME NEW a \in AnchorTxs, resetDemoFlow(c, a)
      PROVE  IOnePosition'
  <2>1. begin(c, "reset", None, a) /\ UNCHANGED strayed
    BY <1>2 DEF resetDemoFlow
  <2>2. OnePosition(snapshot)'
    BY <1>2 DEF resetDemoFlow, blankState, OnePosition
  <2>. QED  BY <2>1, <2>2, OnePositionBegun, AwaitsAre DEF WritesBack
<1>3. ASSUME NEW a, NEW p, openDemoCredit(c, p, a)
      PROVE  IOnePosition'
  <2>1. begin(c, "open", p, a) /\ UNCHANGED <<strayed, snapshot>>
    BY <1>3 DEF openDemoCredit
  <2>. QED  BY <2>1, OnePositionBegun, AwaitsAre DEF WritesBack, IOnePosition, OnePosition
<1>4. ASSUME NEW op \in WritesBack, NEW input, NEW a, resolve(c, op, input, a),
             UNCHANGED snapshot
      PROVE  IOnePosition'
  <2>1. begin(c, op, Or(input, snapshot.positionId), a) /\ op \in Ops
    BY <1>4, AwaitsAre DEF resolve, WritesBack
  <2>2. /\ strayed => strayed'
        /\ strayed' \/ input \in {None, snapshot.positionId}
    BY <1>4 DEF resolve, IType, TypeOK
  <2>3. strayed' \/ Or(input, snapshot.positionId) = snapshot.positionId
    BY <2>2 DEF Or
  <2>4. strayed' \/ OnePosition(snapshot)'
    BY <1>4, <2>2 DEF IOnePosition, OnePosition
  <2>. QED  BY <2>1, <2>2, <2>3, <2>4, OnePositionBegun
<1>5. ASSUME NEW p, NEW a, drawDemoCredit(c, p, a) \/ repayDemoCredit(c, p, a)
      PROVE  IOnePosition'
  BY <1>4, <1>5 DEF drawDemoCredit, repayDemoCredit, WritesBack
<1>6. ASSUME NEW p, proveDemoRepaymentHistory(c, p)
      PROVE  IOnePosition'
  <2>1. CASE resolve(c, "history", p, None)
    BY <1>4, <1>6, <2>1 DEF proveDemoRepaymentHistory, WritesBack
  <2>2. CASE request' = [request EXCEPT ![c].at = "ok"] /\ UNCHANGED <<strayed, snapshot>>
    <3>1. request'[c].at = "ok" /\ \A d \in Clients \ {c} : request'[d] = request[d]
      BY <2>2 DEF IType, TypeOK, Request
    <3>2. \A d \in Clients : Running(d)' => Running(d) /\ request'[d] = request[d]
      BY <3>1 DEF Running
    <3>. QED  BY <2>2, <3>2, OnePositionStays DEF IOnePosition, OnePosition
  <2>. QED  BY <1>6, <2>1, <2>2 DEF proveDemoRepaymentHistory
<1>. QED  BY <1>1, <1>2, <1>3, <1>5, <1>6 DEF Ask

\* Steps that leave the snapshot alone.
LEMMA QuietOnePosition ==
  ASSUME IType, IOnePosition,
         \/ \E c \in Clients : \/ succeed(c) \/ refuse(c) \/ give_up(c)
                               \/ throw_at_settlement(c) \/ take_answer(c)
         \/ \E t \in late : land_late(t[1], t[2])
         \/ crash
  PROVE  IOnePosition'
<1>1. UNCHANGED <<snapshot, strayed>>
  BY DEF succeed, refuse, give_up, throw_at_settlement, take_answer, land_late, crash
<1>2. \A d \in Clients : Running(d)' =>
        /\ Running(d) /\ request'[d].op = request[d].op
        /\ request'[d].current = request[d].current
        /\ request'[d].positionId = request[d].positionId
  <2>1. CASE \E c \in Clients : succeed(c)
    BY <2>1 DEF succeed, IType, TypeOK, Request, Running
  <2>2. CASE \E c \in Clients : refuse(c) \/ give_up(c) \/ throw_at_settlement(c)
    BY <2>2, AnswerEnds DEF refuse, give_up, throw_at_settlement
  <2>3. CASE crash \/ \E c \in Clients : take_answer(c)
    BY <2>3 DEF crash, take_answer, IType, TypeOK, Running, NoRequest
  <2>4. CASE \E t \in late : land_late(t[1], t[2])
    BY <2>4 DEF land_late, Running
  <2>. QED  BY <2>1, <2>2, <2>3, <2>4
<1>. QED  BY <1>1, <1>2, OnePositionStays DEF IOnePosition, OnePosition

LEMMA WriteOnePosition ==
  ASSUME IType, IOnePosition, NEW c \in Clients,
         \/ write_bootstrap(c) \/ write_open(c) \/ write_draw(c) \/ write_repay(c)
         \/ write_history(c)
  PROVE  IOnePosition'
<1>. DEFINE p == request[c].positionId
<1>1. AtWrite(c) /\ Running(c)
  BY DEF write_bootstrap, write_open, write_draw, write_repay, write_history, AtWrite
<1>2. request[c].current \in DemoFlowSnapshot /\ snapshot \in DemoFlowSnapshot
  BY <1>1, WrittenTyped DEF IType, TypeOK
<1>3. UNCHANGED strayed /\ \E q : answer(c, "ok", q)
  BY DEF write_bootstrap, write_open, write_draw, write_repay, write_history, chainVars
<1>4. ASSUME ~strayed
      PROVE  OnePosition(snapshot)'
  <2>1. OnePosition(snapshot) /\ AboutWhatItRead(c)
    BY <1>4 DEF IOnePosition
  <2>2. CASE write_bootstrap(c)
    BY <1>2, <2>1, <2>2 DEF write_bootstrap, OnePosition, DemoFlowSnapshot
  <2>3. CASE write_open(c)
    BY <1>2, <2>3 DEF write_open, cleared, OnePosition, DemoFlowSnapshot
  <2>4. CASE write_draw(c) \/ write_repay(c) \/ write_history(c)
    <3>1. /\ OnePosition(request[c].current) /\ p = request[c].current.positionId
      BY <1>1, <2>1, <2>4 DEF write_draw, write_repay, write_history, AboutWhatItRead, WritesBack
    <3>2. /\ snapshot'.positionId = p
          /\ snapshot'.open = request[c].current.open
          /\ snapshot'.draw \in {request[c].current.draw, p}
          /\ snapshot'.repay \in {request[c].current.repay, p}
          /\ snapshot'.historyProof \in {request[c].current.historyProof, p}
      BY <1>2, <2>4 DEF write_draw, write_repay, write_history, written_over, DemoFlowSnapshot
    <3>. QED  BY <3>1, <3>2 DEF OnePosition
  <2>. QED  BY <2>2, <2>3, <2>4
<1>5. \A d \in Clients : Running(d)' => Running(d) /\ request'[d] = request[d]
  BY <1>3, AnswerEnds
<1>. QED  BY <1>3, <1>4, <1>5, OnePositionStays

LEMMA OnePositionNext == IType /\ IOnePosition /\ [Next]_vars => IOnePosition'
<1>. SUFFICES ASSUME IType, IOnePosition, [Next]_vars PROVE IOnePosition'
  OBVIOUS
<1>1. CASE UNCHANGED vars
  BY <1>1, OnePositionStays DEF vars, chainVars, Running, IOnePosition, OnePosition
<1>. QED  BY <1>1, AskOnePosition, QuietOnePosition, WriteOnePosition
          DEF Next, ServerStep, HandlerStep

\* As long as no request names another position than the stored one, everything
\* the stored snapshot shows is of its one position, however many requests run at
\* the same time and write over one another (demo-flow.ts).
THEOREM OnePositionShown == Spec => []SnapshotOfOnePosition
<1>1. IOnePosition => SnapshotOfOnePosition
  BY DEF IOnePosition, OnePosition, SnapshotOfOnePosition
<1>. QED  BY <1>1, TypeInit, TypeNext, OnePositionInit, OnePositionNext, PTL DEF Spec

-------------------------------------------------------------------------------
(* Who knows which positions.                                              *)

\* Whatever names a position, but an open under way, names one there is: the
\* snapshot, the handlers that write back and the transactions they leave behind,
\* the answers to the clients; and history is filed and proven of such only.
IKnown ==
  /\ snapshot.positionId \in Known \cup {None}
  /\ \A c \in Clients :
       /\ Running(c) /\ request[c].op \in WritesBack => request[c].positionId \in Known
       /\ request[c].at \in {"idle", "ok"} => request[c].positionId \in Known \cup {None}
  /\ \A t \in late : t[1] # "open" => t[2] \in Known
  /\ rooted \cup proven \subseteq Known

LEMMA KnownInit == Init => IKnown
  BY DEF Init, IKnown, blankState, NoRequest, Running

\* Every transaction but an opening is awaited by a handler that writes back.
LEMMA OthersWriteBack ==
  ASSUME IType, NEW c \in Clients, Awaiting(c), AwaitsOf(c)[request[c].step] \in Transactions \ {"open"}
  PROVE  /\ request[c].op \in WritesBack
         /\ AwaitsOf(c)[request[c].step] \notin {"draw", "repay"} => request[c].op = "history"
<1>1. PICK op \in Ops : op = request[c].op
  BY WrittenTyped DEF Awaiting
<1>2. request[c].step \in 1 .. Len(Awaits[op]) /\ Awaits[op][request[c].step] \in Transactions \ {"open"}
  BY <1>1, WrittenTyped, AwaitsAreTransactions DEF Awaiting, AwaitsOf
<1>3. op \notin Positionless
  BY <1>2, AwaitsAreTransactions
<1>4. CASE op \in {"open", "draw", "repay"}
  <2>1. Awaits[op] = <<op>>
    BY <1>4, AwaitsAre
  <2>2. Awaits[op][request[c].step] = op
    BY <1>2, <2>1
  <2>. QED  BY <1>1, <1>2, <1>4, <2>2 DEF WritesBack, AwaitsOf
<1>. QED  BY <1>1, <1>3, <1>4, AwaitsAre DEF Positionless, WritesBack

LEMMA SubmittedKnown ==
  ASSUME IType, IKnown, NEW c \in Clients
  PROVE  \A t \in Submitted(c) : t[1] # "open" => t[2] \in Known
<1>. SUFFICES ASSUME NEW t \in Submitted(c), t[1] # "open" PROVE t[2] \in Known
  OBVIOUS
<1>1. /\ Awaiting(c) /\ AwaitsOf(c)[request[c].step] \in Transactions
      /\ t = <<AwaitsOf(c)[request[c].step], request[c].positionId>>
  BY DEF Submitted
<1>2. request[c].op \in WritesBack
  BY <1>1, OthersWriteBack
<1>. QED  BY <1>1, <1>2 DEF IKnown, Awaiting

\* A transaction takes no position away, and files and proves of known ones only.
LEMMA EffectKnown ==
  ASSUME IType, IKnown, NEW tx \in Transactions, NEW p \in PositionIds, take_effect(tx, p),
         tx # "open" => p \in Known
  PROVE  Known \subseteq Known' /\ (rooted \cup proven)' \subseteq Known'
<1>1. Known \subseteq Known'
  BY EffectKept DEF Kept, Known
<1>2. rooted' \subseteq rooted \cup {p} /\ proven' \subseteq proven \cup {p}
  BY DEF take_effect
<1>3. tx = "open" => UNCHANGED <<rooted, proven>>
  BY DEF take_effect
<1>. QED  BY <1>1, <1>2, <1>3 DEF IKnown

LEMMA AskKnown ==
  ASSUME IType, IKnown, NEW c \in Clients, Ask(c)
  PROVE  IKnown'
<1>1. Known' = Known /\ UNCHANGED <<rooted, proven, late>>
  BY DEF Ask, bootstrapDemoFlow, resetDemoFlow, openDemoCredit, drawDemoCredit, repayDemoCredit,
         proveDemoRepaymentHistory, chainVars, Known
<1>2. snapshot'.positionId \in Known \cup {None}
  <2>1. CASE snapshot' = snapshot
    BY <2>1 DEF IKnown
  <2>2. CASE \E a \in AnchorTxs : snapshot' = [blankState EXCEPT !.anchorTransactionId = a]
    BY <2>2 DEF blankState
  <2>. QED  BY <2>1, <2>2 DEF Ask, bootstrapDemoFlow, resetDemoFlow, openDemoCredit,
                 drawDemoCredit, repayDemoCredit, proveDemoRepaymentHistory
<1>3. \A d \in Clients \ {c} : request'[d] = request[d]
  BY DEF Ask, bootstrapDemoFlow, resetDemoFlow, openDemoCredit, drawDemoCredit, repayDemoCredit,
         proveDemoRepaymentHistory, resolve, begin, IType, TypeOK
<1>4. \/ \E op \in Ops : \E p, a : begin(c, op, p, a) /\ (op \in WritesBack => p \in Known)
      \/ request[c].at = "idle" /\ request' = [request EXCEPT ![c].at = "ok"]
  <2>1. \A input \in Known \cup {None} :
          Or(input, snapshot.positionId) # None => Or(input, snapshot.positionId) \in Known
    BY DEF IKnown, Or
  <2>2. ASSUME NEW op, NEW a, NEW input \in Known \cup {None}, resolve(c, op, input, a), op \in Ops
        PROVE  \E p, b : begin(c, op, p, b) /\ (op \in WritesBack => p \in Known)
    BY <2>1, <2>2 DEF resolve
  <2>3. ASSUME NEW input \in Known \cup {None}, NEW a,
               drawDemoCredit(c, input, a) \/ repayDemoCredit(c, input, a)
        PROVE  \E op \in Ops : \E p, b : begin(c, op, p, b) /\ (op \in WritesBack => p \in Known)
    BY <2>2, <2>3, AwaitsAre DEF drawDemoCredit, repayDemoCredit
  <2>4. ASSUME NEW input \in Known \cup {None}, proveDemoRepaymentHistory(c, input)
        PROVE  <1>4
    BY <2>2, <2>4, AwaitsAre DEF proveDemoRepaymentHistory
  <2>5. ASSUME NEW op \in {"bootstrap", "reset", "open"}, NEW p, NEW a, begin(c, op, p, a)
        PROVE  <1>4
    BY <2>5, AwaitsAre DEF WritesBack
  <2>6. ASSUME NEW p, NEW a,
               bootstrapDemoFlow(c, a) \/ resetDemoFlow(c, a) \/ openDemoCredit(c, p, a)
        PROVE  <1>4
    BY <2>5, <2>6 DEF bootstrapDemoFlow, resetDemoFlow, openDemoCredit
  <2>. QED  BY <2>3, <2>4, <2>6 DEF Ask
<1>5. /\ Running(c)' /\ request'[c].op \in WritesBack => request'[c].positionId \in Known
      /\ request'[c].at \in {"idle", "ok"} => request'[c].positionId \in Known \cup {None}
  <2>1. ASSUME NEW op \in Ops, NEW p, NEW a, begin(c, op, p, a), op \in WritesBack => p \in Known
        PROVE  <1>5
    BY <2>1 DEF begin, IType, TypeOK, Running
  <2>2. CASE request[c].at = "idle" /\ request' = [request EXCEPT ![c].at = "ok"]
    <3>1. request'[c].at = "ok" /\ request'[c].positionId = request[c].positionId
      BY <2>2 DEF IType, TypeOK, Request
    <3>. QED  BY <2>2, <3>1 DEF IKnown, Running
  <2>. QED  BY <1>4, <2>1, <2>2
<1>. QED  BY <1>1, <1>2, <1>3, <1>5 DEF IKnown, Running

\* Steps after which nothing runs that did not, and the answers name what is known.
LEMMA EndedKnown ==
  ASSUME IKnown, Known \subseteq Known', (rooted \cup proven)' \subseteq Known',
         snapshot'.positionId \in Known' \cup {None},
         \A t \in late' : t \in late \/ (t[1] # "open" => t[2] \in Known),
         \A d \in Clients :
           /\ Running(d)' => /\ Running(d) /\ request'[d].op = request[d].op
                             /\ request'[d].positionId = request[d].positionId
           /\ request'[d].at \in {"idle", "ok"} =>
                \/ request'[d].positionId \in Known \cup {None}
                \/ request'[d].at = request[d].at /\ request'[d].positionId = request[d].positionId
  PROVE  IKnown'
  BY DEF IKnown

LEMMA SucceedKnown ==
  ASSUME IType, IKnown, NEW c \in Clients, succeed(c)
  PROVE  IKnown'
<1>1. /\ Awaiting(c) /\ request' = [request EXCEPT ![c].step = @ + 1]
      /\ UNCHANGED <<late, sep31, snapshot, strayed, smooth>>
  BY DEF succeed
<1>2. \A d \in Clients :
        /\ request'[d].at = request[d].at /\ request'[d].op = request[d].op
        /\ request'[d].positionId = request[d].positionId
  BY <1>1 DEF IType, TypeOK, Request
<1>3. Known \subseteq Known' /\ (rooted \cup proven)' \subseteq Known'
  <2>1. CASE Submitted(c) = {}
    BY <2>1 DEF succeed, Known, IKnown
  <2>2. CASE Submitted(c) # {}
    <3>1. PICK t \in Submitted(c) : take_effect(t[1], t[2])
      BY <2>2 DEF succeed
    <3>2. t[1] \in Transactions /\ t[2] \in PositionIds /\ (t[1] # "open" => t[2] \in Known)
      BY <3>1, SubmittedTyped, SubmittedKnown
    <3>. QED  BY <3>1, <3>2, EffectKnown
  <2>. QED  BY <2>1, <2>2
<1>4. snapshot'.positionId \in Known' \cup {None}
  BY <1>1, <1>3 DEF IKnown
<1>. QED  BY <1>1, <1>2, <1>3, <1>4, EndedKnown DEF Running

LEMMA LandLateKnown ==
  ASSUME IType, IKnown, NEW t \in late, land_late(t[1], t[2])
  PROVE  IKnown'
<1>1. /\ take_effect(t[1], t[2]) /\ late' \subseteq late /\ UNCHANGED <<snapshot, request>>
      /\ t[1] \in Transactions /\ t[2] \in PositionIds /\ (t[1] # "open" => t[2] \in Known)
  BY DEF land_late, IType, TypeOK, IKnown
<1>2. Known \subseteq Known' /\ (rooted \cup proven)' \subseteq Known'
  BY <1>1, EffectKnown
<1>3. snapshot'.positionId \in Known' \cup {None}
  BY <1>1, <1>2 DEF IKnown
<1>. QED  BY <1>1, <1>2, <1>3, EndedKnown DEF Running

\* The requests that end: only an open's answer names a position.
LEMMA EndKnown ==
  ASSUME IType, IBacked, IKnown, NEW c \in Clients,
         \/ refuse(c) \/ give_up(c) \/ throw_at_settlement(c)
         \/ write_bootstrap(c) \/ write_open(c) \/ write_draw(c) \/ write_repay(c)
         \/ write_history(c)
  PROVE  IKnown'
<1>1. Known' = Known /\ UNCHANGED <<rooted, proven>> /\ late' \subseteq late \cup Submitted(c)
  BY DEF refuse, give_up, throw_at_settlement, write_bootstrap, write_open, write_draw, write_repay,
         write_history, chainVars, Known
<1>2. ASSUME AtWrite(c), request[c].op \in WritesBack \cup {"open"}
      PROVE  request[c].positionId \in Known
  <2>1. request[c].positionId \in PositionIds
    BY <1>2, WrittenTyped DEF AtWrite, WritesBack, Positionless
  <2>2. CASE request[c].op = "open"
    BY <1>2, <2>1, <2>2 DEF IBacked, WritesHappened, Happened, Known
  <2>3. CASE request[c].op \in WritesBack
    BY <1>2, <2>3 DEF IKnown, AtWrite
  <2>. QED  BY <1>2, <2>2, <2>3
<1>3. PICK at \in {"ok", "error"}, p \in Known \cup {None} : answer(c, at, p)
  BY <1>2 DEF refuse, give_up, throw_at_settlement, write_bootstrap, write_open, write_draw,
              write_repay, write_history
<1>4. /\ request'[c].at = at /\ request'[c].positionId = p
      /\ \A d \in Clients \ {c} : request'[d] = request[d]
  BY <1>3 DEF answer, IType, TypeOK, NoRequest
<1>5. snapshot'.positionId \in Known \cup {None}
  <2>1. CASE snapshot' = snapshot
    BY <2>1 DEF IKnown
  <2>2. CASE write_bootstrap(c)
    BY <2>2 DEF write_bootstrap, IKnown, IType, TypeOK, DemoFlowSnapshot
  <2>3. CASE write_open(c) \/ write_draw(c) \/ write_repay(c) \/ write_history(c)
    <3>1. AtWrite(c) /\ request[c].op \in WritesBack \cup {"open"}
      BY <2>3 DEF write_open, write_draw, write_repay, write_history, WritesBack
    <3>2. request[c].current \in DemoFlowSnapshot /\ snapshot \in DemoFlowSnapshot
      BY <3>1, WrittenTyped DEF AtWrite, IType, TypeOK
    <3>3. snapshot'.positionId = request[c].positionId
      BY <2>3, <3>2 DEF write_open, write_draw, write_repay, write_history, written_over, cleared,
                        DemoFlowSnapshot
    <3>. QED  BY <1>2, <3>1, <3>3
  <2>. QED  BY <2>1, <2>2, <2>3 DEF refuse, give_up, throw_at_settlement
<1>6. \A t \in late' : t \in late \/ (t[1] # "open" => t[2] \in Known)
  BY <1>1, SubmittedKnown
<1>7. (rooted \cup proven)' \subseteq Known'
  BY <1>1 DEF IKnown
<1>8. \A d \in Clients :
        /\ Running(d)' => Running(d) /\ request'[d] = request[d]
        /\ request'[d].at \in {"idle", "ok"} =>
             request'[d].positionId \in Known \cup {None} \/ request'[d] = request[d]
  BY <1>4 DEF Running
<1>. QED  BY <1>1, <1>5, <1>6, <1>7, <1>8, EndedKnown

LEMMA StopKnown ==
  ASSUME IType, IKnown, crash \/ \E c \in Clients : take_answer(c)
  PROVE  IKnown'
<1>1. /\ Known' = Known /\ UNCHANGED <<rooted, proven, snapshot>>
      /\ late' \subseteq late \cup UNION {Submitted(c) : c \in Clients}
  BY DEF crash, take_answer, chainVars, Known
<1>2. \A d \in Clients :
        /\ Running(d)' => Running(d) /\ request'[d] = request[d]
        /\ request'[d].at \in {"idle", "ok"} =>
             request'[d].positionId = None \/ request'[d] = request[d]
  BY DEF crash, take_answer, IType, TypeOK, Running, NoRequest
<1>3. \A t \in late' : t \in late \/ (t[1] # "open" => t[2] \in Known)
  BY <1>1, SubmittedKnown
<1>4. (rooted \cup proven)' \subseteq Known' /\ snapshot'.positionId \in Known' \cup {None}
  BY <1>1 DEF IKnown
<1>. QED  BY <1>1, <1>2, <1>3, <1>4, EndedKnown

LEMMA KnownNext == IType /\ IBacked /\ IKnown /\ [Next]_vars => IKnown'
<1>. SUFFICES ASSUME IType, IBacked, IKnown, [Next]_vars PROVE IKnown'
  OBVIOUS
<1>1. CASE UNCHANGED vars
  <2>1. Known' = Known /\ UNCHANGED <<rooted, proven, late, snapshot, request>>
    BY <1>1 DEF vars, chainVars, Known
  <2>. QED  BY <2>1 DEF IKnown, Running
<1>. QED  BY <1>1, AskKnown, SucceedKnown, LandLateKnown, EndKnown, StopKnown
          DEF Next, ServerStep, HandlerStep

-------------------------------------------------------------------------------
(* What is shown is not behind the chain.                                  *)

\* What a snapshot s shows its position's phase to be.
PhaseShown(s) == IF s.repay # None THEN "repaid" ELSE IF s.draw # None THEN "drawn" ELSE "opened"

ProofShown(s) == s.positionId \in proven <=> s.historyProof # None

\* What happened to the position of s is what s shows.
Complete(s) == s.positionId # None => phase[s.positionId] = PhaseShown(s) /\ ProofShown(s)

\* What the handlers about to write add to the snapshot is what it lacks.
Lacking(c) ==
  LET p == request[c].positionId
      op == request[c].op IN
  /\ op = "open" => phase[p] = "opened" /\ p \notin proven
  /\ op = "draw" => phase[p] = "drawn" /\ snapshot.repay = None /\ ProofShown(snapshot)
  /\ op = "repay" => phase[p] = "repaid" /\ ProofShown(snapshot)
  /\ op = "history" => phase[p] = PhaseShown(snapshot) /\ p \in proven

\* One request runs at most, and will write over what is still stored.  Only its
\* own transaction, and between it and the write, is the snapshot behind.
OneByOne ==
  /\ late = {}
  /\ \A c, d \in Clients : Running(c) /\ Running(d) => c = d
  /\ \A c \in Clients : Running(c) /\ request[c].op \in WritesBack =>
       request[c].current = snapshot /\ request[c].positionId = snapshot.positionId
  /\ \A c \in Clients : AtWrite(c) => Lacking(c)
  /\ Complete(snapshot) \/ \E c \in Clients : AtWrite(c) /\ request[c].op \in WritesBack

IOneByOne == smooth /\ ~strayed => OneByOne

LEMMA OneByOneInit == Init => IOneByOne
  BY DEF Init, IOneByOne, OneByOne, Complete, blankState, Running, AtWrite, NoRequest

\* Steps that start nothing and change nothing on chain.
LEMMA OneByOneEnds ==
  ASSUME smooth /\ ~strayed => OneByOne, smooth' => smooth, strayed => strayed',
         smooth' => UNCHANGED <<phase, proven, late, snapshot>>,
         \A d \in Clients : Running(d)' => Running(d) /\ request'[d] = request[d],
         smooth' => \A d \in Clients : AtWrite(d) /\ request[d].op \in WritesBack => request'[d] = request[d]
  PROVE  IOneByOne'
  BY DEF IOneByOne, OneByOne, Running, AtWrite, AwaitsOf, Lacking, Complete, ProofShown, PhaseShown

LEMMA AskOneByOne ==
  ASSUME IType, IOneByOne, NEW c \in Clients, Ask(c)
  PROVE  IOneByOne'
<1>1. UNCHANGED <<phase, proven, late>> /\ (strayed => strayed')
  BY DEF Ask, bootstrapDemoFlow, resetDemoFlow, openDemoCredit, drawDemoCredit, repayDemoCredit,
         proveDemoRepaymentHistory, resolve, chainVars, IType, TypeOK
<1>2. ASSUME NEW op \in Ops, NEW p, NEW a, begin(c, op, p, a), Complete(snapshot) => Complete(snapshot)',
             op \in WritesBack => snapshot' = snapshot /\ (~strayed' => p = snapshot.positionId)
      PROVE  IOneByOne'
  <2>. SUFFICES ASSUME smooth', ~strayed' PROVE OneByOne'
    BY DEF IOneByOne
  <2>1. /\ smooth /\ ~strayed /\ \A d \in Clients : ~Running(d)
        /\ request'[c].op = op /\ request'[c].positionId = p /\ request'[c].step = 1
        /\ op \in WritesBack => request'[c].current = snapshot
        /\ \A d \in Clients \ {c} : request'[d] = request[d]
    BY <1>1, <1>2 DEF begin, Alone, Running, IType, TypeOK
  <2>2. late' = {} /\ Complete(snapshot)'
    BY <1>1, <1>2, <2>1 DEF IOneByOne, OneByOne, AtWrite
  <2>3. \A d \in Clients : Running(d)' => d = c
    BY <2>1 DEF Running
  <2>4. ~AtWrite(c)'
    <3>1. AwaitsOf(c)' = Awaits[op] /\ Len(Awaits[op]) \in 1 .. 5
      BY <2>1, AwaitsAreTransactions DEF AwaitsOf
    <3>2. PICK n \in 1 .. 5 : n = Len(Awaits[op])
      BY <3>1
    <3>3. ~(request'[c].step > n)
      BY <2>1
    <3>. QED  BY <3>1, <3>2, <3>3 DEF AtWrite
  <2>5. \A d \in Clients : ~AtWrite(d)'
    BY <2>3, <2>4 DEF AtWrite
  <2>. QED  BY <1>2, <2>1, <2>2, <2>3, <2>5 DEF OneByOne
<1>3. ASSUME snapshot' = snapshot
      PROVE  Complete(snapshot) => Complete(snapshot)'
  BY <1>1, <1>3 DEF Complete, ProofShown, PhaseShown
<1>4. ASSUME NEW op \in WritesBack, NEW input, NEW a, resolve(c, op, input, a), snapshot' = snapshot
      PROVE  IOneByOne'
  <2>1. begin(c, op, Or(input, snapshot.positionId), a) /\ op \in Ops
    BY <1>4, AwaitsAre DEF resolve, WritesBack
  <2>2. ~strayed' => Or(input, snapshot.positionId) = snapshot.positionId
    BY <1>4 DEF resolve, Or, IType, TypeOK
  <2>. QED  BY <1>2, <1>3, <1>4, <2>1, <2>2
<1>5. ASSUME NEW a, NEW p, bootstrapDemoFlow(c, a) \/ openDemoCredit(c, p, a)
      PROVE  IOneByOne'
  <2>1. snapshot' = snapshot /\ \E op \in Ops \ WritesBack : \E q : begin(c, op, q, a)
    BY <1>5, AwaitsAre DEF bootstrapDemoFlow, openDemoCredit, WritesBack
  <2>. QED  BY <1>2, <1>3, <2>1
<1>6. ASSUME NEW a, resetDemoFlow(c, a)
      PROVE  IOneByOne'
  <2>1. Complete(snapshot)'
    BY <1>6 DEF resetDemoFlow, blankState, Complete
  <2>2. begin(c, "reset", None, a) /\ "reset" \in Ops \ WritesBack
    BY <1>6, AwaitsAre DEF resetDemoFlow, WritesBack
  <2>. QED  BY <1>2, <2>1, <2>2
<1>7. ASSUME NEW a, NEW p, drawDemoCredit(c, p, a) \/ repayDemoCredit(c, p, a)
      PROVE  IOneByOne'
  BY <1>4, <1>7 DEF drawDemoCredit, repayDemoCredit, WritesBack
<1>8. ASSUME NEW p, proveDemoRepaymentHistory(c, p)
      PROVE  IOneByOne'
  <2>1. CASE resolve(c, "history", p, None)
    BY <1>4, <1>8, <2>1 DEF proveDemoRepaymentHistory, WritesBack
  <2>2. CASE /\ request[c].at = "idle" /\ request' = [request EXCEPT ![c].at = "ok"]
             /\ UNCHANGED <<strayed, smooth>>
    <3>1. request'[c].at = "ok" /\ \A d \in Clients \ {c} : request'[d] = request[d]
      BY <2>2 DEF IType, TypeOK, Request
    <3>2. snapshot' = snapshot /\ ~Running(c)
      BY <1>8, <2>2 DEF proveDemoRepaymentHistory, Running
    <3>. QED  BY <1>1, <2>2, <3>1, <3>2, OneByOneEnds DEF Running, AtWrite, IOneByOne
  <2>. QED  BY <1>8, <2>1, <2>2 DEF proveDemoRepaymentHistory
<1>. QED  BY <1>5, <1>6, <1>7, <1>8 DEF Ask

\* What an await that returns has brought about, and whether it was the last.
LEMMA WhatSucceeded ==
  ASSUME IType, NEW c \in Clients, succeed(c)
  PROVE  LET op == request[c].op
             p == request[c].positionId IN
         \/ op \in Positionless /\ UNCHANGED <<phase, proven>>
         \/ /\ op \in {"open", "draw", "repay"} /\ AtWrite(c)' /\ accepted(op, p)
            /\ phase' = [phase EXCEPT ![p] = PhaseAfter(op)] /\ UNCHANGED proven
         \/ op = "history" /\ ~AtWrite(c)' /\ UNCHANGED <<phase, proven>>
         \/ op = "history" /\ AtWrite(c)' /\ UNCHANGED phase /\ proven' = proven \cup {p}
<1>1. /\ Awaiting(c) /\ Running(c) /\ request' = [request EXCEPT ![c].step = @ + 1]
  BY DEF succeed, Awaiting
<1>2. PICK op, tx, p, i, n :
        /\ op \in Ops /\ op = request[c].op /\ tx = AwaitsOf(c)[request[c].step]
        /\ p = request[c].positionId /\ i = request[c].step /\ n = Len(Awaits[op])
  BY <1>1, WrittenTyped
<1>3. AwaitsOf(c) = Awaits[op] /\ n \in 1 .. 5 /\ i \in 1 .. n /\ tx = Awaits[op][i]
  <2>1. AwaitsOf(c) = Awaits[op] /\ Len(Awaits[op]) \in 1 .. 5
    BY <1>2, AwaitsAreTransactions DEF AwaitsOf
  <2>2. request[c].step \in 1 .. 6
    BY <1>1, WrittenTyped
  <2>3. request[c].step <= Len(AwaitsOf(c))
    BY <1>1 DEF Awaiting
  <2>. QED  BY <1>2, <2>1, <2>2, <2>3
<1>4. AtWrite(c)' <=> i = n
  <2>1. /\ request'[c].at = request[c].at /\ request'[c].op = op /\ request'[c].step = i + 1
        /\ AwaitsOf(c)' = Awaits[op]
    BY <1>1, <1>2 DEF IType, TypeOK, Request, AwaitsOf
  <2>2. AtWrite(c)' <=> i + 1 > n
    BY <1>1, <1>2, <2>1 DEF AtWrite, Running
  <2>. QED  BY <1>3, <2>2
<1>5. /\ tx \in Transactions => take_effect(tx, p)
      /\ tx \notin Transactions => UNCHANGED <<phase, proven>>
  <2>1. CASE tx \in Transactions
    <3>1. Submitted(c) = {<<tx, p>>}
      BY <1>1, <1>2, <2>1 DEF Submitted
    <3>2. \A t \in Submitted(c) : take_effect(t[1], t[2])
      BY <3>1 DEF succeed
    <3>. QED  BY <2>1, <3>1, <3>2
  <2>2. CASE tx \notin Transactions
    <3>1. Submitted(c) = {}
      BY <1>2, <2>2 DEF Submitted
    <3>. QED  BY <2>2, <3>1 DEF succeed
  <2>. QED  BY <2>1, <2>2
<1>6. CASE op \in Positionless
  <2>1. Awaits[op] = <<"sync">>
    BY <1>6, AwaitsAre DEF Positionless
  <2>2. tx = "sync"
    BY <1>2, <1>3, <2>1
  <2>. QED  BY <1>2, <1>5, <1>6, <2>2 DEF Transactions
<1>7. CASE op \in {"open", "draw", "repay"}
  <2>1. Awaits[op] = <<op>>
    BY <1>7, AwaitsAre
  <2>2. tx = op /\ i = n
    BY <1>2, <1>3, <2>1
  <2>3. take_effect(op, p)
    BY <1>5, <1>7, <2>2 DEF Transactions
  <2>. QED  BY <1>2, <1>4, <1>7, <2>2, <2>3 DEF take_effect
<1>8. CASE op = "history"
  <2>1. n = 5 /\ tx = <<"seed1", "seed2", "seed3", "finalize", "verify">>[i] /\ i \in 1 .. 5
    BY <1>2, <1>3, <1>8, AwaitsAre
  <2>2. take_effect(tx, p)
    BY <1>5, <2>1 DEF Transactions
  <2>3. CASE i = 5
    <3>1. tx = "verify"
      BY <2>1, <2>3
    <3>. QED  BY <1>2, <1>4, <1>8, <2>1, <2>2, <2>3, <3>1 DEF take_effect
  <2>4. CASE i # 5
    <3>1. tx \notin {"open", "draw", "repay", "verify"}
      BY <2>1, <2>4
    <3>. QED  BY <1>2, <1>4, <1>8, <2>1, <2>2, <2>4, <3>1 DEF take_effect
  <2>. QED  BY <2>3, <2>4
<1>. QED  BY <1>2, <1>6, <1>7, <1>8, AwaitsAre DEF Positionless

\* Alone and before its transaction, a handler finds the snapshot complete; after
\* it the snapshot lacks what the handler will write.
LEMMA SucceedOneByOne ==
  ASSUME IType, IKnown, IOneByOne, NEW c \in Clients, succeed(c)
  PROVE  IOneByOne'
<1>. SUFFICES ASSUME smooth', ~strayed' PROVE OneByOne'
  BY DEF IOneByOne
<1>1. /\ Awaiting(c) /\ Running(c) /\ request' = [request EXCEPT ![c].step = @ + 1]
      /\ UNCHANGED <<late, sep31, snapshot, strayed, smooth>>
  BY DEF succeed, Awaiting
<1>2. OneByOne /\ \A d \in Clients : Running(d) => d = c
  BY <1>1 DEF IOneByOne, OneByOne
<1>3. ~AtWrite(c)
  <2>1. PICK op \in Ops : op = request[c].op
    BY <1>1, WrittenTyped
  <2>2. AwaitsOf(c) = Awaits[op] /\ Len(Awaits[op]) \in 1 .. 5 /\ request[c].step \in 1 .. 6
    BY <1>1, <2>1, WrittenTyped, AwaitsAreTransactions DEF AwaitsOf
  <2>3. PICK n \in 1 .. 5 : n = Len(AwaitsOf(c))
    BY <2>2
  <2>. QED  BY <1>1, <2>2, <2>3 DEF Awaiting, AtWrite
<1>4. Complete(snapshot)
  BY <1>2, <1>3 DEF OneByOne, AtWrite
<1>5. /\ \A d \in Clients \ {c} : request'[d] = request[d]
      /\ \A d \in Clients : request'[d].at = request[d].at /\ request'[d].op = request[d].op
      /\ \A d \in Clients : request'[d].positionId = request[d].positionId
      /\ \A d \in Clients : request'[d].current = request[d].current
  BY <1>1 DEF IType, TypeOK, Request
<1>6. /\ late' = {}
      /\ \A d \in Clients : Running(d)' => d = c
      /\ Running(c)' /\ request'[c].op \in WritesBack =>
           request'[c].current = snapshot' /\ request'[c].positionId = snapshot'.positionId
  BY <1>1, <1>2, <1>5 DEF OneByOne, Running
<1>7. PICK op, p, s :
        op \in Ops /\ op = request[c].op /\ p = request[c].positionId /\ s = snapshot
  BY <1>1, WrittenTyped
<1>8. /\ op \notin Positionless => p \in PositionIds
      /\ op \in WritesBack => p = s.positionId /\ p # None /\ p \in Known
      /\ s.positionId \in Known \cup {None} /\ proven \subseteq Known
      /\ s \in DemoFlowSnapshot
      /\ snapshot' = s /\ request'[c].op = op /\ request'[c].positionId = p
      /\ phase \in [PositionIds -> {"none", "opened", "drawn", "repaid"}]
      /\ Complete(s)
  BY <1>1, <1>2, <1>4, <1>5, <1>7, WrittenTyped, DemoFlowAssumption
     DEF IKnown, OneByOne, IType, TypeOK, Known, WritesBack, Positionless
<1>9. (AtWrite(c)' => Lacking(c)') /\ (Complete(snapshot)' \/ (AtWrite(c)' /\ op \in WritesBack))
  <2>1. CASE op \in Positionless /\ UNCHANGED <<phase, proven>>
    BY <1>8, <2>1 DEF Positionless, Lacking, Complete, ProofShown, PhaseShown
  <2>2. CASE op = "open" /\ accepted(op, p) /\ phase' = [phase EXCEPT ![p] = "opened"] /\ UNCHANGED proven
    <3>1. p \in PositionIds /\ phase[p] = "none" /\ p \notin Known
      BY <1>8, <2>2 DEF accepted, Positionless, Known
    <3>2. Lacking(c)'
      BY <1>8, <2>2, <3>1 DEF Lacking
    <3>3. Complete(snapshot)'
      BY <1>8, <2>2, <3>1 DEF Complete, ProofShown, PhaseShown, Known
    <3>. QED  BY <3>2, <3>3
  <2>3. CASE /\ op = "draw" /\ accepted(op, p) /\ phase' = [phase EXCEPT ![p] = "drawn"]
             /\ UNCHANGED proven /\ AtWrite(c)'
    <3>1. p \in PositionIds /\ phase[p] = "opened" /\ p = s.positionId /\ p # None
      BY <1>8, <2>3 DEF accepted, Positionless, WritesBack
    <3>2. s.repay = None /\ ProofShown(s)
      BY <1>8, <3>1 DEF Complete, PhaseShown
    <3>. QED  BY <1>8, <2>3, <3>1, <3>2 DEF Lacking, ProofShown, WritesBack
  <2>4. CASE /\ op = "repay" /\ accepted(op, p) /\ phase' = [phase EXCEPT ![p] = "repaid"]
             /\ UNCHANGED proven /\ AtWrite(c)'
    <3>1. p \in PositionIds /\ p = s.positionId /\ p # None
      BY <1>8, <2>4 DEF Positionless, WritesBack
    <3>2. ProofShown(s)
      BY <1>8, <3>1 DEF Complete
    <3>. QED  BY <1>8, <2>4, <3>1, <3>2 DEF Lacking, ProofShown, WritesBack
  <2>5. CASE op = "history" /\ ~AtWrite(c)' /\ UNCHANGED <<phase, proven>>
    BY <1>8, <2>5 DEF Complete, ProofShown, PhaseShown
  <2>6. CASE op = "history" /\ AtWrite(c)' /\ UNCHANGED phase /\ proven' = proven \cup {p}
    <3>1. p = s.positionId /\ p # None
      BY <1>8, <2>6 DEF WritesBack
    <3>. QED  BY <1>8, <2>6, <3>1 DEF Lacking, Complete, PhaseShown, WritesBack
  <2>. QED  BY <1>7, <2>1, <2>2, <2>3, <2>4, <2>5, <2>6, WhatSucceeded DEF PhaseAfter
<1>10. \A d \in Clients : AtWrite(d)' => d = c
  BY <1>6 DEF AtWrite
<1>. QED  BY <1>5, <1>6, <1>7, <1>9, <1>10 DEF OneByOne

\* What spoils the one-by-one says so.
LEMMA QuietOneByOne ==
  ASSUME IType, IOneByOne,
         \/ \E c \in Clients : \/ refuse(c) \/ give_up(c) \/ throw_at_settlement(c)
                               \/ take_answer(c)
         \/ \E t \in late : land_late(t[1], t[2])
         \/ crash
  PROVE  IOneByOne'
<1>1. ASSUME NEW c \in Clients, refuse(c)
      PROVE  IOneByOne'
  <2>1. /\ Awaiting(c) /\ answer(c, "error", None) /\ (smooth' => smooth)
        /\ UNCHANGED <<phase, proven, late, snapshot, strayed>>
    BY <1>1 DEF refuse, chainVars, IType, TypeOK
  <2>2. \A d \in Clients : Running(d)' => Running(d) /\ request'[d] = request[d]
    BY <2>1, AnswerEnds
  <2>3. ~AtWrite(c)
    <3>1. PICK op \in Ops : op = request[c].op
      BY <2>1, WrittenTyped DEF Awaiting
    <3>2. AwaitsOf(c) = Awaits[op] /\ Len(Awaits[op]) \in 1 .. 5 /\ request[c].step \in 1 .. 6
      BY <2>1, <3>1, WrittenTyped, AwaitsAreTransactions DEF AwaitsOf, Awaiting
    <3>3. PICK n \in 1 .. 5 : n = Len(AwaitsOf(c))
      BY <3>2
    <3>. QED  BY <2>1, <3>2, <3>3 DEF Awaiting, AtWrite
  <2>4. \A d \in Clients : AtWrite(d) => request'[d] = request[d]
    BY <2>1, <2>3 DEF answer, IType, TypeOK
  <2>. QED  BY <2>1, <2>2, <2>4, OneByOneEnds DEF IOneByOne
<1>2. ASSUME ~smooth'
      PROVE  IOneByOne'
  BY <1>2 DEF IOneByOne
<1>3. ASSUME NEW c \in Clients, take_answer(c)
      PROVE  IOneByOne'
  <2>1. /\ request[c].at \in {"ok", "error"} /\ request'[c].at = "idle"
        /\ \A d \in Clients \ {c} : request'[d] = request[d]
        /\ UNCHANGED <<phase, proven, late, snapshot, strayed, smooth>>
    BY <1>3 DEF take_answer, chainVars, IType, TypeOK, NoRequest
  <2>. QED  BY <2>1, OneByOneEnds DEF IOneByOne, Running, AtWrite
<1>4. ASSUME NEW t \in late, land_late(t[1], t[2])
      PROVE  IOneByOne'
  BY <1>4 DEF land_late, IOneByOne, OneByOne
<1>5. ASSUME crash \/ \E c \in Clients : give_up(c) \/ throw_at_settlement(c)
      PROVE  ~smooth'
  BY <1>5 DEF crash, give_up, throw_at_settlement
<1>. QED  BY <1>1, <1>2, <1>3, <1>4, <1>5

\* What a handler writes is what the snapshot lacked.
LEMMA WriteOneByOne ==
  ASSUME IType, IOneByOne, NEW c \in Clients,
         \/ write_bootstrap(c) \/ write_open(c) \/ write_draw(c) \/ write_repay(c)
         \/ write_history(c)
  PROVE  IOneByOne'
<1>. SUFFICES ASSUME smooth', ~strayed' PROVE OneByOne'
  BY DEF IOneByOne
<1>1. /\ AtWrite(c) /\ Running(c) /\ UNCHANGED <<phase, proven, late, smooth, strayed>>
      /\ \E q : answer(c, "ok", q)
  BY DEF write_bootstrap, write_open, write_draw, write_repay, write_history, AtWrite, chainVars
<1>2. OneByOne /\ Lacking(c) /\ \A d \in Clients : Running(d) => d = c
  BY <1>1 DEF IOneByOne, OneByOne
<1>3. \A d \in Clients : ~Running(d)'
  <2>1. request'[c].at = "ok" /\ \A d \in Clients \ {c} : request'[d] = request[d]
    BY <1>1 DEF answer, IType, TypeOK, NoRequest
  <2>. QED  BY <1>2, <2>1 DEF Running
<1>4. PICK op, p, s :
        op \in Ops /\ op = request[c].op /\ p = request[c].positionId /\ s = snapshot
  BY <1>1, WrittenTyped
<1>5. /\ op \notin Positionless => p \in PositionIds /\ p # None
      /\ op \in WritesBack => p = s.positionId /\ request[c].current = s
      /\ op \notin WritesBack => Complete(s)
      /\ s \in DemoFlowSnapshot
  <2>1. op \notin Positionless => p \in PositionIds /\ p # None
    BY <1>1, <1>4, WrittenTyped, DemoFlowAssumption
  <2>2. op \in WritesBack => p = s.positionId /\ request[c].current = s
    BY <1>1, <1>2, <1>4 DEF OneByOne
  <2>3. op \notin WritesBack => Complete(s)
    BY <1>2, <1>4 DEF OneByOne, AtWrite
  <2>. QED  BY <1>4, <2>1, <2>2, <2>3 DEF IType, TypeOK
<1>6. Complete(snapshot)'
  <2>1. CASE write_bootstrap(c)
    <3>1. /\ Complete(s) /\ snapshot'.positionId = s.positionId /\ snapshot'.draw = s.draw
          /\ snapshot'.repay = s.repay /\ snapshot'.historyProof = s.historyProof
      BY <1>4, <1>5, <2>1 DEF write_bootstrap, WritesBack, DemoFlowSnapshot
    <3>. QED  BY <1>1, <3>1 DEF Complete, ProofShown, PhaseShown
  <2>2. CASE write_open(c)
    <3>1. /\ snapshot'.positionId = p /\ snapshot'.draw = None /\ snapshot'.repay = None
          /\ snapshot'.historyProof = None /\ op = "open"
      BY <1>4, <1>5, <2>2 DEF write_open, cleared, DemoFlowSnapshot
    <3>. QED  BY <1>1, <1>2, <1>4, <3>1 DEF Complete, ProofShown, PhaseShown, Lacking
  <2>3. CASE write_draw(c)
    <3>1. /\ op = "draw" /\ p = s.positionId /\ p # None /\ request[c].current = s
      BY <1>4, <1>5, <2>3 DEF write_draw, WritesBack, Positionless
    <3>2. /\ snapshot'.positionId = p /\ snapshot'.draw = p /\ snapshot'.repay = s.repay
          /\ snapshot'.historyProof = s.historyProof
      BY <1>4, <1>5, <2>3, <3>1 DEF write_draw, written_over, DemoFlowSnapshot
    <3>. QED  BY <1>1, <1>2, <1>4, <3>1, <3>2 DEF Complete, ProofShown, PhaseShown, Lacking
  <2>4. CASE write_repay(c)
    <3>1. /\ op = "repay" /\ p = s.positionId /\ p # None /\ request[c].current = s
      BY <1>4, <1>5, <2>4 DEF write_repay, WritesBack, Positionless
    <3>2. /\ snapshot'.positionId = p /\ snapshot'.repay = p
          /\ snapshot'.historyProof = s.historyProof
      BY <1>4, <1>5, <2>4, <3>1 DEF write_repay, written_over, DemoFlowSnapshot
    <3>. QED  BY <1>1, <1>2, <1>4, <3>1, <3>2 DEF Complete, ProofShown, PhaseShown, Lacking
  <2>5. CASE write_history(c)
    <3>1. /\ op = "history" /\ p = s.positionId /\ p # None /\ request[c].current = s
      BY <1>4, <1>5, <2>5 DEF write_history, WritesBack, Positionless
    <3>2. /\ snapshot'.positionId = p /\ snapshot'.draw = s.draw /\ snapshot'.repay = s.repay
          /\ snapshot'.historyProof = p
      BY <1>4, <1>5, <2>5, <3>1 DEF write_history, written_over, DemoFlowSnapshot
    <3>. QED  BY <1>1, <1>2, <1>4, <3>1, <3>2 DEF Complete, ProofShown, PhaseShown, Lacking
  <2>. QED  BY <2>1, <2>2, <2>3, <2>4, <2>5
<1>. QED  BY <1>1, <1>2, <1>3, <1>6 DEF OneByOne, AtWrite

LEMMA OneByOneNext == IType /\ IKnown /\ IOneByOne /\ [Next]_vars => IOneByOne'
<1>. SUFFICES ASSUME IType, IKnown, IOneByOne, [Next]_vars PROVE IOneByOne'
  OBVIOUS
<1>1. CASE UNCHANGED vars
  <2>1. UNCHANGED <<phase, proven, late, snapshot, request, smooth, strayed>>
    BY <1>1 DEF vars, chainVars
  <2>. QED  BY <2>1, OneByOneEnds DEF IOneByOne, Running
<1>. QED  BY <1>1, AskOneByOne, SucceedOneByOne, QuietOneByOne, WriteOneByOne
          DEF Next, ServerStep, HandlerStep

\* Every position that is named there is: by the snapshot, by a handler that writes
\* back or a transaction it left behind, by an answer (demo-flow.ts).
THEOREM PositionsKnown == Spec => []IKnown
  BY TypeInit, TypeNext, BackedInit, BackedNext, KnownInit, KnownNext, PTL DEF Spec

\* As long as requests come one by one and none ends half done, the snapshot shows
\* all that happened to its position, once the last request is answered, for any
\* positions and clients (demo-flow.ts: read, await, write back).
THEOREM SnapshotCompleted == Spec => []SnapshotComplete
<1>1. IOneByOne => SnapshotComplete
  BY DEF IOneByOne, OneByOne, Complete, ProofShown, PhaseShown, AtWrite, SnapshotComplete
<1>. QED  BY <1>1, PositionsKnown, FlowTyped, OneByOneInit, OneByOneNext, PTL DEF Spec

-------------------------------------------------------------------------------
(* What a request leaves out of the snapshot, it did not find there.       *)

\* A handler that writes has the snapshot as it is stored, or reads it again; and
\* an open finds a position that nothing is shown of.
LEMMA WriteForgetsNothing ==
  ASSUME IType, OneByOne, NEW c \in Clients,
         \/ write_bootstrap(c) \/ write_open(c) \/ write_draw(c) \/ write_repay(c)
         \/ write_history(c),
         snapshot.positionId # None, snapshot'.positionId = snapshot.positionId
  PROVE  Shown(snapshot) \subseteq Shown(snapshot')
<1>1. AtWrite(c) /\ Running(c)
  BY DEF write_bootstrap, write_open, write_draw, write_repay, write_history, AtWrite
<1>2. PICK op, p, s :
        op \in Ops /\ op = request[c].op /\ p = request[c].positionId /\ s = snapshot
  BY <1>1, WrittenTyped
<1>3. /\ s \in DemoFlowSnapshot
      /\ op \notin Positionless => p \in PositionIds /\ p # None
      /\ op \in WritesBack => request[c].current = s
  <2>1. op \notin Positionless => p \in PositionIds /\ p # None
    BY <1>1, <1>2, WrittenTyped, DemoFlowAssumption
  <2>2. op \in WritesBack => request[c].current = s
    BY <1>1, <1>2 DEF OneByOne
  <2>. QED  BY <1>2, <2>1, <2>2 DEF IType, TypeOK
<1>. DEFINE Keeps(t) == /\ s.open # None => t.open # None
                        /\ s.draw # None => t.draw # None
                        /\ s.repay # None => t.repay # None
                        /\ s.historyProof # None => t.historyProof # None
<1>4. Keeps(snapshot')
  <2>1. CASE write_bootstrap(c)
    BY <1>2, <1>3, <2>1 DEF write_bootstrap, DemoFlowSnapshot
  <2>2. CASE write_open(c)
    <3>1. op = "open" /\ snapshot'.positionId = p /\ snapshot'.open = p
      BY <1>2, <1>3, <2>2 DEF write_open, cleared, DemoFlowSnapshot
    <3>2. op \notin Positionless /\ op \notin WritesBack
      BY <3>1 DEF Positionless, WritesBack
    <3>3. Lacking(c) /\ Complete(s)
      BY <1>1, <1>2, <3>2 DEF OneByOne, AtWrite
    <3>4. /\ s.positionId = p /\ phase[p] = "opened" /\ p \notin proven
      BY <1>2, <3>1, <3>3 DEF Lacking
    <3>5. s.draw = None /\ s.repay = None /\ s.historyProof = None
      BY <1>3, <3>2, <3>3, <3>4 DEF Complete, PhaseShown, ProofShown
    <3>. QED  BY <1>3, <3>1, <3>2, <3>5
  <2>3. CASE write_draw(c)
    <3>1. op = "draw" /\ request[c].current = s /\ p # None
      BY <1>2, <1>3, <2>3 DEF write_draw, WritesBack, Positionless
    <3>. QED  BY <1>2, <1>3, <2>3, <3>1 DEF write_draw, written_over, DemoFlowSnapshot
  <2>4. CASE write_repay(c)
    <3>1. op = "repay" /\ request[c].current = s /\ p # None
      BY <1>2, <1>3, <2>4 DEF write_repay, WritesBack, Positionless
    <3>. QED  BY <1>2, <1>3, <2>4, <3>1 DEF write_repay, written_over, DemoFlowSnapshot
  <2>5. CASE write_history(c)
    <3>1. op = "history" /\ request[c].current = s /\ p # None
      BY <1>2, <1>3, <2>5 DEF write_history, WritesBack, Positionless
    <3>. QED  BY <1>2, <1>3, <2>5, <3>1 DEF write_history, written_over, DemoFlowSnapshot
  <2>. QED  BY <2>1, <2>2, <2>3, <2>4, <2>5
<1>. QED  BY <1>2, <1>4 DEF Shown

\* Only a write or a reset changes the snapshot.
LEMMA SnapshotMoves ==
  ASSUME [Next]_vars, snapshot' # snapshot
  PROVE  \/ \E c \in Clients : \/ write_bootstrap(c) \/ write_open(c) \/ write_draw(c)
                               \/ write_repay(c) \/ write_history(c)
         \/ snapshot'.positionId = None
<1>1. CASE UNCHANGED vars
  BY <1>1 DEF vars
<1>2. ASSUME NEW c \in Clients, NEW a, resetDemoFlow(c, a)
      PROVE  snapshot'.positionId = None
  BY <1>2 DEF resetDemoFlow, blankState
<1>3. ASSUME NEW c \in Clients, Ask(c)
      PROVE  snapshot'.positionId = None
  BY <1>2, <1>3 DEF Ask, bootstrapDemoFlow, openDemoCredit, drawDemoCredit, repayDemoCredit,
                    proveDemoRepaymentHistory
<1>4. ASSUME NEW c \in Clients,
             take_answer(c) \/ succeed(c) \/ refuse(c) \/ give_up(c) \/ throw_at_settlement(c)
      PROVE  FALSE
  BY <1>4 DEF take_answer, succeed, refuse, give_up, throw_at_settlement
<1>5. ~crash /\ ~\E t \in late : land_late(t[1], t[2])
  BY DEF crash, land_late
<1>. QED  BY <1>1, <1>3, <1>4, <1>5 DEF Next, ServerStep, HandlerStep

\* The history variables remember: neither is ever taken back.
LEMMA SmoothBefore ==
  ASSUME IType, [Next]_vars, smooth', ~strayed'
  PROVE  smooth /\ ~strayed
<1>. smooth \in BOOLEAN /\ strayed \in BOOLEAN
  BY DEF IType, TypeOK
<1>1. ASSUME NEW c \in Clients, NEW op, NEW p, NEW a, begin(c, op, p, a)
      PROVE  smooth
  BY <1>1 DEF begin
<1>2. ASSUME NEW c \in Clients, Ask(c)
      PROVE  smooth /\ ~strayed
  BY <1>1, <1>2 DEF Ask, bootstrapDemoFlow, resetDemoFlow, openDemoCredit, drawDemoCredit,
                    repayDemoCredit, proveDemoRepaymentHistory, resolve
<1>3. ASSUME NEW c \in Clients,
             \/ take_answer(c) \/ succeed(c) \/ refuse(c) \/ give_up(c) \/ throw_at_settlement(c)
             \/ write_bootstrap(c) \/ write_open(c) \/ write_draw(c) \/ write_repay(c)
             \/ write_history(c)
      PROVE  smooth /\ ~strayed
  BY <1>3 DEF take_answer, succeed, refuse, give_up, throw_at_settlement, write_bootstrap,
              write_open, write_draw, write_repay, write_history
<1>4. ~crash
  BY DEF crash
<1>5. ASSUME NEW t \in late, land_late(t[1], t[2])
      PROVE  smooth /\ ~strayed
  BY <1>5 DEF land_late
<1>6. CASE UNCHANGED vars
  BY <1>6 DEF vars
<1>. QED  BY <1>2, <1>3, <1>4, <1>5, <1>6 DEF Next, ServerStep, HandlerStep

\* As long as requests come one by one and none ends half done, no section of the
\* snapshot is taken away from its position: draw, repay and history write over what
\* is stored, and an open is of a position that nothing is shown of (demo-flow.ts).
THEOREM NothingIsForgotten == Spec => NothingForgotten
<1>1. IType /\ IOneByOne /\ [Next]_vars =>
        [(smooth' /\ ~strayed' /\ snapshot.positionId # None
          /\ snapshot'.positionId = snapshot.positionId) =>
           Shown(snapshot) \subseteq Shown(snapshot')]_vars
  BY WriteForgetsNothing, SnapshotMoves, SmoothBefore DEF IOneByOne
<1>. QED
  BY <1>1, PositionsKnown, FlowTyped, OneByOneInit, OneByOneNext, PTL DEF Spec, NothingForgotten

-------------------------------------------------------------------------------
(* The chain as the flow moves it.                                         *)

\* A step of the flow is one transaction that takes effect, or none.
LEMMA ChainMoves ==
  ASSUME IType, [Next]_vars
  PROVE  \/ \E tx \in Transactions, p \in PositionIds : take_effect(tx, p)
         \/ UNCHANGED <<phase, seeded, rooted, proven>>
<1>1. ASSUME NEW c \in Clients, succeed(c), Submitted(c) # {}
      PROVE  \E tx \in Transactions, p \in PositionIds : take_effect(tx, p)
  <2>1. PICK t \in Submitted(c) : take_effect(t[1], t[2])
    BY <1>1 DEF succeed
  <2>2. t[1] \in Transactions /\ t[2] \in PositionIds
    BY <2>1, SubmittedTyped
  <2>. QED  BY <2>1, <2>2
<1>2. ASSUME NEW c \in Clients, succeed(c), Submitted(c) = {}
      PROVE  UNCHANGED <<phase, seeded, rooted, proven>>
  BY <1>2 DEF succeed
<1>3. ASSUME NEW t \in late, land_late(t[1], t[2])
      PROVE  \E tx \in Transactions, p \in PositionIds : take_effect(tx, p)
  BY <1>3 DEF land_late, IType, TypeOK
<1>4. ASSUME NEW c \in Clients, Ask(c)
      PROVE  UNCHANGED chainVars
  BY <1>4 DEF Ask, bootstrapDemoFlow, resetDemoFlow, openDemoCredit, drawDemoCredit,
              repayDemoCredit, proveDemoRepaymentHistory
<1>5. ASSUME NEW c \in Clients,
             \/ take_answer(c) \/ refuse(c) \/ give_up(c) \/ throw_at_settlement(c)
             \/ write_bootstrap(c) \/ write_open(c) \/ write_draw(c) \/ write_repay(c)
             \/ write_history(c)
      PROVE  UNCHANGED <<phase, seeded, rooted, proven>>
  BY <1>5 DEF take_answer, refuse, give_up, throw_at_settlement, write_bootstrap, write_open,
              write_draw, write_repay, write_history, chainVars
<1>6. crash \/ UNCHANGED vars => UNCHANGED <<phase, seeded, rooted, proven>>
  BY DEF crash, vars, chainVars
<1>. QED
  BY <1>1, <1>2, <1>3, <1>4, <1>5, <1>6 DEF Next, ServerStep, HandlerStep, chainVars

\* What a transaction does to a position, the credit line or the registry allows.
LEMMA EffectPhases ==
  ASSUME NEW tx \in Transactions, NEW p \in PositionIds, take_effect(tx, p)
  PROVE  [OnChain!Next]_phase
<1>1. CASE tx \in {"open", "draw", "repay"}
  <2>1. OnChain!Open(p) \/ OnChain!Draw(p) \/ OnChain!Repay(p)
    BY <1>1 DEF take_effect, accepted, PhaseAfter, OnChain!Open, OnChain!Draw, OnChain!Repay,
                OnChain!Outstanding, OnChain!Turns
  <2>. QED  BY <2>1 DEF OnChain!Next
<1>2. CASE tx \notin {"open", "draw", "repay"}
  BY <1>2 DEF take_effect
<1>. QED  BY <1>1, <1>2

\* A root is of all leaves there are, so none is filed after it.
RootedFull == \A p \in rooted : seeded[p] = LeavesPerPosition

LEMMA EffectRecords ==
  ASSUME IType, RootedFull, NEW tx \in Transactions, NEW p \in PositionIds, take_effect(tx, p)
  PROVE  RootedFull' /\ [Registry!Next]_(Registry!recordVars)
<1>1. seeded \in [PositionIds -> 0 .. LeavesPerPosition] /\ rooted \subseteq PositionIds
  BY DEF IType, TypeOK
<1>2. CASE tx \in {"seed1", "seed2", "seed3"}
  <2>1. /\ seeded[p] = LeafNumber(tx) - 1 /\ LeafNumber(tx) \in 1 .. 3
        /\ seeded' = [seeded EXCEPT ![p] = LeafNumber(tx)] /\ UNCHANGED <<rooted, proven>>
    <3>1. LeafNumber("seed1") = 1 /\ LeafNumber("seed2") = 2 /\ LeafNumber("seed3") = 3
      BY DEF LeafNumber
    <3>. QED  BY <1>2, <3>1 DEF take_effect, accepted
  <2>2. LeafNumber(tx) = seeded[p] + 1 /\ seeded[p] < LeavesPerPosition
    BY <1>1, <2>1 DEF LeavesPerPosition
  <2>3. p \notin rooted
    BY <2>2 DEF RootedFull, LeavesPerPosition
  <2>4. Registry!File(p)
    BY <2>1, <2>2, <2>3 DEF Registry!File
  <2>5. RootedFull'
    BY <1>1, <2>1, <2>3 DEF RootedFull
  <2>. QED  BY <2>4, <2>5 DEF Registry!Next
<1>3. CASE tx = "finalize"
  <2>1. /\ seeded[p] = LeavesPerPosition /\ rooted' = rooted \cup {p}
        /\ UNCHANGED <<seeded, proven>>
    BY <1>3 DEF take_effect, accepted
  <2>2. Registry!Root(p) /\ RootedFull'
    BY <2>1 DEF Registry!Root, RootedFull
  <2>. QED  BY <2>2 DEF Registry!Next
<1>4. CASE tx = "verify"
  <2>1. p \in rooted /\ proven' = proven \cup {p} /\ UNCHANGED <<seeded, rooted>>
    BY <1>4 DEF take_effect, accepted
  <2>2. Registry!Prove(p) /\ RootedFull'
    BY <2>1 DEF Registry!Prove, RootedFull
  <2>. QED  BY <2>2 DEF Registry!Next
<1>5. CASE tx \in {"open", "draw", "repay"}
  BY <1>5 DEF take_effect, RootedFull, Registry!recordVars
<1>. QED  BY <1>2, <1>3, <1>4, <1>5 DEF Transactions

LEMMA FlowChainStep ==
  IType /\ RootedFull /\ [Next]_vars =>
    RootedFull' /\ [OnChain!Next]_phase /\ [Registry!Next]_(Registry!recordVars)
<1>. SUFFICES ASSUME IType, RootedFull, [Next]_vars
              PROVE  RootedFull' /\ [OnChain!Next]_phase /\ [Registry!Next]_(Registry!recordVars)
  OBVIOUS
<1>1. CASE \E tx \in Transactions, p \in PositionIds : take_effect(tx, p)
  BY <1>1, EffectPhases, EffectRecords
<1>2. CASE UNCHANGED <<phase, seeded, rooted, proven>>
  BY <1>2 DEF RootedFull, Registry!recordVars
<1>. QED  BY <1>1, <1>2, ChainMoves

\* The flow implements PositionPhases and HistoryRecord, as the credit line and the
\* registry do, whatever overlaps, is lost or lands late: nothing it is supposed to
\* make happen on chain is anything the contracts would refuse.
THEOREM FlowKeepsChain == Spec => ChainInOrder
<1>1. Init => RootedFull /\ OnChain!Init /\ Registry!Init
  BY DEF Init, RootedFull, OnChain!Init, Registry!Init
<1>. QED
  BY <1>1, FlowTyped, FlowChainStep, PTL
  DEF Spec, ChainInOrder, OnChain!Spec, Registry!Spec

-------------------------------------------------------------------------------
(* The flow as who reads it sees it.                                       *)

\* Of the steps of the flow it shows a history verified, a snapshot written, or that
\* a request went astray, and never two of them at once.
LEMMA ViewMoves ==
  ASSUME IType, [Next]_vars
  PROVE  \/ UNCHANGED <<proven, strayed>>
         \/ UNCHANGED <<snapshot, proven>> /\ strayed' \in {strayed, TRUE}
         \/ /\ UNCHANGED <<snapshot, strayed>>
            /\ \E p \in PositionIds : proven' \in {proven, proven \cup {p}}
<1>. DEFINE Verifies == /\ UNCHANGED <<snapshot, strayed>>
                        /\ \E p \in PositionIds : proven' \in {proven, proven \cup {p}}
<1>1. ASSUME NEW tx \in Transactions, NEW p \in PositionIds, take_effect(tx, p)
      PROVE  proven' \in {proven, proven \cup {p}}
  BY <1>1 DEF take_effect
<1>2. ASSUME NEW c \in Clients, succeed(c)
      PROVE  UNCHANGED <<proven, strayed>> \/ Verifies
  <2>1. CASE Submitted(c) = {}
    BY <1>2, <2>1 DEF succeed
  <2>2. ASSUME NEW t \in Submitted(c)
        PROVE  Verifies
    <3>1. take_effect(t[1], t[2]) /\ UNCHANGED <<snapshot, strayed>>
      BY <1>2, <2>2 DEF succeed
    <3>2. t[1] \in Transactions /\ t[2] \in PositionIds
      BY <2>2, SubmittedTyped
    <3>. QED  BY <1>1, <3>1, <3>2
  <2>. QED  BY <2>1, <2>2
<1>3. ASSUME NEW t \in late, land_late(t[1], t[2])
      PROVE  Verifies
  <2>1. t[1] \in Transactions /\ t[2] \in PositionIds
    BY DEF IType, TypeOK
  <2>. QED  BY <1>1, <1>3, <2>1 DEF land_late
<1>4. ASSUME NEW c \in Clients, Ask(c)
      PROVE  \/ UNCHANGED <<proven, strayed>>
             \/ UNCHANGED <<snapshot, proven>> /\ strayed' \in {strayed, TRUE}
  BY <1>4 DEF Ask, bootstrapDemoFlow, resetDemoFlow, openDemoCredit, drawDemoCredit,
              repayDemoCredit, proveDemoRepaymentHistory, resolve, chainVars, IType, TypeOK
<1>5. ASSUME NEW c \in Clients,
             \/ take_answer(c) \/ refuse(c) \/ give_up(c) \/ throw_at_settlement(c)
             \/ write_bootstrap(c) \/ write_open(c) \/ write_draw(c) \/ write_repay(c)
             \/ write_history(c)
      PROVE  UNCHANGED <<proven, strayed>>
  BY <1>5 DEF take_answer, refuse, give_up, throw_at_settlement, write_bootstrap, write_open,
              write_draw, write_repay, write_history, chainVars
<1>6. crash \/ UNCHANGED vars => UNCHANGED <<proven, strayed>>
  BY DEF crash, vars, chainVars
<1>. QED  BY <1>2, <1>3, <1>4, <1>5, <1>6 DEF Next, ServerStep, HandlerStep

LEMMA ViewStep ==
  IType /\ IType' /\ SnapshotBackedByChain' /\ SnapshotOfOnePosition' /\ [Next]_vars =>
    [View!Next]_(View!viewVars)
<1>. SUFFICES ASSUME IType, IType', SnapshotBackedByChain', SnapshotOfOnePosition', [Next]_vars
              PROVE  [View!Next]_(View!viewVars)
  OBVIOUS
<1>1. CASE UNCHANGED <<proven, strayed>>
  <2>. DEFINE s == [positionId |-> snapshot'.positionId, historyProof |-> snapshot'.historyProof]
  <2>1. s \in View!Shown
    BY DEF IType, TypeOK, DemoFlowSnapshot, View!Shown
  <2>2. View!Showable(s)
    BY <1>1 DEF View!Showable, SnapshotBackedByChain, SnapshotOfOnePosition
  <2>3. View!Show
    BY <1>1, <2>1, <2>2 DEF View!Show
  <2>. QED  BY <2>3 DEF View!Next
<1>2. CASE UNCHANGED <<snapshot, proven>> /\ strayed' \in {strayed, TRUE}
  BY <1>2 DEF View!Stray, View!Next, View!viewVars
<1>3. CASE /\ UNCHANGED <<snapshot, strayed>>
           /\ \E p \in PositionIds : proven' \in {proven, proven \cup {p}}
  BY <1>3 DEF View!Verify, View!Next, View!viewVars
<1>. QED  BY <1>1, <1>2, <1>3, ViewMoves

\* The flow keeps to what Disclosure assumes of it: whatever its requests do, a
\* history it shows was verified, and is that of the snapshot's position as long as
\* no request named another one.
THEOREM FlowShownTruly == Spec => View!Spec
<1>1. Init => View!Init
  BY DEF Init, blankState, View!Init, View!Blank
<1>. QED
  BY <1>1, FlowTyped, SnapshotBacked, OnePositionShown, ViewStep, PTL DEF Spec, View!Spec

-------------------------------------------------------------------------------
(* The pages are clients of the flow.                                      *)

\* A page that awaits an answer, or the load after it, knows what it asked for.
PageTyped ==
  /\ page \in Page
  /\ unheard \in Nat /\ resets \in Nat
  /\ page.waiting # None \/ page.refetch => page.asked # None

\* A page names no position but one there is.
PageKnown ==
  /\ page.url \in Known \cup {None}
  /\ page.flow.positionId \in Known \cup {None}
  /\ page.loading # None => page.loading.positionId \in Known \cup {None}

IPage == PageTyped /\ PageKnown

\* No step of the flow takes anything back on chain.
LEMMA NextKept == IType /\ [Next]_vars => Kept
<1>. SUFFICES ASSUME IType, [Next]_vars PROVE Kept
  OBVIOUS
<1>1. ASSUME NEW tx, NEW p, <<tx, p>> \in Transactions \X PositionIds, take_effect(tx, p)
      PROVE  Kept
  BY <1>1, EffectKept
<1>2. ASSUME NEW c \in Clients, succeed(c)
      PROVE  Kept
  <2>1. CASE Submitted(c) = {}
    BY <1>2, <2>1 DEF succeed, Kept
  <2>2. CASE Submitted(c) # {}
    <3>1. PICK t \in Submitted(c) : take_effect(t[1], t[2])
      BY <1>2, <2>2 DEF succeed
    <3>2. t \in Transactions \X PositionIds
      BY SubmittedTyped
    <3>. QED  BY <1>1, <3>1, <3>2
  <2>. QED  BY <2>1, <2>2
<1>3. ASSUME NEW t \in late, land_late(t[1], t[2])
      PROVE  Kept
  BY <1>1, <1>3 DEF land_late, IType, TypeOK
<1>4. ASSUME UNCHANGED <<phase, proven>>
      PROVE  Kept
  BY <1>4 DEF Kept
<1>5. ASSUME NEW c \in Clients, Ask(c)
      PROVE  UNCHANGED <<phase, proven>>
  BY <1>5 DEF Ask, bootstrapDemoFlow, resetDemoFlow, openDemoCredit, drawDemoCredit,
              repayDemoCredit, proveDemoRepaymentHistory, chainVars
<1>6. ASSUME NEW c \in Clients,
             \/ take_answer(c) \/ refuse(c) \/ give_up(c) \/ throw_at_settlement(c)
             \/ write_bootstrap(c) \/ write_open(c) \/ write_draw(c) \/ write_repay(c)
             \/ write_history(c)
      PROVE  UNCHANGED <<phase, proven>>
  BY <1>6 DEF take_answer, refuse, give_up, throw_at_settlement, write_bootstrap, write_open,
              write_draw, write_repay, write_history, chainVars
<1>7. UNCHANGED vars \/ crash => UNCHANGED <<phase, proven>>
  BY DEF vars, chainVars, crash
<1>. QED  BY <1>2, <1>3, <1>4, <1>5, <1>6, <1>7 DEF Next, ServerStep, HandlerStep

\* What a page asks, the flow may be asked.
LEMMA PageIsClient == IType /\ PageTyped /\ PageKnown /\ [ConsoleNext]_allVars => [Next]_vars
<1>. SUFFICES ASSUME IType, PageTyped, PageKnown, [ConsoleNext]_allVars PROVE [Next]_vars
  OBVIOUS
<1>1. CASE UNCHANGED allVars \/ Navigate \/ load \/ refresh \/ edit \/ lose_answer \/ refetched
  BY <1>1 DEF allVars, Navigate, Link, visit, load, refresh, edit, lose_answer, refetched
<1>2. ASSUME NEW c \in Clients, answer_ok(c) \/ answer_error(c) \/ discard_answer(c)
      PROVE  [Next]_vars
  BY <1>2 DEF answer_ok, answer_error, discard_answer, Next
<1>3. ASSUME NEW c \in Clients, loadAnchor(c) \/ requestQuote(c) \/ operatorReset(c)
      PROVE  [Next]_vars
  BY <1>3 DEF loadAnchor, requestQuote, operatorReset, Next, Ask
<1>4. ASSUME NEW c \in Clients, openCreditWithProof(c)
      PROVE  [Next]_vars
  BY <1>4 DEF openCreditWithProof, KnownTx, Next, Ask
<1>5. /\ PagePosition \in Known \cup {None}
      /\ page.flow.anchorTransactionId \in AnchorTxs \cup {None}
  BY DEF PagePosition, Or, PageTyped, PageKnown, Page, DemoFlowSnapshot
<1>6. ASSUME NEW c \in Clients, runDraw(c) \/ runRepay(c) \/ runHistoryProof(c)
      PROVE  [Next]_vars
  BY <1>5, <1>6 DEF runDraw, runRepay, runHistoryProof, Next, Ask
<1>7. CASE ServerStep
  BY <1>7 DEF Next
<1>. QED  BY <1>1, <1>2, <1>3, <1>4, <1>6, <1>7 DEF ConsoleNext, PageAnswered

\* The phases a page's requests lead it through.
LEMMA PhasesAre ==
  /\ Buttons = {"seed", "bootstrap", "open", "draw", "repay", "history"}
  /\ \A b \in Buttons : Busy[b] \in Phases /\ Done[b] \in Phases /\ Failed[b] \in Phases
  /\ DOMAIN FirstPhase = {"anchor", "credit", "draw", "repay"}
  /\ \A name \in DOMAIN FirstPhase : FirstPhase[name] \in Phases
  /\ {"opened", "shown", "quoted", "drawn", "repaid", "input"} \subseteq Phases
<1>1. Buttons = {"seed", "bootstrap", "open", "draw", "repay", "history"}
  BY DEF Buttons, Busy
<1>2. \A b \in Buttons : Busy[b] \in Phases /\ Done[b] \in Phases /\ Failed[b] \in Phases
  BY DEF Phases
<1>3. DOMAIN FirstPhase = {"anchor", "credit", "draw", "repay"}
  BY DEF FirstPhase
<1>4. {"opened", "shown", "quoted", "drawn", "repaid", "input", "ready", "outstanding"} \subseteq Phases
  <2>1. /\ Done["seed"] = "shown" /\ Done["bootstrap"] = "quoted" /\ Done["draw"] = "drawn"
        /\ Done["repay"] = "repaid" /\ Failed["bootstrap"] = "input"
        /\ Failed["draw"] = "ready" /\ Failed["repay"] = "outstanding"
    BY DEF Done, Failed
  <2>. QED  BY <1>1, <1>2, <2>1 DEF Phases
<1>5. \A name \in DOMAIN FirstPhase : FirstPhase[name] \in Phases
  BY <1>3, <1>4 DEF FirstPhase
<1>. QED  BY <1>1, <1>2, <1>3, <1>4, <1>5

LEMMA PageInit == ConsoleInit => IPage
<1>. SUFFICES ASSUME ConsoleInit PROVE IPage
  OBVIOUS
<1>1. page = NewPage("credit", None) /\ unheard = 0 /\ resets = 0
  BY DEF ConsoleInit
<1>2. FirstPhase["credit"] \in Phases /\ "credit" \in DOMAIN FirstPhase
  BY PhasesAre
<1>3. /\ page \in Page /\ page.url = None /\ page.flow = blankState /\ page.loading = None
      /\ page.waiting = None /\ ~page.refetch
  BY <1>1, <1>2, BlankTyped DEF NewPage, Page
<1>. QED  BY <1>1, <1>3 DEF IPage, PageTyped, PageKnown, blankState

LEMMA NewPageFits ==
  ASSUME IType, NEW name \in DOMAIN FirstPhase, NEW url \in PositionIds \cup {None},
         page' = NewPage(name, url)
  PROVE  /\ page' \in Page /\ page'.url = url /\ page'.flow = blankState
         /\ page'.loading \in {snapshot, None} /\ page'.waiting = None /\ page'.refetch = FALSE
         /\ page'.name = name /\ page'.phase = FirstPhase[name] /\ page'.asked = None
<1>1. blankState \in DemoFlowSnapshot /\ snapshot \in DemoFlowSnapshot /\ FirstPhase[name] \in Phases
  BY BlankTyped, PhasesAre DEF IType, TypeOK
<1>. QED  BY <1>1 DEF NewPage, Page

\* Navigation and loading.
LEMMA LoadFits ==
  ASSUME IType, IKnown, IPage, Known \subseteq Known', Navigate \/ load \/ refresh
  PROVE  IPage'
<1>1. ASSUME NEW name \in DOMAIN FirstPhase, NEW url \in Known \cup {None}, visit(name, url)
      PROVE  IPage'
  <2>1. page' = NewPage(name, url) /\ unheard' \in Nat /\ resets' \in Nat /\ url \in PositionIds \cup {None}
    BY <1>1 DEF visit, IPage, PageTyped, Known
  <2>2. /\ page' \in Page /\ page'.url = url /\ page'.flow = blankState
        /\ page'.loading \in {snapshot, None} /\ page'.waiting = None /\ page'.refetch = FALSE
    BY <2>1, NewPageFits
  <2>3. page'.flow.positionId = None
    BY <2>2 DEF blankState
  <2>. QED  BY <1>1, <2>1, <2>2, <2>3 DEF IPage, PageTyped, PageKnown, IKnown
<1>2. CASE Navigate
  <2>1. Or(page.flow.positionId, page.url) \in Known \cup {None}
    BY DEF Or, IPage, PageKnown
  <2>. QED  BY <1>1, <1>2, <2>1, PhasesAre DEF Navigate, Link, IPage, PageKnown
<1>3. CASE load
  <2>1. PhaseFrom(page.loading) \in Phases
    BY PhasesAre DEF PhaseFrom, IPage, PageTyped, Page
  <2>2. /\ page' \in Page /\ page'.url = page.url /\ page'.waiting = page.waiting
        /\ page'.refetch = page.refetch /\ page'.asked = page.asked /\ page'.loading = None
        /\ page'.flow \in {page.flow, page.loading} /\ page.loading # None
    BY <1>3, <2>1 DEF load, IPage, PageTyped, Page
  <2>. QED  BY <1>3, <2>2 DEF load, IPage, PageTyped, PageKnown
<1>4. CASE refresh
  <2>1. /\ page' \in Page /\ page'.url = page.url /\ page'.waiting = page.waiting
        /\ page'.refetch = page.refetch /\ page'.asked = page.asked /\ page'.loading = snapshot
        /\ page'.flow = page.flow
    BY <1>4 DEF refresh, IPage, PageTyped, Page, IType, TypeOK
  <2>. QED  BY <1>4, <2>1 DEF refresh, IPage, PageTyped, PageKnown, IKnown
<1>. QED  BY <1>2, <1>3, <1>4

\* A page that asks, or only changes its phase and quote.
LEMMA AskingFits ==
  ASSUME IPage, Known \subseteq Known', UNCHANGED <<unheard, resets>>,
         \/ \E c \in Clients, b \in Buttons : page' = asking(c, b)
         \/ \E ph \in Phases, q \in {None, "chain", "reference"} :
              page' = [page EXCEPT !.phase = ph, !.quote = q]
  PROVE  IPage'
<1>1. CASE \E c \in Clients, b \in Buttons : page' = asking(c, b)
  <2>1. PICK c \in Clients, b \in Buttons : page' = asking(c, b)
    BY <1>1
  <2>2. /\ page' \in Page /\ page'.url = page.url /\ page'.flow = page.flow
        /\ page'.loading = page.loading /\ page'.asked = b
    BY <2>1, PhasesAre DEF asking, IPage, PageTyped, Page
  <2>3. b # None
    BY ConsoleAssumption
  <2>. QED  BY <2>2, <2>3 DEF IPage, PageTyped, PageKnown
<1>2. CASE \E ph \in Phases, q \in {None, "chain", "reference"} :
              page' = [page EXCEPT !.phase = ph, !.quote = q]
  <2>1. /\ page' \in Page /\ page'.url = page.url /\ page'.flow = page.flow
        /\ page'.loading = page.loading /\ page'.asked = page.asked
        /\ page'.waiting = page.waiting /\ page'.refetch = page.refetch
    BY <1>2 DEF IPage, PageTyped, Page
  <2>. QED  BY <2>1 DEF IPage, PageTyped, PageKnown
<1>. QED  BY <1>1, <1>2

\* A page whose request is over, with or without a new copy of the flow's state.
LEMMA OverFits ==
  ASSUME IPage, Known \subseteq Known', unheard' \in Nat, resets' \in Nat,
         NEW outcome \in {Done, Failed}, page.asked # None,
         NEW q \in {None, "chain", "reference"},
         NEW f \in DemoFlowSnapshot, f = page.flow \/ f.positionId \in Known \cup {None},
         page' = [over(outcome) EXCEPT !.quote = q, !.flow = f]
  PROVE  IPage'
<1>1. outcome[page.asked] \in Phases
  BY PhasesAre DEF IPage, PageTyped, Page
<1>2. /\ page' \in Page /\ page'.url = page.url /\ page'.flow = f
      /\ page'.loading = page.loading /\ page'.waiting = None /\ ~page'.refetch
  BY <1>1 DEF over, IPage, PageTyped, Page
<1>. QED  BY <1>2 DEF IPage, PageTyped, PageKnown

LEMMA AnsweredFits ==
  ASSUME IType, IKnown, IPage, Known \subseteq Known', PageAnswered
  PROVE  IPage'
<1>1. page.flow \in DemoFlowSnapshot /\ page.quote \in {None, "chain", "reference"}
      /\ unheard \in Nat /\ resets \in Nat /\ page \in Page
  BY DEF IPage, PageTyped, Page
<1>2. ASSUME NEW outcome \in {Done, Failed}, page.asked # None, page' = over(outcome),
             unheard' \in Nat, resets' \in Nat
      PROVE  IPage'
  <2>1. page' = [over(outcome) EXCEPT !.quote = page.quote, !.flow = page.flow]
    BY <1>1, <1>2 DEF over, Page
  <2>. QED  BY <1>1, <1>2, <2>1, OverFits
<1>3. ASSUME NEW c \in Clients, answer_ok(c)
      PROVE  IPage'
  <2>1. page.asked # None /\ UNCHANGED <<unheard, resets>>
    BY <1>3, ConsoleAssumption DEF answer_ok, IPage, PageTyped
  <2>2. CASE page.name = "anchor"
    BY <1>1, <1>2, <1>3, <2>1, <2>2 DEF answer_ok
  <2>3. CASE page.name = "credit"
    <3>1. KeptAnswer(c) \in DemoFlowSnapshot
          /\ KeptAnswer(c).positionId = request[c].positionId
      BY BlankTyped DEF KeptAnswer, DemoFlowSnapshot, IType, TypeOK, Request
    <3>2. request[c].positionId \in Known \cup {None}
      BY <1>3 DEF answer_ok, succeeded, IKnown
    <3>3. page' = [over(Done) EXCEPT !.quote = "chain", !.flow = KeptAnswer(c)]
      BY <1>3, <2>3 DEF answer_ok
    <3>. QED  BY <1>1, <2>1, <3>1, <3>2, <3>3, OverFits
  <2>4. CASE page.name \notin {"anchor", "credit"}
    <3>1. page' = [page EXCEPT !.waiting = None, !.refetch = TRUE]
      BY <1>3, <2>4 DEF answer_ok
    <3>2. /\ page' \in Page /\ page'.url = page.url /\ page'.flow = page.flow
          /\ page'.loading = page.loading /\ page'.asked = page.asked
      BY <1>1, <3>1 DEF Page
    <3>. QED  BY <1>1, <2>1, <3>2 DEF IPage, PageTyped, PageKnown
  <2>. QED  BY <2>2, <2>3, <2>4
<1>4. ASSUME NEW c \in Clients, answer_error(c)
      PROVE  IPage'
  <2>1. page.asked # None
    BY <1>4, ConsoleAssumption DEF answer_error, IPage, PageTyped
  <2>. QED  BY <1>1, <1>2, <1>4, <2>1 DEF answer_error
<1>5. CASE lose_answer
  BY <1>1, <1>2, <1>5 DEF lose_answer, IPage, PageTyped
<1>6. CASE refetched
  <2>1. page.asked # None /\ UNCHANGED <<unheard, resets>>
    BY <1>6 DEF refetched, IPage, PageTyped
  <2>2. snapshot \in DemoFlowSnapshot /\ snapshot.positionId \in Known \cup {None}
    BY DEF IKnown, IType, TypeOK
  <2>3. CASE page' = over(Failed)
    BY <1>1, <1>2, <2>1, <2>3
  <2>4. CASE page' = [over(Done) EXCEPT !.flow = snapshot]
    <3>1. page' = [over(Done) EXCEPT !.quote = page.quote, !.flow = snapshot]
      BY <1>1, <2>4 DEF over, Page
    <3>. QED  BY <1>1, <2>1, <2>2, <3>1, OverFits
  <2>. QED  BY <1>6, <2>3, <2>4 DEF refetched
<1>. QED  BY <1>3, <1>4, <1>5, <1>6 DEF PageAnswered

LEMMA PageNext ==
  ASSUME IType, IKnown, IPage, [ConsoleNext]_allVars
  PROVE  IPage'
<1>1. Known \subseteq Known'
  BY PageIsClient, NextKept DEF IPage, Kept, Known
<1>2. page.phase \in Phases /\ page.quote \in {None, "chain", "reference"} /\ page \in Page
  BY DEF IPage, PageTyped, Page
<1>3. ASSUME UNCHANGED page, unheard' \in Nat, resets' \in Nat
      PROVE  IPage'
  BY <1>1, <1>3 DEF IPage, PageTyped, PageKnown
<1>4. ASSUME UNCHANGED consoleVars
      PROVE  IPage'
  BY <1>3, <1>4 DEF consoleVars, IPage, PageTyped
<1>5. ASSUME NEW c \in Clients, NEW b, ask(c, b)
      PROVE  IPage'
  <2>1. b \in Buttons
    BY <1>5, PhasesAre DEF ask, Offered
  <2>. QED  BY <1>1, <1>5, <2>1, AskingFits DEF ask
<1>6. ASSUME UNCHANGED <<unheard, resets>>, NEW ph \in Phases, NEW q \in {None, "chain", "reference"},
             page' = [page EXCEPT !.phase = ph, !.quote = q]
      PROVE  IPage'
  BY <1>1, <1>6, AskingFits
<1>7. ASSUME NEW c \in Clients, loadAnchor(c)
      PROVE  IPage'
  <2>1. CASE page' = [page EXCEPT !.phase = "shown"] /\ UNCHANGED <<unheard, resets>>
    <3>1. page' = [page EXCEPT !.phase = "shown", !.quote = page.quote]
      BY <1>2, <2>1 DEF Page
    <3>. QED  BY <1>2, <1>6, <2>1, <3>1, PhasesAre
  <2>. QED  BY <1>5, <1>7, <2>1 DEF loadAnchor
<1>8. ASSUME NEW c \in Clients, requestQuote(c)
      PROVE  IPage'
  BY <1>5, <1>6, <1>8, PhasesAre DEF requestQuote
<1>9. CASE edit
  BY <1>6, <1>9, PhasesAre DEF edit
<1>10. ASSUME NEW c \in Clients,
              openCreditWithProof(c) \/ runDraw(c) \/ runRepay(c) \/ runHistoryProof(c)
       PROVE  IPage'
  BY <1>5, <1>10 DEF openCreditWithProof, runDraw, runRepay, runHistoryProof
<1>11. ASSUME NEW c \in Clients, discard_answer(c) \/ operatorReset(c)
       PROVE  IPage'
  BY <1>3, <1>4, <1>11 DEF discard_answer, operatorReset, IPage, PageTyped
<1>12. CASE UNCHANGED allVars
  BY <1>4, <1>12 DEF allVars
<1>. QED  BY <1>1, <1>4, <1>7, <1>8, <1>9, <1>10, <1>11, <1>12, LoadFits, AnsweredFits
          DEF ConsoleNext

\* What the pages rest on: the flow's invariants and their own.
IConsole == IType /\ IBacked /\ IKnown /\ IPage

LEMMA ConsoleInductive ==
  /\ ConsoleInit => IConsole
  /\ IConsole /\ [ConsoleNext]_allVars => IConsole'
<1>1. ConsoleInit => IConsole
  BY PageInit, TypeInit, BackedInit, KnownInit DEF ConsoleInit, IConsole
<1>2. IConsole /\ [ConsoleNext]_allVars => IConsole'
  BY PageIsClient, PageNext, TypeNext, BackedNext, KnownNext DEF IConsole, IPage
<1>. QED  BY <1>1, <1>2

\* Every reachable state of the pages is well typed, and a page that awaits an
\* answer or the load after it knows what it asked for (anchor, credit, draw and
\* repay page.tsx).
THEOREM PagesTyped == ConsoleSpec => []ConsoleTypeOK
<1>1. IConsole => ConsoleTypeOK
  BY DEF IConsole, IType, IPage, PageTyped, ConsoleTypeOK
<1>. QED  BY <1>1, ConsoleInductive, PTL DEF ConsoleSpec

\* The pages are clients of the demo flow like any other: every behaviour of theirs
\* is one of the flow, because a page names only positions that there are.
THEOREM PagesAreClients == ConsoleSpec => Spec
<1>1. ConsoleInit => Init
  BY DEF ConsoleInit
<1>2. IConsole /\ [ConsoleNext]_allVars => [Next]_vars
  BY PageIsClient DEF IConsole, IPage
<1>. QED  BY <1>1, <1>2, ConsoleInductive, PTL DEF ConsoleSpec, Spec

\* So under the pages, too, the snapshot shows nothing that did not happen, is of
\* one position, and is not behind the chain when requests come one by one.
THEOREM PagesOverSnapshot ==
  ConsoleSpec => [](SnapshotBackedByChain /\ SnapshotOfOnePosition /\ SnapshotComplete)
  BY PagesAreClients, SnapshotBacked, OnePositionShown, SnapshotCompleted, PTL

\* And under the pages no section is lost either, the chain moves as the contracts
\* allow, and the observer page reads what Disclosure assumes.
THEOREM PagesOverChain == ConsoleSpec => NothingForgotten /\ ChainInOrder /\ View!Spec
  BY PagesAreClients, NothingIsForgotten, FlowKeepsChain, FlowShownTruly, PTL

-------------------------------------------------------------------------------
(* What a page says has happened.                                          *)

\* Where each button is, what it asks of the flow, and the phases of each page.
PageOf == [seed |-> "anchor", bootstrap |-> "credit", open |-> "credit",
           draw |-> "draw", repay |-> "repay", history |-> "repay"]
OpOf == [seed |-> "bootstrap", bootstrap |-> "bootstrap", open |-> "open",
         draw |-> "draw", repay |-> "repay", history |-> "history"]
PhasesOf ==
  [anchor |-> {"opened", "seeding", "shown"},
   credit |-> {"input", "quoting", "quoted", "proving", "verified", "failed"},
   draw |-> {"ready", "drawing", "drawn"},
   repay |-> {"outstanding", "repaying", "repaid", "proving_history"}]

PageFits ==
  /\ page.phase \in PhasesOf[page.name]
  /\ page.asked # None => page.name = PageOf[page.asked]
  /\ page.refetch => page.waiting = None

\* The request a page awaits is there, and is what the page asked for.
AwaitedFits ==
  \A c \in Clients : page.waiting = c =>
    request[c].at # "idle" /\ (Running(c) => request[c].op = OpOf[page.asked])

IFits == PageFits /\ AwaitedFits

LEMMA ButtonsFit ==
  ASSUME NEW b \in Buttons
  PROVE  {Busy[b], Done[b], Failed[b]} \subseteq PhasesOf[PageOf[b]]
<1>. b \in {"seed", "bootstrap", "open", "draw", "repay", "history"}
  BY PhasesAre
<1>1. CASE b = "seed"
  BY <1>1 DEF Busy, Done, Failed, PhasesOf, PageOf
<1>2. CASE b = "bootstrap"
  BY <1>2 DEF Busy, Done, Failed, PhasesOf, PageOf
<1>3. CASE b = "open"
  BY <1>3 DEF Busy, Done, Failed, PhasesOf, PageOf
<1>4. CASE b = "draw"
  BY <1>4 DEF Busy, Done, Failed, PhasesOf, PageOf
<1>5. CASE b = "repay"
  BY <1>5 DEF Busy, Done, Failed, PhasesOf, PageOf
<1>6. CASE b = "history"
  BY <1>6 DEF Busy, Done, Failed, PhasesOf, PageOf
<1>. QED  BY <1>1, <1>2, <1>3, <1>4, <1>5, <1>6

\* A page offers its own buttons.
LEMMA OfferedFit ==
  ASSUME IPage, PageFits, NEW b \in Offered
  PROVE  /\ b \in Buttons /\ PageOf[b] = page.name
         /\ b = "history" => page.phase = "repaid"
<1>1. page.name \in {"anchor", "credit", "draw", "repay"}
  BY PhasesAre DEF IPage, PageTyped, Page
<1>2. /\ page.name = "anchor" => page.phase \in {"opened", "seeding", "shown"}
      /\ page.name = "credit" =>
           page.phase \in {"input", "quoting", "quoted", "proving", "verified", "failed"}
      /\ page.name = "draw" => page.phase \in {"ready", "drawing", "drawn"}
      /\ page.name = "repay" => page.phase \in {"outstanding", "repaying", "repaid", "proving_history"}
  BY DEF PageFits, PhasesOf
<1>3. /\ PageOf["seed"] = "anchor" /\ PageOf["bootstrap"] = "credit" /\ PageOf["open"] = "credit"
      /\ PageOf["draw"] = "draw" /\ PageOf["repay"] = "repay" /\ PageOf["history"] = "repay"
  BY DEF PageOf
<1>4. \/ b = "seed" /\ page.phase = "opened"
      \/ b = "bootstrap" /\ page.phase = "input"
      \/ b = "open" /\ page.phase = "quoted"
      \/ b = "draw" /\ page.phase = "ready"
      \/ b = "repay" /\ page.phase = "outstanding"
      \/ b = "history" /\ page.phase = "repaid"
  BY DEF Offered
<1>. QED  BY <1>1, <1>2, <1>3, <1>4, PhasesAre

\* A page after it asked with button b for client c; after its request is over with
\* outcome o and it has copy f; and while it loads again.
Asked(c, b) ==
  /\ page'.name = page.name /\ page'.flow = page.flow /\ page'.loading = page.loading
  /\ page'.phase = Busy[b] /\ page'.asked = b /\ page'.waiting = c /\ page'.refetch = page.refetch
Ended(o, f) ==
  /\ page'.name = page.name /\ page'.flow = f /\ page'.loading = page.loading
  /\ page'.phase = o[page.asked] /\ page'.asked = None /\ page'.waiting = None /\ ~page'.refetch
Refetches ==
  /\ page'.name = page.name /\ page'.flow = page.flow /\ page'.loading = page.loading
  /\ page'.phase = page.phase /\ page'.asked = page.asked /\ page'.waiting = None /\ page'.refetch

LEMMA AskedAs ==
  ASSUME IPage, NEW c, NEW b, ask(c, b)
  PROVE  Asked(c, b)
  BY DEF ask, asking, Asked, IPage, PageTyped, Page

LEMMA AnsweredAs ==
  ASSUME IPage, PageAnswered
  PROVE  /\ page.asked # None
         /\ \/ Ended(Failed, page.flow)
            \/ page.name = "anchor" /\ Ended(Done, page.flow)
            \/ page.name = "credit" /\ \E c \in Clients : Ended(Done, KeptAnswer(c))
            \/ Refetches /\ \E c \in Clients : page.waiting = c /\ request[c].at = "ok"
            \/ page.refetch /\ Ended(Done, snapshot)
         /\ Ended(Failed, page.flow) \/ unheard' = unheard
<1>1. page \in Page /\ (page.waiting # None \/ page.refetch => page.asked # None)
  BY DEF IPage, PageTyped
<1>2. page.asked # None
  BY <1>1, ConsoleAssumption DEF PageAnswered, answer_ok, answer_error, lose_answer, refetched
<1>3. page' = over(Failed) => Ended(Failed, page.flow)
  BY <1>1 DEF over, Page, Ended
<1>4. ASSUME NEW c \in Clients, answer_ok(c)
      PROVE  /\ \/ page.name = "anchor" /\ Ended(Done, page.flow)
                \/ page.name = "credit" /\ Ended(Done, KeptAnswer(c))
                \/ Refetches /\ page.waiting = c /\ request[c].at = "ok"
             /\ unheard' = unheard
  <2>1. page.waiting = c /\ request[c].at = "ok" /\ unheard' = unheard
    BY <1>4 DEF answer_ok, succeeded
  <2>2. CASE page.name = "anchor"
    <3>1. page' = over(Done)
      BY <1>4, <2>2 DEF answer_ok
    <3>. QED  BY <1>1, <2>1, <2>2, <3>1 DEF over, Page, Ended
  <2>3. CASE page.name = "credit"
    <3>1. page' = [over(Done) EXCEPT !.quote = "chain", !.flow = KeptAnswer(c)]
      BY <1>4, <2>3 DEF answer_ok
    <3>. QED  BY <1>1, <2>1, <2>3, <3>1 DEF over, Page, Ended
  <2>4. CASE page.name \notin {"anchor", "credit"}
    <3>1. page' = [page EXCEPT !.waiting = None, !.refetch = TRUE]
      BY <1>4, <2>4 DEF answer_ok
    <3>. QED  BY <1>1, <2>1, <3>1 DEF Page, Refetches
  <2>. QED  BY <2>2, <2>3, <2>4
<1>5. ASSUME refetched, page' # over(Failed)
      PROVE  page.refetch /\ Ended(Done, snapshot) /\ unheard' = unheard
  <2>1. page.refetch /\ page' = [over(Done) EXCEPT !.flow = snapshot] /\ unheard' = unheard
    BY <1>5 DEF refetched
  <2>. QED  BY <1>1, <2>1 DEF over, Page, Ended
<1>6. lose_answer \/ (\E c \in Clients : answer_error(c)) => page' = over(Failed)
  BY DEF lose_answer, answer_error
<1>. QED  BY <1>2, <1>3, <1>4, <1>5, <1>6 DEF PageAnswered

\* What the flow does to the requests without their clients.
LEMMA ServerAnswers ==
  ASSUME IType, ServerStep, NEW d \in Clients
  PROVE  /\ Running(d)' => Running(d) /\ request'[d].op = request[d].op
         /\ request[d].at # "idle" => request'[d].at # "idle"
         /\ request'[d].at = "ok" =>
              \/ request[d].at = "ok"
              \/ write_bootstrap(d) \/ write_open(d) \/ write_draw(d) \/ write_repay(d)
              \/ write_history(d)
<1>1. ASSUME NEW c \in Clients, succeed(c)
      PROVE  request'[d].at = request[d].at /\ request'[d].op = request[d].op
  BY <1>1 DEF succeed, IType, TypeOK, Request
<1>2. ASSUME NEW c \in Clients, NEW at \in {"ok", "error"}, NEW p, answer(c, at, p)
      PROVE  request'[c].at = at /\ \A e \in Clients \ {c} : request'[e] = request[e]
  BY <1>2 DEF answer, IType, TypeOK, NoRequest
<1>3. ASSUME NEW c \in Clients, refuse(c) \/ give_up(c) \/ throw_at_settlement(c)
      PROVE  request'[c].at = "error" /\ \A e \in Clients \ {c} : request'[e] = request[e]
  BY <1>2, <1>3 DEF refuse, give_up, throw_at_settlement
<1>4. ASSUME NEW c \in Clients,
             \/ write_bootstrap(c) \/ write_open(c) \/ write_draw(c) \/ write_repay(c)
             \/ write_history(c)
      PROVE  request'[c].at = "ok" /\ \A e \in Clients \ {c} : request'[e] = request[e]
  BY <1>2, <1>4 DEF write_bootstrap, write_open, write_draw, write_repay, write_history
<1>5. CASE crash
  BY <1>5 DEF crash, IType, TypeOK, Running, NoRequest
<1>6. CASE \E t \in late : land_late(t[1], t[2])
  BY <1>6 DEF land_late, Running
<1>. QED  BY <1>1, <1>3, <1>4, <1>5, <1>6 DEF ServerStep, HandlerStep, Running

\* A request that begins is of the kind asked for; only a history shown as verified
\* is answered at once.
LEMMA BeginsAs ==
  ASSUME IType, NEW c \in Clients,
         NEW b \in Buttons,
         \/ b \in {"seed", "bootstrap"} /\ \E a \in AnchorTxs : bootstrapDemoFlow(c, a)
         \/ b = "open" /\ \E p, a : openDemoCredit(c, p, a)
         \/ b = "draw" /\ \E p, a : drawDemoCredit(c, p, a)
         \/ b = "repay" /\ \E p, a : repayDemoCredit(c, p, a)
         \/ b = "history" /\ \E p : proveDemoRepaymentHistory(c, p)
  PROVE  /\ request[c].at = "idle" /\ \A d \in Clients \ {c} : request'[d] = request[d]
         /\ \/ request'[c].at = "running" /\ request'[c].op = OpOf[b]
            \/ request'[c].at = "ok" /\ b = "history"
         /\ UNCHANGED <<phase, proven, snapshot>>
<1>1. ASSUME NEW op, NEW p, NEW a, begin(c, op, p, a)
      PROVE  /\ request[c].at = "idle" /\ \A d \in Clients \ {c} : request'[d] = request[d]
             /\ request'[c].at = "running" /\ request'[c].op = op
  BY <1>1 DEF begin, IType, TypeOK
<1>2. CASE b \in {"seed", "bootstrap"} /\ \E a \in AnchorTxs : bootstrapDemoFlow(c, a)
  BY <1>1, <1>2 DEF bootstrapDemoFlow, chainVars, OpOf
<1>3. CASE b = "open" /\ \E p, a : openDemoCredit(c, p, a)
  BY <1>1, <1>3 DEF openDemoCredit, chainVars, OpOf
<1>4. CASE b = "draw" /\ \E p, a : drawDemoCredit(c, p, a)
  BY <1>1, <1>4 DEF drawDemoCredit, resolve, chainVars, OpOf
<1>5. CASE b = "repay" /\ \E p, a : repayDemoCredit(c, p, a)
  BY <1>1, <1>5 DEF repayDemoCredit, resolve, chainVars, OpOf
<1>6. CASE b = "history" /\ \E p : proveDemoRepaymentHistory(c, p)
  <2>1. PICK p : proveDemoRepaymentHistory(c, p)
    BY <1>6
  <2>2. UNCHANGED <<phase, proven, snapshot>>
    BY <2>1 DEF proveDemoRepaymentHistory, chainVars
  <2>3. CASE resolve(c, "history", p, None)
    BY <1>1, <1>6, <2>2, <2>3 DEF resolve, OpOf
  <2>4. CASE request[c].at = "idle" /\ request' = [request EXCEPT ![c].at = "ok"]
    <3>1. request'[c].at = "ok" /\ \A d \in Clients \ {c} : request'[d] = request[d]
      BY <2>4 DEF IType, TypeOK, Request
    <3>. QED  BY <1>6, <2>2, <2>4, <3>1
  <2>. QED  BY <2>1, <2>3, <2>4 DEF proveDemoRepaymentHistory
<1>. QED  BY <1>2, <1>3, <1>4, <1>5, <1>6

\* Every button that sends a request, in one form.
Asks(c, b) ==
  /\ ask(c, b)
  /\ \/ b \in {"seed", "bootstrap"} /\ \E a \in AnchorTxs : bootstrapDemoFlow(c, a)
     \/ b = "open" /\ \E p, a : openDemoCredit(c, p, a)
     \/ b = "draw" /\ \E p, a : drawDemoCredit(c, p, a)
     \/ b = "repay" /\ \E p, a : repayDemoCredit(c, p, a)
     \/ b = "history" /\ \E p : proveDemoRepaymentHistory(c, p)

\* The other steps of the anchor and the credit page: a phase and a quote.
Shows ==
  /\ page.name \in {"anchor", "credit"}
  /\ \E ph \in PhasesOf[page.name] : \E q : page' = [page EXCEPT !.phase = ph, !.quote = q]
  /\ UNCHANGED <<vars, unheard, resets>>

\* What a step of the pages is.
LEMMA ConsoleSteps ==
  ASSUME IPage, PageFits, [ConsoleNext]_allVars
  PROVE  \/ UNCHANGED allVars
         \/ Navigate \/ load \/ refresh \/ PageAnswered \/ Shows
         \/ \E c \in Clients, b \in Buttons : Asks(c, b)
         \/ \E c \in Clients : discard_answer(c) \/ operatorReset(c)
         \/ ServerStep /\ UNCHANGED consoleVars
<1>1. page.name \in {"anchor", "credit", "draw", "repay"} /\ page \in Page
  BY PhasesAre DEF IPage, PageTyped, Page
<1>2. ASSUME NEW b \in Offered
      PROVE  b \in Buttons /\ PageOf[b] = page.name
  BY <1>2, OfferedFit
<1>3. ASSUME NEW c \in Clients, loadAnchor(c)
      PROVE  Shows \/ Asks(c, "seed")
  <2>1. CASE page' = [page EXCEPT !.phase = "shown"] /\ UNCHANGED <<vars, unheard, resets>>
    <3>1. page.name = "anchor"
      BY <1>2, <1>3 DEF loadAnchor, PageOf
    <3>2. page' = [page EXCEPT !.phase = "shown", !.quote = page.quote]
      BY <1>1, <2>1 DEF Page
    <3>3. "shown" \in PhasesOf[page.name]
      BY <3>1 DEF PhasesOf
    <3>. QED  BY <2>1, <3>1, <3>2, <3>3 DEF Shows
  <2>. QED  BY <1>3, <2>1 DEF loadAnchor, Asks
<1>4. ASSUME NEW c \in Clients, requestQuote(c)
      PROVE  Shows \/ Asks(c, "bootstrap")
  <2>1. page.name = "credit"
    BY <1>2, <1>4 DEF requestQuote, PageOf
  <2>2. CASE /\ UNCHANGED <<vars, unheard, resets>>
             /\ \E q : page' = [page EXCEPT !.phase = "quoted", !.quote = q]
    <3>1. "quoted" \in PhasesOf[page.name]
      BY <2>1 DEF PhasesOf
    <3>. QED  BY <2>1, <2>2, <3>1 DEF Shows
  <2>. QED  BY <1>4, <2>2 DEF requestQuote, Asks
<1>5. ASSUME NEW c \in Clients,
             openCreditWithProof(c) \/ runDraw(c) \/ runRepay(c) \/ runHistoryProof(c)
      PROVE  \E b \in Buttons : Asks(c, b)
  BY <1>5, PhasesAre DEF openCreditWithProof, runDraw, runRepay, runHistoryProof, Asks
<1>6. CASE edit
  <2>1. page.name = "credit" /\ "input" \in PhasesOf[page.name]
    BY <1>6 DEF edit, PhasesOf
  <2>. QED  BY <1>6, <2>1 DEF edit, Shows
<1>. QED  BY <1>3, <1>4, <1>5, <1>6, PhasesAre DEF ConsoleNext

LEMMA FitsInit == ConsoleInit => IFits
<1>. SUFFICES ASSUME ConsoleInit PROVE IFits
  OBVIOUS
<1>1. page.name = "credit" /\ page.phase = "input" /\ page.asked = None /\ page.waiting = None
  BY DEF ConsoleInit, NewPage, FirstPhase
<1>. QED  BY <1>1, ConsoleAssumption DEF IFits, PageFits, AwaitedFits, PhasesOf

\* A page that is the same still awaits what it awaited.
LEMMA AwaitedStays ==
  ASSUME IFits, UNCHANGED page,
         \A d \in Clients : page.waiting = d =>
           /\ request[d].at # "idle" => request'[d].at # "idle"
           /\ Running(d)' => Running(d) /\ request'[d].op = request[d].op
  PROVE  IFits'
  BY DEF IFits, PageFits, AwaitedFits

\* A page that awaits nothing.
LEMMA UnawaitedFits ==
  ASSUME page'.waiting = None, page'.phase \in PhasesOf[page'.name],
         page'.asked # None => page'.name = PageOf[page'.asked]
  PROVE  IFits'
  BY ConsoleAssumption DEF IFits, PageFits, AwaitedFits

LEMMA FitsNext ==
  ASSUME IType, IPage, IFits, [ConsoleNext]_allVars
  PROVE  IFits'
<1>1. /\ page.phase \in PhasesOf[page.name] /\ page \in Page
      /\ page.asked # None => page.asked \in Buttons /\ page.name = PageOf[page.asked]
      /\ page.waiting # None \/ page.refetch => page.asked # None
  BY DEF IFits, PageFits, IPage, PageTyped, Page
<1>2. CASE UNCHANGED allVars
  BY <1>2, AwaitedStays DEF allVars, vars, consoleVars, Running
<1>3. CASE Navigate
  <2>1. PICK name, url : name \in DOMAIN FirstPhase /\ page' = NewPage(name, url)
    BY <1>3, PhasesAre DEF Navigate, Link, visit
  <2>2. /\ page'.name = name /\ page'.phase = FirstPhase[name]
        /\ page'.waiting = None /\ page'.asked = None
    BY <2>1 DEF NewPage
  <2>3. FirstPhase[name] \in PhasesOf[name]
    <3>1. name \in {"anchor", "credit", "draw", "repay"}
      BY <2>1, PhasesAre
    <3>. QED  BY <3>1 DEF FirstPhase, PhasesOf
  <2>. QED  BY <2>2, <2>3, UnawaitedFits
<1>4. CASE load \/ refresh
  <2>1. /\ page'.name = page.name /\ page'.asked = page.asked /\ page'.waiting = page.waiting
        /\ page'.phase \in {page.phase, PhaseFrom(page.loading)} /\ page'.refetch = page.refetch
    BY <1>1, <1>4 DEF load, refresh, Page
  <2>2. PhaseFrom(page.loading) \in PhasesOf[page.name]
    BY <1>1 DEF PhaseFrom, PhasesOf
  <2>3. request' = request
    BY <1>4 DEF load, refresh, vars
  <2>. QED  BY <1>1, <2>1, <2>2, <2>3 DEF IFits, PageFits, AwaitedFits, Running
<1>5. CASE Shows
  <2>1. /\ page'.name = page.name /\ page'.asked = page.asked /\ page'.waiting = page.waiting
        /\ page'.phase \in PhasesOf[page.name] /\ page'.refetch = page.refetch /\ request' = request
    BY <1>1, <1>5 DEF Shows, vars, Page
  <2>. QED  BY <1>1, <2>1 DEF IFits, PageFits, AwaitedFits, Running
<1>6. ASSUME NEW c \in Clients, NEW b \in Buttons, Asks(c, b)
      PROVE  IFits'
  <2>1. b \in Offered
    BY <1>6 DEF Asks, ask
  <2>2. /\ page'.name = page.name /\ page'.phase = Busy[b] /\ page'.asked = b /\ page'.waiting = c
        /\ ~page'.refetch
    <3>1. Asked(c, b) /\ page.asked = None
      BY <1>6, AskedAs DEF Asks, ask
    <3>2. page.refetch \in BOOLEAN
      BY <1>1 DEF Page
    <3>. QED  BY <1>1, <3>1, <3>2 DEF Asked
  <2>3. PageOf[b] = page.name /\ Busy[b] \in PhasesOf[PageOf[b]]
    BY <2>1, OfferedFit, ButtonsFit DEF IFits
  <2>4. \/ request'[c].at = "running" /\ request'[c].op = OpOf[b]
        \/ request'[c].at = "ok"
    BY <1>6, BeginsAs DEF Asks
  <2>. QED  BY <2>2, <2>3, <2>4 DEF IFits, PageFits, AwaitedFits, Running
<1>7. ASSUME NEW o \in {Done, Failed}, NEW f, page.asked # None, Ended(o, f)
      PROVE  IFits'
  BY <1>1, <1>7, ButtonsFit, UnawaitedFits DEF Ended
<1>8. CASE PageAnswered
  <2>1. CASE Refetches
    BY <1>1, <2>1, UnawaitedFits DEF Refetches
  <2>. QED  BY <1>7, <1>8, <2>1, AnsweredAs
<1>9. ASSUME NEW c \in Clients, discard_answer(c) \/ operatorReset(c)
      PROVE  IFits'
  <2>1. page' = page /\ \A d \in Clients \ {c} : request'[d] = request[d]
    BY <1>9 DEF discard_answer, take_answer, consoleVars, operatorReset, resetDemoFlow, begin,
                IType, TypeOK
  <2>2. page.waiting # c
    BY <1>9 DEF discard_answer, operatorReset, resetDemoFlow, begin, IFits, AwaitedFits
  <2>. QED  BY <2>1, <2>2, AwaitedStays DEF Running
<1>10. CASE ServerStep /\ UNCHANGED consoleVars
  BY <1>10, ServerAnswers, AwaitedStays DEF consoleVars
<1>. QED  BY <1>2, <1>3, <1>4, <1>5, <1>6, <1>8, <1>9, <1>10, ConsoleSteps DEF IFits

-------------------------------------------------------------------------------
(* What a page has seen.                                                   *)

\* The states of the flow about: the stored one, the page's copy of it, and the
\* one on its way to the page.
Seen == {page.flow, snapshot} \cup ({page.loading} \ {None})
SeenPositions == {s.positionId : s \in Seen} \ {None}

\* A page's copies were snapshots once.
ISeen == \A s \in Seen : s \in DemoFlowSnapshot /\ Backed(s) /\ (strayed \/ OnePosition(s))

\* Nothing is shown of a state but which position it is of.
Bare(s) ==
  /\ s \in DemoFlowSnapshot
  /\ s.open = None /\ s.draw = None /\ s.repay = None /\ s.historyProof = None

\* Where a page's copies come from: only the credit page makes up one, of the
\* position of an answer.
ComesFrom(s) ==
  s \in Seen \/ s = snapshot' \/ (Bare(s) /\ (s.positionId = None \/ page'.name = "credit"))

LEMMA CopiesAre ==
  ASSUME IType, IPage, IFits, [ConsoleNext]_allVars
  PROVE  \A s \in Seen' : ComesFrom(s)
<1>1. page \in Page /\ Bare(blankState) /\ blankState.positionId = None
  BY BlankTyped DEF IPage, PageTyped, Bare, blankState
<1>2. ASSUME ComesFrom(page'.flow), page'.loading \in {page.loading, snapshot, None}
      PROVE  \A s \in Seen' : ComesFrom(s)
  BY <1>2 DEF Seen, ComesFrom
<1>3. ComesFrom(page.flow) /\ ComesFrom(snapshot) /\ ComesFrom(blankState)
      /\ (page.loading # None => ComesFrom(page.loading))
  BY <1>1 DEF Seen, ComesFrom
<1>4. CASE UNCHANGED page
  BY <1>2, <1>3, <1>4
<1>5. CASE Navigate
  <2>1. PICK name, url : name \in DOMAIN FirstPhase /\ page' = NewPage(name, url)
    BY <1>5, PhasesAre DEF Navigate, Link, visit
  <2>2. page'.flow = blankState /\ page'.loading \in {snapshot, None}
    BY <2>1 DEF NewPage
  <2>. QED  BY <1>2, <1>3, <2>2
<1>6. CASE load \/ refresh
  <2>1. /\ page'.flow = page.flow \/ (page'.flow = page.loading /\ page.loading # None)
        /\ page'.loading \in {page.loading, snapshot, None}
    BY <1>1, <1>6 DEF load, refresh, Page
  <2>. QED  BY <1>2, <1>3, <2>1
<1>7. CASE Shows
  <2>1. page'.flow = page.flow /\ page'.loading = page.loading
    BY <1>1, <1>7 DEF Shows, Page
  <2>. QED  BY <1>2, <1>3, <2>1
<1>8. ASSUME NEW c \in Clients, NEW b \in Buttons, Asks(c, b)
      PROVE  \A s \in Seen' : ComesFrom(s)
  <2>1. page'.flow = page.flow /\ page'.loading = page.loading
    BY <1>8, AskedAs DEF Asks, Asked
  <2>. QED  BY <1>2, <1>3, <2>1
<1>9. CASE PageAnswered
  <2>1. page'.loading = page.loading
    BY <1>9, AnsweredAs DEF Ended, Refetches
  <2>2. \/ page'.flow \in {page.flow, snapshot}
        \/ page'.name = "credit" /\ \E c \in Clients : page'.flow = KeptAnswer(c)
    BY <1>9, AnsweredAs DEF Ended, Refetches
  <2>3. ASSUME NEW c \in Clients
        PROVE  Bare(KeptAnswer(c))
    BY BlankTyped DEF KeptAnswer, Bare, blankState, DemoFlowSnapshot, IType, TypeOK, Request
  <2>4. ComesFrom(page'.flow)
    BY <1>3, <2>2, <2>3 DEF ComesFrom
  <2>. QED  BY <1>2, <2>1, <2>4
<1>10. ASSUME NEW c \in Clients, discard_answer(c) \/ operatorReset(c)
       PROVE  UNCHANGED page
  BY <1>10 DEF discard_answer, operatorReset, consoleVars
<1>. QED  BY <1>4, <1>5, <1>6, <1>7, <1>8, <1>9, <1>10, ConsoleSteps DEF IFits, allVars, consoleVars

LEMMA SeenInit == ConsoleInit => ISeen
<1>. SUFFICES ASSUME ConsoleInit PROVE ISeen
  OBVIOUS
<1>1. Seen = {blankState}
  BY DEF ConsoleInit, Init, NewPage, Seen
<1>. QED  BY <1>1, BlankTyped DEF ISeen, Backed, OnePosition, blankState

LEMMA SeenNext ==
  ASSUME IType, IType', IPage, IFits, ISeen, IBacked', IOnePosition', [ConsoleNext]_allVars
  PROVE  ISeen'
<1>1. Kept /\ (strayed => strayed')
  <2>1. [Next]_vars
    BY PageIsClient DEF IPage
  <2>2. strayed => strayed'
    BY <2>1 DEF Next, Ask, ServerStep, HandlerStep, bootstrapDemoFlow, resetDemoFlow, openDemoCredit,
           drawDemoCredit, repayDemoCredit, proveDemoRepaymentHistory, resolve, take_answer, succeed,
           refuse, give_up, crash, land_late, write_bootstrap, write_open, write_draw, write_repay,
           write_history, throw_at_settlement, vars
  <2>. QED  BY <2>1, <2>2, NextKept
<1>2. ASSUME NEW s \in DemoFlowSnapshot
      PROVE  Backed(s) => Backed(s)'
  BY <1>1, <1>2, BackedStays
<1>3. ASSUME NEW s, s \in Seen'
      PROVE  s \in DemoFlowSnapshot /\ Backed(s)' /\ (strayed' \/ OnePosition(s))
  <2>1. CASE s \in Seen
    BY <1>1, <1>2, <2>1 DEF ISeen
  <2>2. CASE s = snapshot'
    BY <2>2 DEF IBacked, Backed, IOnePosition, OnePosition, IType, TypeOK
  <2>3. CASE Bare(s)
    BY <2>3 DEF Bare, Backed, OnePosition
  <2>. QED  BY <1>3, <2>1, <2>2, <2>3, CopiesAre DEF ComesFrom
<1>. QED  BY <1>3 DEF ISeen, Backed, OnePosition

-------------------------------------------------------------------------------
(* What a page says while all is calm.                                     *)

\* What PageClaimsHold supposes.
Calm == smooth /\ ~strayed /\ unheard = 0

\* While every answer reaches its page, only what the page awaits runs, or a reset.
OnlyItsOwn ==
  unheard = 0 => \A c \in Clients : Running(c) => request[c].op = "reset" \/ page.waiting = c

\* The request of the page was answered with success.
Answered == page.refetch \/ \E c \in Clients : page.waiting = c /\ request[c].at = "ok"

\* When a page says, or is about to say, that its position is drawn or repaid.
DrawnDue == page.name = "draw" /\ (page.phase = "drawn" \/ Answered)
RepaidDue ==
  /\ page.name = "repay"
  /\ page.phase \in {"repaid", "proving_history"} \/ page.asked = "history" \/ Answered

\* All that is about when a draw or a repay page is open is of one position, and
\* that position is drawn, or repaid, when it is due to be.
SeenOne == page.name \in {"draw", "repay"} => \A p, q \in SeenPositions : p = q
DrawnFor == DrawnDue => \A p \in SeenPositions : phase[p] \in {"drawn", "repaid"}
RepaidFor == RepaidDue => \A p \in SeenPositions : phase[p] = "repaid"

ICalm == Calm => SeenOne /\ DrawnFor /\ RepaidFor

LEMMA CalmInit == ConsoleInit => OnlyItsOwn /\ ICalm
<1>. SUFFICES ASSUME ConsoleInit PROVE OnlyItsOwn /\ ICalm
  OBVIOUS
<1>1. page.name = "credit" /\ \A c \in Clients : ~Running(c)
  BY DEF ConsoleInit, Init, NewPage, Running, NoRequest
<1>. QED  BY <1>1 DEF OnlyItsOwn, ICalm, SeenOne, DrawnFor, DrawnDue, RepaidFor, RepaidDue

\* What is not calm does not become so.
LEMMA CalmBefore ==
  ASSUME IType, IPage, PageFits, [ConsoleNext]_allVars
  PROVE  (unheard' = 0 => unheard = 0) /\ (Calm' => Calm)
<1>1. [Next]_vars
  BY PageIsClient DEF IPage
<1>2. smooth' => smooth
  BY <1>1 DEF Next, Ask, ServerStep, HandlerStep, bootstrapDemoFlow, resetDemoFlow, openDemoCredit,
           drawDemoCredit, repayDemoCredit, proveDemoRepaymentHistory, resolve, begin, take_answer,
           succeed, refuse, give_up, crash, land_late, write_bootstrap, write_open, write_draw,
           write_repay, write_history, throw_at_settlement, vars
<1>3. strayed => strayed'
  BY <1>1 DEF Next, Ask, ServerStep, HandlerStep, bootstrapDemoFlow, resetDemoFlow, openDemoCredit,
           drawDemoCredit, repayDemoCredit, proveDemoRepaymentHistory, resolve, begin, take_answer,
           succeed, refuse, give_up, crash, land_late, write_bootstrap, write_open, write_draw,
           write_repay, write_history, throw_at_settlement, vars
<1>4. unheard \in Nat
  BY DEF IPage, PageTyped
<1>5. unheard' \in {unheard, unheard + 1}
  <2>1. CASE Navigate
    BY <1>4, <2>1 DEF Navigate, Link, visit
  <2>2. CASE load \/ refresh \/ Shows \/ UNCHANGED allVars \/ UNCHANGED consoleVars
    BY <2>2 DEF load, refresh, Shows, allVars, consoleVars
  <2>3. CASE PageAnswered
    BY <2>3 DEF PageAnswered, answer_ok, answer_error, lose_answer, refetched
  <2>4. CASE \E c \in Clients, b \in Buttons : Asks(c, b)
    BY <2>4 DEF Asks, ask
  <2>5. CASE \E c \in Clients : discard_answer(c) \/ operatorReset(c)
    BY <2>5 DEF discard_answer, operatorReset, consoleVars
  <2>. QED  BY <2>1, <2>2, <2>3, <2>4, <2>5, ConsoleSteps
<1>. QED  BY <1>2, <1>3, <1>4, <1>5 DEF Calm

\* An answer that misses its page is counted.
LEMMA OnlyItsOwnNext ==
  ASSUME IType, IPage, IFits, OnlyItsOwn, [ConsoleNext]_allVars
  PROVE  OnlyItsOwn'
<1>. SUFFICES ASSUME unheard' = 0, NEW d \in Clients, Running(d)'
              PROVE  request'[d].op = "reset" \/ page'.waiting = d
  BY DEF OnlyItsOwn
<1>1. unheard = 0 /\ (Running(d) => request[d].op = "reset" \/ page.waiting = d)
  BY CalmBefore DEF OnlyItsOwn, IFits
<1>2. page \in Page /\ (page.waiting # None \/ page.refetch => page.asked # None)
  BY DEF IPage, PageTyped
<1>3. CASE UNCHANGED allVars
  BY <1>1, <1>3 DEF allVars, vars, consoleVars, Running
<1>4. CASE load \/ refresh \/ Shows
  <2>1. page'.waiting = page.waiting /\ request' = request
    BY <1>2, <1>4 DEF load, refresh, Shows, Page, vars
  <2>. QED  BY <1>1, <2>1 DEF Running
<1>5. CASE Navigate
  <2>1. page.waiting = None /\ request' = request
    BY <1>1, <1>5 DEF Navigate, Link, visit, vars
  <2>. QED  BY <1>1, <2>1, ConsoleAssumption DEF Running
<1>6. ASSUME NEW c \in Clients, NEW b \in Buttons, Asks(c, b)
      PROVE  request'[d].op = "reset" \/ page'.waiting = d
  <2>1. page.asked = None /\ page'.waiting = c
    BY <1>6, AskedAs DEF Asks, ask, Asked
  <2>2. \A e \in Clients \ {c} : request'[e] = request[e]
    BY <1>6, BeginsAs DEF Asks
  <2>. QED  BY <1>1, <1>2, <2>1, <2>2, ConsoleAssumption DEF Running
<1>7. ASSUME NEW c \in Clients, take_answer(c)
      PROVE  d # c /\ request'[d] = request[d]
  BY <1>7 DEF take_answer, IType, TypeOK, NoRequest, Running
<1>8. CASE PageAnswered
  <2>1. ASSUME NEW c \in Clients, page.waiting = c, take_answer(c)
        PROVE  request'[d].op = "reset"
    BY <1>1, <1>7, <2>1 DEF Running
  <2>2. CASE refetched
    <3>1. page.waiting = None /\ request' = request
      BY <2>2 DEF refetched, vars, IFits, PageFits
    <3>. QED  BY <1>1, <3>1, ConsoleAssumption DEF Running
  <2>3. ~lose_answer
    BY <1>1 DEF lose_answer
  <2>. QED  BY <1>8, <2>1, <2>2, <2>3 DEF PageAnswered, answer_ok, answer_error
<1>9. ASSUME NEW c \in Clients, discard_answer(c)
      PROVE  request'[d].op = "reset" \/ page'.waiting = d
  BY <1>1, <1>7, <1>9 DEF discard_answer, consoleVars, Running
<1>10. ASSUME NEW c \in Clients, operatorReset(c)
       PROVE  request'[d].op = "reset" \/ page'.waiting = d
  <2>1. page' = page /\ request'[c].op = "reset" /\ \A e \in Clients \ {c} : request'[e] = request[e]
    BY <1>10 DEF operatorReset, resetDemoFlow, begin, IType, TypeOK
  <2>. QED  BY <1>1, <2>1 DEF Running
<1>11. CASE ServerStep /\ UNCHANGED consoleVars
  BY <1>1, <1>11, ServerAnswers DEF consoleVars
<1>. QED  BY <1>3, <1>4, <1>5, <1>6, <1>8, <1>9, <1>10, <1>11, ConsoleSteps DEF IFits

Writes(c) ==
  \/ write_bootstrap(c) \/ write_open(c) \/ write_draw(c) \/ write_repay(c) \/ write_history(c)

\* What a handler writes when requests come one by one: only an open changes the
\* position, and a draw or a repay is of the position there.
LEMMA WriteMoves ==
  ASSUME IType, IBacked, IOneByOne, smooth, ~strayed, NEW c \in Clients, Writes(c)
  PROVE  /\ Running(c) /\ UNCHANGED phase
         /\ request[c].op # "open" => snapshot'.positionId = snapshot.positionId
         /\ request[c].op \in {"draw", "repay"} =>
              /\ snapshot.positionId # None
              /\ Happened(request[c].op, snapshot.positionId)
<1>1. AtWrite(c) /\ Running(c) /\ UNCHANGED phase
  BY DEF Writes, write_bootstrap, write_open, write_draw, write_repay, write_history, AtWrite, chainVars
<1>2. /\ request[c].op \in WritesBack => request[c].positionId = snapshot.positionId
      /\ Happened(request[c].op, request[c].positionId)
  BY <1>1 DEF IOneByOne, OneByOne, IBacked, WritesHappened
<1>3. request[c].op \in WritesBack => snapshot.positionId # None
  BY <1>1, <1>2, DemoFlowAssumption DEF IType, Shaped, Positionless, WritesBack
<1>4. request[c].current \in DemoFlowSnapshot /\ snapshot \in DemoFlowSnapshot
  BY DEF IType, TypeOK, Request
<1>5. ASSUME request[c].op # "open"
      PROVE  snapshot'.positionId = snapshot.positionId
  <2>1. CASE write_bootstrap(c)
    BY <1>4, <2>1 DEF write_bootstrap, DemoFlowSnapshot
  <2>2. CASE write_draw(c)
    BY <1>2, <1>4, <2>2 DEF write_draw, written_over, DemoFlowSnapshot, WritesBack
  <2>3. CASE write_repay(c)
    BY <1>2, <1>4, <2>3 DEF write_repay, written_over, DemoFlowSnapshot, WritesBack
  <2>4. CASE write_history(c)
    BY <1>2, <1>4, <2>4 DEF write_history, written_over, DemoFlowSnapshot, WritesBack
  <2>. QED  BY <1>5, <2>1, <2>2, <2>3, <2>4 DEF Writes, write_open
<1>. QED  BY <1>1, <1>2, <1>3, <1>5 DEF WritesBack

\* Without a write the stored state stays.
LEMMA OthersKeepSnapshot ==
  ASSUME ServerStep
  PROVE  snapshot' = snapshot \/ \E c \in Clients : Writes(c)
  BY DEF ServerStep, HandlerStep, Writes, succeed, refuse, give_up, throw_at_settlement, crash, land_late

\* A page sees no other position when the stored one stays or goes.
LEMMA PositionsStay ==
  ASSUME IType, IPage, IFits, [ConsoleNext]_allVars, page'.name # "credit",
         snapshot'.positionId \in {snapshot.positionId, None}
  PROVE  SeenPositions' \subseteq SeenPositions
<1>. SUFFICES ASSUME NEW s \in Seen', s.positionId # None
              PROVE  s.positionId \in SeenPositions
  BY DEF SeenPositions
<1>1. snapshot \in Seen
  BY DEF Seen
<1>. QED  BY <1>1, CopiesAre DEF ComesFrom, SeenPositions

\* Steps that keep a draw or a repay page about what it is about.
LEMMA CalmStays ==
  ASSUME ICalm, Kept, SeenPositions \subseteq PositionIds, Calm' => Calm,
         Calm' /\ page'.name \in {"draw", "repay"} =>
           page.name = page'.name /\ SeenPositions' \subseteq SeenPositions,
         Calm' /\ DrawnDue' =>
           DrawnDue \/ \E p \in SeenPositions : phase'[p] \in {"drawn", "repaid"},
         Calm' /\ RepaidDue' => RepaidDue \/ \E p \in SeenPositions : phase'[p] = "repaid"
  PROVE  ICalm'
<1>. SUFFICES ASSUME Calm' PROVE (SeenOne /\ DrawnFor /\ RepaidFor)'
  BY DEF ICalm
<1>1. SeenOne /\ DrawnFor /\ RepaidFor
  BY DEF ICalm
<1>2. SeenOne'
  BY <1>1 DEF SeenOne
<1>3. DrawnFor'
  <2>. SUFFICES ASSUME DrawnDue', NEW p \in SeenPositions' PROVE phase'[p] \in {"drawn", "repaid"}
    BY DEF DrawnFor
  <2>1. page'.name \in {"draw", "repay"}
    BY DEF DrawnDue
  <2>2. p \in SeenPositions /\ p \in PositionIds /\ \A q \in SeenPositions : q = p
    BY <1>1, <2>1 DEF SeenOne
  <2>. QED  BY <1>1, <2>2 DEF DrawnFor, Kept
<1>4. RepaidFor'
  <2>. SUFFICES ASSUME RepaidDue', NEW p \in SeenPositions' PROVE phase'[p] = "repaid"
    BY DEF RepaidFor
  <2>1. page'.name \in {"draw", "repay"}
    BY DEF RepaidDue
  <2>2. p \in SeenPositions /\ p \in PositionIds /\ \A q \in SeenPositions : q = p
    BY <1>1, <2>1 DEF SeenOne
  <2>. QED  BY <1>1, <2>2 DEF RepaidFor, Kept
<1>. QED  BY <1>2, <1>3, <1>4

\* What runs for a draw or a repay page.
LEMMA AwaitedIs ==
  ASSUME IPage, IFits, NEW c \in Clients, page.waiting = c, Running(c),
         page.name \in {"draw", "repay"}
  PROVE  /\ request[c].op \in WritesBack
         /\ page.name = "draw" => request[c].op = "draw"
         /\ page.name = "repay" => request[c].op = "repay" \/ page.asked = "history"
<1>1. /\ page.asked \in {"seed", "bootstrap", "open", "draw", "repay", "history"}
      /\ page.name = PageOf[page.asked] /\ request[c].op = OpOf[page.asked]
  BY PhasesAre, ConsoleAssumption DEF IPage, PageTyped, Page, IFits, PageFits, AwaitedFits
<1>2. page.asked \in {"draw", "repay", "history"}
  BY <1>1 DEF PageOf
<1>. QED  BY <1>1, <1>2 DEF PageOf, OpOf, WritesBack

\* Loading and asking: what is due is due already, or is what was loaded.
LEMMA QuietCalm ==
  ASSUME IType, IPage, IFits, ISeen, ICalm, [ConsoleNext]_allVars, Kept, Calm' => Calm,
         UNCHANGED snapshot,
         \/ UNCHANGED <<page, request>> \/ load \/ refresh \/ Shows
         \/ \E c \in Clients, b \in Buttons : Asks(c, b)
  PROVE  ICalm'
<1>1. page \in Page /\ SeenPositions \subseteq PositionIds
  BY DEF IPage, PageTyped, ISeen, SeenPositions, DemoFlowSnapshot
<1>2. page'.name = page.name => SeenPositions' \subseteq SeenPositions \/ page.name = "credit"
  BY PositionsStay
<1>3. ASSUME page'.name = page.name,
             Calm' /\ DrawnDue' =>
               DrawnDue \/ \E p \in SeenPositions : phase'[p] \in {"drawn", "repaid"},
             Calm' /\ RepaidDue' => RepaidDue \/ \E p \in SeenPositions : phase'[p] = "repaid"
      PROVE  ICalm'
  BY <1>1, <1>2, <1>3, CalmStays
<1>4. CASE UNCHANGED <<page, request>>
  BY <1>3, <1>4 DEF DrawnDue, RepaidDue, Answered
<1>5. CASE load
  <2>1. /\ page'.name = page.name /\ page'.asked = page.asked /\ page'.refetch = page.refetch
        /\ page'.waiting = page.waiting /\ request' = request /\ UNCHANGED vars
        /\ page.loading # None
        /\ page'.phase \in {page.phase, PhaseFrom(page.loading)}
    BY <1>1, <1>5 DEF load, Page, vars
  <2>2. Answered' => Answered
    BY <2>1 DEF Answered
  <2>3. PICK s : s = page.loading /\ s \in Seen
    BY <2>1 DEF Seen
  <2>4. s \in DemoFlowSnapshot /\ Backed(s) /\ (strayed \/ OnePosition(s))
    BY <2>3 DEF ISeen
  <2>5. ASSUME Calm, s.draw # None
        PROVE  \E p \in SeenPositions : phase[p] \in {"drawn", "repaid"}
    <3>1. s.positionId = s.draw /\ phase[s.draw] \in {"drawn", "repaid"}
      BY <2>4, <2>5 DEF Calm, OnePosition, Backed
    <3>. QED  BY <2>3, <2>5, <3>1 DEF SeenPositions
  <2>6. ASSUME Calm, s.repay # None
        PROVE  \E p \in SeenPositions : phase[p] = "repaid"
    <3>1. s.positionId = s.repay /\ phase[s.repay] = "repaid"
      BY <2>4, <2>6 DEF Calm, OnePosition, Backed
    <3>. QED  BY <2>3, <2>6, <3>1 DEF SeenPositions
  <2>7. phase' = phase
    BY <2>1 DEF vars, chainVars
  <2>8. Calm' /\ DrawnDue' =>
          DrawnDue \/ \E p \in SeenPositions : phase'[p] \in {"drawn", "repaid"}
    BY <2>1, <2>2, <2>3, <2>5, <2>7 DEF DrawnDue, PhaseFrom
  <2>9. Calm' /\ RepaidDue' => RepaidDue \/ \E p \in SeenPositions : phase'[p] = "repaid"
    BY <2>1, <2>2, <2>3, <2>6, <2>7 DEF RepaidDue, PhaseFrom
  <2>. QED  BY <1>3, <2>1, <2>8, <2>9
<1>6. CASE refresh
  <2>1. /\ page'.name = page.name /\ page'.asked = page.asked /\ page'.refetch = page.refetch
        /\ page'.waiting = page.waiting /\ page'.phase = page.phase /\ request' = request
    BY <1>1, <1>6 DEF refresh, Page, vars
  <2>. QED  BY <1>3, <2>1 DEF DrawnDue, RepaidDue, Answered
<1>7. CASE Shows
  <2>1. page'.name = page.name /\ page.name \notin {"draw", "repay"}
    BY <1>1, <1>7 DEF Shows, Page
  <2>. QED  BY <1>3, <2>1 DEF DrawnDue, RepaidDue
<1>8. ASSUME NEW c \in Clients, NEW b \in Buttons, Asks(c, b)
      PROVE  ICalm'
  <2>1. Asked(c, b) /\ page.asked = None /\ b \in Offered
    BY <1>8, AskedAs DEF Asks, ask
  <2>2. ~page.refetch /\ PageOf[b] = page.name /\ (b = "history" => page.phase = "repaid")
    BY <2>1, OfferedFit DEF IFits, IPage, PageTyped
  <2>3. request'[c].at = "running" \/ (request'[c].at = "ok" /\ b = "history")
    BY <1>8, BeginsAs DEF Asks
  <2>4. page'.waiting = c /\ page'.phase = Busy[b] /\ page'.asked = b /\ page'.name = page.name
        /\ page'.refetch = page.refetch
    BY <2>1 DEF Asked
  <2>5. Answered' => b = "history"
    BY <2>2, <2>3, <2>4 DEF Answered
  <2>6. b \in {"seed", "bootstrap", "open", "draw", "repay", "history"}
    BY PhasesAre
  <2>7. /\ page.name = "draw" => b = "draw"
        /\ page.name = "repay" => b \in {"repay", "history"}
    BY <2>2, <2>6 DEF PageOf
  <2>8. Busy["draw"] = "drawing" /\ Busy["repay"] = "repaying"
    BY DEF Busy
  <2>9. ~DrawnDue'
    BY <2>4, <2>5, <2>7, <2>8 DEF DrawnDue
  <2>10. RepaidDue' => RepaidDue
    BY <2>2, <2>4, <2>5, <2>7, <2>8 DEF RepaidDue
  <2>. QED  BY <1>3, <2>4, <2>9, <2>10
<1>. QED  BY <1>4, <1>5, <1>6, <1>7, <1>8

\* A page just opened says nothing yet.
LEMMA OpenedCalm ==
  ASSUME Navigate
  PROVE  ICalm'
<1>1. PICK name, url : page' = NewPage(name, url) /\ UNCHANGED vars
  BY DEF Navigate, Link, visit
<1>2. /\ page'.flow = blankState /\ page'.loading \in {None, snapshot}
      /\ page'.name = name /\ page'.phase = FirstPhase[name]
      /\ ~page'.refetch /\ page'.waiting = None /\ page'.asked = None
  BY <1>1 DEF NewPage
<1>3. SeenPositions' \subseteq {snapshot.positionId}
  BY <1>1, <1>2 DEF SeenPositions, Seen, vars, blankState
<1>4. ~Answered'
  BY <1>2, ConsoleAssumption DEF Answered
<1>5. FirstPhase["draw"] = "ready" /\ FirstPhase["repay"] = "outstanding"
  BY DEF FirstPhase
<1>6. ~DrawnDue'
  BY <1>2, <1>4, <1>5 DEF DrawnDue
<1>7. ~RepaidDue'
  BY <1>2, <1>4, <1>5, PhasesAre, ConsoleAssumption DEF RepaidDue
<1>8. SeenOne'
  BY <1>3 DEF SeenOne
<1>. QED  BY <1>6, <1>7, <1>8 DEF ICalm, DrawnFor, RepaidFor

\* A page says it is done when its request was, and went back to repaid only when
\* the history was asked for.
LEMMA AnsweredCalm ==
  ASSUME IType, IPage, IFits, ISeen, ICalm, [ConsoleNext]_allVars, Kept, Calm' => Calm,
         UNCHANGED snapshot, PageAnswered
  PROVE  ICalm'
<1>1. SeenPositions \subseteq PositionIds
  BY DEF ISeen, SeenPositions, DemoFlowSnapshot
<1>2. page.name \in {"draw", "repay"} =>
        /\ page.name = "draw" => page.asked = "draw"
        /\ page.name = "repay" => page.asked \in {"repay", "history"}
  <2>1. page.asked \in {"seed", "bootstrap", "open", "draw", "repay", "history"}
        /\ page.name = PageOf[page.asked]
    BY AnsweredAs, PhasesAre DEF IPage, PageTyped, Page, IFits, PageFits
  <2>. QED  BY <2>1 DEF PageOf
<1>3. page'.name = page.name
  BY AnsweredAs DEF Ended, Refetches
<1>4. SeenPositions' \subseteq SeenPositions \/ page.name = "credit"
  BY <1>3, PositionsStay
<1>5. ASSUME page.name \in {"draw", "repay"} => Answered
      PROVE  ICalm'
  <2>1. (page.name = "draw" => DrawnDue) /\ (page.name = "repay" => RepaidDue)
    BY <1>5 DEF DrawnDue, RepaidDue
  <2>2. (DrawnDue' => DrawnDue) /\ (RepaidDue' => RepaidDue)
    BY <1>3, <2>1 DEF DrawnDue, RepaidDue
  <2>. QED  BY <1>1, <1>3, <1>4, <2>2, CalmStays
<1>6. CASE Ended(Failed, page.flow)
  <2>1. ~page'.refetch /\ page'.waiting = None /\ page'.asked = None /\ page'.phase = Failed[page.asked]
    BY <1>6 DEF Ended
  <2>2. ~Answered'
    BY <2>1, ConsoleAssumption DEF Answered
  <2>3. Failed["draw"] = "ready" /\ Failed["repay"] = "outstanding"
    BY DEF Failed
  <2>4. ~DrawnDue'
    BY <1>2, <1>3, <2>1, <2>2, <2>3 DEF DrawnDue
  <2>5. RepaidDue' => RepaidDue
    BY <1>2, <1>3, <2>1, <2>2, <2>3, ConsoleAssumption, PhasesAre DEF RepaidDue
  <2>. QED  BY <1>1, <1>3, <1>4, <2>4, <2>5, CalmStays
<1>7. page.name \in {"anchor", "credit"} => ICalm'
  BY <1>5
<1>8. CASE \E c \in Clients : page.waiting = c /\ request[c].at = "ok"
  BY <1>5, <1>8 DEF Answered
<1>9. CASE page.refetch
  BY <1>5, <1>9 DEF Answered
<1>. QED  BY <1>6, <1>7, <1>8, <1>9, AnsweredAs

\* The flow goes on while the page waits: it only does what the page asked for.
LEMMA ServerCalm ==
  ASSUME IType, IBacked, IOneByOne, IPage, IFits, ISeen, OnlyItsOwn, ICalm, [ConsoleNext]_allVars,
         Kept, Calm' => Calm, ServerStep, UNCHANGED consoleVars
  PROVE  ICalm'
<1>1. SeenPositions \subseteq PositionIds /\ snapshot \in Seen
  BY DEF ISeen, SeenPositions, DemoFlowSnapshot, Seen
<1>2. UNCHANGED page
  BY DEF consoleVars
<1>3. ASSUME Calm, NEW c \in Clients, Writes(c), page.name \in {"draw", "repay"}
      PROVE  /\ snapshot'.positionId = snapshot.positionId
             /\ page.name = "repay" /\ page.waiting = c =>
                  page.asked = "history" \/ request[c].op = "repay"
             /\ page.name = "draw" /\ page.waiting = c => request[c].op = "draw"
  <2>1. Running(c) /\ (request[c].op # "open" => snapshot'.positionId = snapshot.positionId)
    BY <1>3, WriteMoves DEF Calm
  <2>2. request[c].op = "reset" \/ page.waiting = c
    BY <1>3, <2>1 DEF Calm, OnlyItsOwn
  <2>3. page.waiting = c => /\ request[c].op \in WritesBack
                            /\ page.name = "draw" => request[c].op = "draw"
                            /\ page.name = "repay" => request[c].op = "repay" \/ page.asked = "history"
    BY <1>3, <2>1, AwaitedIs
  <2>. QED  BY <2>1, <2>2, <2>3 DEF WritesBack
<1>4. ASSUME Calm, page.name \in {"draw", "repay"}
      PROVE  SeenPositions' \subseteq SeenPositions
  BY <1>2, <1>3, <1>4, OthersKeepSnapshot, PositionsStay
<1>5. ASSUME Calm, NEW c \in Clients, Writes(c), request[c].op \in {"draw", "repay"}
      PROVE  \E p \in SeenPositions :
               /\ request[c].op = "draw" => phase'[p] \in {"drawn", "repaid"}
               /\ request[c].op = "repay" => phase'[p] = "repaid"
  <2>1. snapshot.positionId # None /\ Happened(request[c].op, snapshot.positionId)
    BY <1>5, WriteMoves DEF Calm
  <2>2. snapshot.positionId \in SeenPositions
    BY <1>1, <2>1 DEF SeenPositions
  <2>3. request[c].op = "draw" => phase'[snapshot.positionId] \in {"drawn", "repaid"}
    BY <1>1, <2>1, <2>2 DEF Happened, Kept
  <2>4. request[c].op = "repay" => phase'[snapshot.positionId] = "repaid"
    BY <1>1, <2>1, <2>2 DEF Happened, Kept
  <2>. QED  BY <1>5, <2>2, <2>3, <2>4
<1>6. ASSUME Answered', ~Answered
      PROVE  \E c \in Clients : page.waiting = c /\ Writes(c)
  <2>1. PICK c \in Clients : page.waiting = c /\ request'[c].at = "ok"
    BY <1>2, <1>6 DEF Answered
  <2>2. request[c].at # "ok"
    BY <1>6, <2>1 DEF Answered
  <2>. QED  BY <2>1, <2>2, ServerAnswers DEF Writes
<1>7. ASSUME Calm, DrawnDue', ~DrawnDue
      PROVE  \E p \in SeenPositions : phase'[p] \in {"drawn", "repaid"}
  <2>1. page.name = "draw" /\ Answered' /\ ~Answered
    BY <1>2, <1>7 DEF DrawnDue
  <2>2. PICK c \in Clients : page.waiting = c /\ Writes(c)
    BY <1>6, <2>1
  <2>3. request[c].op = "draw"
    BY <1>3, <1>7, <2>1, <2>2
  <2>. QED  BY <1>5, <1>7, <2>2, <2>3
<1>8. ASSUME Calm, RepaidDue', ~RepaidDue
      PROVE  \E p \in SeenPositions : phase'[p] = "repaid"
  <2>1. page.name = "repay" /\ Answered' /\ ~Answered /\ page.asked # "history"
    BY <1>2, <1>8 DEF RepaidDue
  <2>2. PICK c \in Clients : page.waiting = c /\ Writes(c)
    BY <1>6, <2>1
  <2>3. request[c].op = "repay"
    BY <1>3, <1>8, <2>1, <2>2
  <2>. QED  BY <1>5, <1>8, <2>2, <2>3
<1>. QED  BY <1>1, <1>2, <1>4, <1>7, <1>8, CalmStays

LEMMA CalmNext ==
  ASSUME IType, IBacked, IOneByOne, IPage, IFits, ISeen, OnlyItsOwn, ICalm, [ConsoleNext]_allVars
  PROVE  ICalm'
<1>1. Kept /\ (Calm' => Calm)
  BY PageIsClient, NextKept, CalmBefore DEF IPage, IFits
<1>2. CASE UNCHANGED allVars \/ load \/ refresh \/ Shows
  <2>1. UNCHANGED snapshot /\ (UNCHANGED allVars => UNCHANGED <<page, request>>)
    BY <1>2 DEF allVars, vars, consoleVars, load, refresh, Shows
  <2>. QED  BY <1>1, <1>2, <2>1, QuietCalm
<1>3. ASSUME NEW c \in Clients, NEW b \in Buttons, Asks(c, b)
      PROVE  ICalm'
  <2>1. UNCHANGED snapshot
    BY <1>3, BeginsAs DEF Asks
  <2>. QED  BY <1>1, <1>3, <2>1, QuietCalm
<1>4. CASE PageAnswered
  <2>1. UNCHANGED snapshot
    BY <1>4 DEF PageAnswered, answer_ok, answer_error, take_answer, lose_answer, refetched, vars
  <2>. QED  BY <1>1, <1>4, <2>1, AnsweredCalm
<1>5. ASSUME NEW c \in Clients, discard_answer(c) \/ operatorReset(c)
      PROVE  ICalm'
  <2>1. /\ UNCHANGED page /\ request'[c].at # "ok"
        /\ \A d \in Clients \ {c} : request'[d] = request[d]
    BY <1>5 DEF discard_answer, take_answer, consoleVars, operatorReset, resetDemoFlow, begin,
                IType, TypeOK, NoRequest
  <2>2. Answered' => Answered
    BY <2>1 DEF Answered
  <2>3. snapshot'.positionId \in {snapshot.positionId, None}
    BY <1>5 DEF discard_answer, take_answer, operatorReset, resetDemoFlow, blankState
  <2>4. page.name # "credit" => SeenPositions' \subseteq SeenPositions
    BY <2>1, <2>3, PositionsStay
  <2>5. SeenPositions \subseteq PositionIds
    BY DEF ISeen, SeenPositions, DemoFlowSnapshot
  <2>6. (DrawnDue' => DrawnDue) /\ (RepaidDue' => RepaidDue)
    BY <2>1, <2>2 DEF DrawnDue, RepaidDue
  <2>. QED  BY <1>1, <2>1, <2>4, <2>5, <2>6, CalmStays
<1>6. CASE ServerStep /\ UNCHANGED consoleVars
  BY <1>1, <1>6, ServerCalm
<1>. QED  BY <1>2, <1>3, <1>4, <1>5, <1>6, OpenedCalm, ConsoleSteps DEF IFits

\* All that the pages rest on while all is calm.
ISaying == /\ IConsole /\ IOnePosition /\ IOneByOne
           /\ IFits /\ ISeen /\ OnlyItsOwn /\ ICalm

LEMMA SayingInductive ==
  /\ ConsoleInit => ISaying
  /\ ISaying /\ [ConsoleNext]_allVars => ISaying'
<1>1. ConsoleInit => ISaying
  BY ConsoleInductive, OnePositionInit, OneByOneInit, FitsInit, SeenInit, CalmInit
     DEF ConsoleInit, ISaying
<1>2. ASSUME ISaying, [ConsoleNext]_allVars
      PROVE  ISaying'
  <2>1. IConsole /\ IConsole' /\ [Next]_vars
    BY <1>2, ConsoleInductive, PageIsClient DEF ISaying, IConsole, IPage
  <2>2. IType /\ IType' /\ IBacked /\ IBacked' /\ IKnown /\ IPage
    BY <2>1 DEF IConsole
  <2>3. IOnePosition' /\ IOneByOne' /\ IFits'
    BY <1>2, <2>1, <2>2, OnePositionNext, OneByOneNext, FitsNext DEF ISaying
  <2>4. ISeen' /\ OnlyItsOwn' /\ ICalm'
    BY <1>2, <2>2, <2>3, SeenNext, OnlyItsOwnNext, CalmNext DEF ISaying
  <2>. QED  BY <2>1, <2>3, <2>4 DEF ISaying
<1>. QED  BY <1>1, <1>2

\* As long as requests come one by one and every answer reaches its page, what a page
\* says of the position it shows has happened on chain, for any positions, clients and
\* bounds: after reloads, navigation and fetches that arrive late as well (credit,
\* draw and repay page.tsx).
THEOREM PagesSayTrue == ConsoleSpec => []PageClaimsHold
<1>1. ASSUME ISaying
      PROVE  PageClaimsHold
  <2>. SUFFICES ASSUME Calm, NEW p \in PositionIds, p = page.flow.positionId
                PROVE  /\ "opened" \in Says => phase[p] # "none"
                       /\ "drawn" \in Says => phase[p] \in {"drawn", "repaid"}
                       /\ "repaid" \in Says => phase[p] = "repaid"
                       /\ "proven" \in Says => p \in proven
    BY DEF PageClaimsHold, Calm
  <2>1. /\ page.flow \in Seen /\ p \in SeenPositions /\ SeenOne /\ DrawnFor /\ RepaidFor
        /\ PageFits /\ page.name \in {"anchor", "credit", "draw", "repay"}
    BY <1>1, DemoFlowAssumption, PhasesAre
       DEF Seen, SeenPositions, ISaying, ICalm, IFits, IConsole, IPage, PageTyped, Page
  <2>2. phase[p] # "none"
    BY <1>1, DemoFlowAssumption DEF ISaying, IConsole, IPage, PageKnown, Known
  <2>3. ASSUME page.phase = "drawn"
        PROVE  phase[p] \in {"drawn", "repaid"}
    <3>1. page.name = "draw"
      BY <2>1, <2>3 DEF PageFits, PhasesOf
    <3>. QED  BY <2>1, <2>3, <3>1 DEF DrawnFor, DrawnDue
  <2>4. ASSUME page.phase \in {"repaid", "proving_history"}
        PROVE  phase[p] = "repaid"
    <3>1. page.name = "repay"
      BY <2>1, <2>4 DEF PageFits, PhasesOf
    <3>. QED  BY <2>1, <2>4, <3>1 DEF RepaidFor, RepaidDue
  <2>5. ASSUME page.flow.historyProof # None
        PROVE  p \in proven
    <3>1. Backed(page.flow) /\ OnePosition(page.flow)
      BY <1>1, <2>1 DEF ISaying, ISeen, Calm
    <3>. QED  BY <2>5, <3>1 DEF Backed, OnePosition
  <2>. QED  BY <2>2, <2>3, <2>4, <2>5 DEF Says, CreditSays, DrawSays, RepaySays
<1>2. ISaying => PageClaimsHold
  BY <1>1
<1>. QED  BY <1>2, SayingInductive, PTL DEF ConsoleSpec
================================================================================
