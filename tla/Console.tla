--------------------------------- MODULE Console ---------------------------------
(***************************************************************************)
(* The anchor, credit, draw and repay pages of the front end, as one       *)
(* browser tab that works on the demo flow.                                *)
(*                                                                         *)
(* A page shows what its own phase and its copy of the flow's state say.   *)
(* It sends one request at a time and is busy until it has the answer; but *)
(* the connection may break first, or the user leave, and the server goes  *)
(* on without the page.  A page's copy may be older than what it replaces. *)
(***************************************************************************)
EXTENDS DemoFlow

CONSTANT MaxMishaps   \* bound, see Bounded

VARIABLES
  page,      \* the page in the tab
  unheard,   \* history: answers that missed their page
  resets     \* history: resets by the operator

consoleVars == <<page, unheard, resets>>
allVars == <<vars, consoleVars>>

\* The phase of a page just opened; and what a request turns the phase into
\* while it runs, when it has succeeded, and when it has failed.
FirstPhase == [anchor |-> "opened", credit |-> "input", draw |-> "ready", repay |-> "outstanding"]
Busy == [seed |-> "seeding", bootstrap |-> "quoting", open |-> "proving", draw |-> "drawing",
         repay |-> "repaying", history |-> "proving_history"]
Done == [seed |-> "shown", bootstrap |-> "quoted", open |-> "verified", draw |-> "drawn",
         repay |-> "repaid", history |-> "repaid"]
Failed == [seed |-> "shown", bootstrap |-> "input", open |-> "failed", draw |-> "ready",
           repay |-> "outstanding", history |-> "repaid"]

Buttons == DOMAIN Busy
Phases == {"opened"} \cup UNION {{Busy[b], Done[b], Failed[b]} : b \in Buttons}

ASSUME ConsoleAssumption == None \notin Clients \cup Buttons

\* `url` is the positionId query parameter, `flow` the page's copy of the flow's
\* state and `loading` the answer to a load on its way; `waiting` is the request it
\* awaits, `asked` the button that sent it, `refetch` that it then loads again.
Page ==
  [name : DOMAIN FirstPhase, phase : Phases, asked : Buttons \cup {None},
   quote : {None, "chain", "reference"}, url : PositionIds \cup {None},
   flow : DemoFlowSnapshot, loading : DemoFlowSnapshot \cup {None},
   refetch : BOOLEAN, waiting : Clients \cup {None}]

ConsoleTypeOK ==
  /\ TypeOK
  /\ page \in Page
  /\ unheard \in Nat /\ resets \in Nat

\* A page just opened.  Draw and repay load the flow's state at once.
NewPage(name, url) ==
  [name |-> name, phase |-> FirstPhase[name], quote |-> None, url |-> url,
   flow |-> blankState, loading |-> IF name \in {"draw", "repay"} THEN snapshot ELSE None,
   refetch |-> FALSE, waiting |-> None, asked |-> None]

ConsoleInit ==
  /\ Init
  /\ page = NewPage("credit", None)
  /\ unheard = 0 /\ resets = 0

\* Bound: how many answers miss their page, resets happen and transactions are
\* given up on without having landed, together.
Bounded == unheard' + resets' + Cardinality(late') <= MaxMishaps

-------------------------------------------------------------------------------
(* Navigation and loading.                                                 *)

\* The user follows a link, or opens a page by its address; what the page was
\* waiting for it will not hear.
visit(name, url) ==
  /\ page' = NewPage(name, url)
  /\ unheard' = unheard + (IF page.waiting = None THEN 0 ELSE 1)
  /\ UNCHANGED <<vars, resets>>
  /\ Bounded

\* The links between the pages carry the position: of the open's answer, and
\* then of the flow.
Link ==
  \/ page.name = "credit" /\ page.phase = "verified" /\ visit("draw", page.flow.positionId)
  \/ page.name = "draw" /\ page.phase = "drawn" /\ visit("repay", Or(page.flow.positionId, page.url))

\* Without a link a page is opened without a position.
Navigate ==
  \/ Link
  \/ \E name \in DOMAIN FirstPhase : visit(name, None)

\* What a state that was fetched says the phase is: it moves forward only.
PhaseFrom(flow) ==
  IF page.name = "draw" /\ flow.draw # None THEN "drawn"
  ELSE IF page.name = "repay" /\ flow.repay # None THEN "repaid"
  ELSE page.phase

\* load() has its answer, or has failed and changes nothing.
load ==
  /\ page.loading # None
  /\ \/ page' = [page EXCEPT !.flow = page.loading, !.loading = None,
                             !.phase = PhaseFrom(page.loading)]
     \/ page' = [page EXCEPT !.loading = None]
  /\ UNCHANGED <<vars, unheard, resets>>

refresh ==
  /\ page.name \in {"draw", "repay"}
  /\ page.loading = None /\ page.phase \notin {Busy[b] : b \in Buttons}
  /\ page' = [page EXCEPT !.loading = snapshot]
  /\ UNCHANGED <<vars, unheard, resets>>

-------------------------------------------------------------------------------
(* The buttons.                                                            *)

\* Variant with a plausible bug: the phase is named for the button.
mut_asking(c, button) ==
  [page EXCEPT !.phase = button, !.waiting = c, !.asked = button]

\* The page sends a request and is busy.  Bound: one request of a page at a time.
asking(c, button) ==
  [page EXCEPT !.phase = Busy[button], !.waiting = c, !.asked = button]

\* The buttons a page offers in its phase; seed is no button but asked at once.
Offered ==
  CASE page.phase = "opened" -> {"seed"}
    [] page.phase = "input" -> {"bootstrap"}
    [] page.phase = "quoted" -> IF page.quote = "chain" THEN {"open"} ELSE {}
    [] page.phase = "ready" -> {"draw"}
    [] page.phase = "outstanding" -> {"repay"}
    [] page.phase = "repaid" -> IF page.flow.historyProof = None THEN {"history"} ELSE {}
    [] OTHER -> {}

ask(c, button) ==
  /\ page.asked = None /\ button \in Offered
  /\ page' = asking(c, button)
  /\ UNCHANGED <<unheard, resets>>

\* The request is over for the page.
over(outcome) == [page EXCEPT !.waiting = None, !.refetch = FALSE, !.asked = None,
                              !.phase = outcome[page.asked]]

\* The anchor transaction a page knows of, if any.
KnownTx == {a \in AnchorTxs : sep31[a] # None}

\* The anchor page bootstraps the demo when it finds no SEP-31 transaction.
loadAnchor(c) ==
  /\ "seed" \in Offered
  /\ \/ /\ page' = [page EXCEPT !.phase = "shown"]
        /\ UNCHANGED <<vars, unheard, resets>>
     \/ /\ KnownTx = {}
        /\ \E a \in AnchorTxs : bootstrapDemoFlow(c, a)
        /\ ask(c, "seed")

\* Get quote: an asset without a contract is quoted by the page itself; for the
\* other the demo is bootstrapped first where there is no SEP-31 transaction.
requestQuote(c) ==
  /\ "bootstrap" \in Offered
  /\ \/ /\ page' = [page EXCEPT !.phase = "quoted", !.quote = "reference"]
        /\ UNCHANGED <<vars, unheard, resets>>
     \/ /\ KnownTx # {}
        /\ page' = [page EXCEPT !.phase = "quoted", !.quote = "chain"]
        /\ UNCHANGED <<vars, unheard, resets>>
     \/ /\ KnownTx = {}
        /\ \E a \in AnchorTxs : bootstrapDemoFlow(c, a)
        /\ ask(c, "bootstrap")

\* Verify private collateral.  The progress stages it shows meanwhile are left out.
openCreditWithProof(c) ==
  /\ \E p \in PositionIds, a \in KnownTx : openDemoCredit(c, p, a)
  /\ ask(c, "open")

\* Edit: back to the form, unless proving or verified.
edit ==
  /\ page.name = "credit" /\ page.phase \in {"quoted", "failed"}
  /\ page' = [page EXCEPT !.phase = "input", !.quote = None]
  /\ UNCHANGED <<vars, unheard, resets>>

\* queryPositionId || flowState?.positionId
PagePosition == Or(page.url, page.flow.positionId)

runDraw(c) ==
  /\ drawDemoCredit(c, PagePosition, page.flow.anchorTransactionId)
  /\ ask(c, "draw")

runRepay(c) ==
  /\ repayDemoCredit(c, PagePosition, page.flow.anchorTransactionId)
  /\ ask(c, "repay")

runHistoryProof(c) ==
  /\ proveDemoRepaymentHistory(c, PagePosition)
  /\ ask(c, "history")

-------------------------------------------------------------------------------
(* Answers.                                                                *)

\* Variant with a plausible bug: any answer is taken for a success.
mut_any_answer(c) == request[c].at \in {"ok", "error"}

\* res.ok
succeeded(c) == request[c].at = "ok"

\* The credit page keeps the answer, which is the state the open left behind.
KeptAnswer(c) == [blankState EXCEPT !.positionId = request[c].positionId]

\* res.ok: draw and repay fetch the state again before they are done.
answer_ok(c) ==
  /\ page.waiting = c /\ succeeded(c)
  /\ page' = CASE page.name = "anchor" -> over(Done)
               [] page.name = "credit" ->
                    [over(Done) EXCEPT !.quote = "chain", !.flow = KeptAnswer(c)]
               [] OTHER -> [page EXCEPT !.waiting = None, !.refetch = TRUE]
  /\ take_answer(c)
  /\ UNCHANGED <<unheard, resets>>

answer_error(c) ==
  /\ page.waiting = c /\ request[c].at = "error"
  /\ page' = over(Failed)
  /\ take_answer(c)
  /\ UNCHANGED <<unheard, resets>>

\* The connection breaks: fetch rejects, the server goes on.
lose_answer ==
  /\ page.waiting # None
  /\ page' = over(Failed)
  /\ unheard' = unheard + 1
  /\ UNCHANGED <<vars, resets>>
  /\ Bounded

\* An answer nobody waits for.
discard_answer(c) ==
  /\ page.waiting # c
  /\ take_answer(c)
  /\ UNCHANGED consoleVars

\* The state fetched after a success arrives, or does not: then the page shows
\* an error and offers the button again.
refetched ==
  /\ page.refetch
  /\ page' \in {[over(Done) EXCEPT !.flow = snapshot], over(Failed)}
  /\ UNCHANGED <<vars, unheard, resets>>

-------------------------------------------------------------------------------

\* What a page says happened to its position: the credit page once the proof is
\* verified, the draw and the repay page by their phase and their copy.
CreditSays == IF page.phase = "verified" THEN {"opened"} ELSE {}
DrawSays == IF page.phase = "drawn" THEN {"drawn"} ELSE {}
RepaySays ==
  IF page.phase \notin {"repaid", "proving_history"} THEN {}
  ELSE {"repaid"} \cup (IF page.flow.historyProof # None THEN {"proven"} ELSE {})

Says == CreditSays \cup DrawSays \cup RepaySays

\* The operator resets the demo; no page does.
operatorReset(c) ==
  /\ \E a \in AnchorTxs : resetDemoFlow(c, a)
  /\ resets' = resets + 1
  /\ UNCHANGED <<page, unheard>>
  /\ Bounded

PageAnswered ==
  \/ \E c \in Clients : answer_ok(c) \/ answer_error(c)
  \/ lose_answer
  \/ refetched

ConsoleNext ==
  \/ Navigate \/ load \/ refresh \/ edit \/ PageAnswered
  \/ \E c \in Clients :
       \/ loadAnchor(c) \/ requestQuote(c) \/ openCreditWithProof(c)
       \/ runDraw(c) \/ runRepay(c) \/ runHistoryProof(c)
       \/ discard_answer(c) \/ operatorReset(c)
  \/ ServerStep /\ UNCHANGED consoleVars /\ Bounded

ConsoleSpec == ConsoleInit /\ [][ConsoleNext]_allVars

-------------------------------------------------------------------------------
(* What makes the pages correct.                                           *)

\* As long as requests come one by one and every answer reaches its page, what
\* a page says of the position it shows has happened on chain: after reloads,
\* navigation and fetches that arrive late as well.
PageClaimsHold ==
  (smooth /\ ~strayed /\ unheard = 0) =>
    \A p \in PositionIds \cap {page.flow.positionId} :
      /\ "opened" \in Says => phase[p] # "none"
      /\ "drawn" \in Says => phase[p] \in {"drawn", "repaid"}
      /\ "repaid" \in Says => phase[p] = "repaid"
      /\ "proven" \in Says => p \in proven
==================================================================================
