--------------------------- MODULE MCPrefundingService ---------------------------
(***************************************************************************)
(* Instances of the backend for TLC.  Requests are interchangeable: the    *)
(* clients choose what each one is in the initial state.  TLC may use that *)
(* as a symmetry where only invariants are checked; where liveness is, the *)
(* requests are numbers and the initial states are those in which they are *)
(* sorted by kind.                                                         *)
(***************************************************************************)
EXTENDS PrefundingService, TLC

Symmetry == Permutations(Requests) \cup Permutations(Callbacks)

\* What the client chose, as a number.
Kind(r) ==
  LET q == request[r]
      op == CASE q.op = "open" -> 0 [] q.op = "draw" -> 2 [] q.op = "repay" -> 4
  IN  op + (IF q.anchorTx = None THEN 0 ELSE 1)

\* The initial states with the requests sorted: every other is one of these
\* with the requests renamed.
MCInit ==
  /\ Init
  /\ \A r, s \in Requests : r < s => Kind(r) <= Kind(s)

MCFairSpec == MCInit /\ [][Next]_vars /\ Fairness
=================================================================================
