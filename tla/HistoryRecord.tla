------------------------------- MODULE HistoryRecord -------------------------------
(***************************************************************************)
(* What is on record about the repayments of each position, without what   *)
(* the record says: leaves are filed one by one up to their number, a      *)
(* position has a root only once all are filed and then takes no more, and *)
(* only what has a root is ever proven.  The registry's own model and the  *)
(* demo flow's view of it have this in common.                             *)
(***************************************************************************)
EXTENDS Integers

CONSTANTS PositionIds, LeavesPerPosition

VARIABLES
  filed,   \* how many leaves each position has
  rooted,  \* the positions with a root
  proven   \* the positions something was proved of

recordVars == <<filed, rooted, proven>>

Init ==
  /\ filed = [p \in PositionIds |-> 0]
  /\ rooted = {}
  /\ proven = {}

File(p) ==
  /\ filed[p] < LeavesPerPosition /\ p \notin rooted
  /\ filed' = [filed EXCEPT ![p] = @ + 1]
  /\ UNCHANGED <<rooted, proven>>

Root(p) ==
  /\ filed[p] = LeavesPerPosition
  /\ rooted' = rooted \cup {p}
  /\ UNCHANGED <<filed, proven>>

Prove(p) ==
  /\ p \in rooted
  /\ proven' = proven \cup {p}
  /\ UNCHANGED <<filed, rooted>>

Next == \E p \in PositionIds : File(p) \/ Root(p) \/ Prove(p)

Spec == Init /\ [][Next]_recordVars
====================================================================================
