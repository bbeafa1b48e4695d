-------------------------------- MODULE FlowView --------------------------------
(***************************************************************************)
(* The demo flow as who reads it sees it: the snapshot's position, the     *)
(* history it shows as verified, and what was verified on chain.  DemoFlow *)
(* implements this, and Disclosure assumes no more of the flow.            *)
(***************************************************************************)

CONSTANTS PositionIds, None

VARIABLES
  shown,   \* of the snapshot: its position, and whose history it shows
  proven,  \* on chain: the positions with a verified history
  strayed  \* history: a request named another position than the snapshot

viewVars == <<shown, proven, strayed>>

Shown == [positionId : PositionIds \cup {None}, historyProof : PositionIds \cup {None}]

Blank == [positionId |-> None, historyProof |-> None]

Init == shown = Blank /\ proven = {} /\ strayed = FALSE

\* What may be shown: a history that was verified; once a request went astray, it
\* may be another position's.
Showable(s) ==
  /\ s.historyProof \in proven \cup {None}
  /\ strayed \/ s.historyProof \in {None, s.positionId}

Verify == \E p \in PositionIds : proven' = proven \cup {p} /\ UNCHANGED <<shown, strayed>>

Show == \E s \in Shown : Showable(s) /\ shown' = s /\ UNCHANGED <<proven, strayed>>

Stray == strayed' = TRUE /\ UNCHANGED <<shown, proven>>

Next == Verify \/ Show \/ Stray

Spec == Init /\ [][Next]_viewVars
=================================================================================
