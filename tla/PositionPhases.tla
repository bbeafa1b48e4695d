------------------------------ MODULE PositionPhases ------------------------------
(***************************************************************************)
(* The phases of a position on chain and nothing else: what the models of  *)
(* the contracts, of the backend's transactions and of the demo flow have  *)
(* in common.  CreditLifecycle says more of a position, and only the       *)
(* contracts can keep it; this much is what everything off chain relies    *)
(* on: a position opens once, is drawn once at most, and ends once, repaid *)
(* or seized.                                                              *)
(***************************************************************************)

CONSTANT PositionIds

VARIABLE phase   \* where each position is in its life

Outstanding(p) == phase[p] \in {"opened", "drawn"}

Turns(p, next) == phase' = [phase EXCEPT ![p] = next]

Init == phase = [p \in PositionIds |-> "none"]

Open(p)  == phase[p] = "none" /\ Turns(p, "opened")
Draw(p)  == phase[p] = "opened" /\ Turns(p, "drawn")
Repay(p) == Outstanding(p) /\ Turns(p, "repaid")
Seize(p) == Outstanding(p) /\ Turns(p, "seized")

Next == \E p \in PositionIds : Open(p) \/ Draw(p) \/ Repay(p) \/ Seize(p)

Spec == Init /\ [][Next]_phase
===================================================================================
