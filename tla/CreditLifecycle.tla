----------------------------- MODULE CreditLifecycle -----------------------------
(***************************************************************************)
(* What the credit line promises about each position, whoever calls it and *)
(* whatever happens to the collateral: it is opened once, paid out at most *)
(* once, and ends repaid or seized, never both, and seized only after its  *)
(* due ledger.  The due ledger is fixed when the position opens.           *)
(***************************************************************************)
EXTENDS Integers

CONSTANT PositionIds

VARIABLES
  now,     \* the ledger sequence
  phase,   \* where each position is in its life
  due,     \* the due ledger fixed at opening, 0 before
  paidOut, \* what the facility paid for each position
  paidBack \* what came back for each position

lifecycleVars == <<now, phase, due, paidOut, paidBack>>

Outstanding(p) == phase[p] \in {"opened", "drawn"}

LInit ==
  /\ now \in Nat
  /\ phase = [p \in PositionIds |-> "none"]
  /\ due = [p \in PositionIds |-> 0]
  /\ paidOut = [p \in PositionIds |-> 0]
  /\ paidBack = [p \in PositionIds |-> 0]

Open(p) ==
  /\ phase[p] = "none"
  /\ phase' = [phase EXCEPT ![p] = "opened"]
  /\ due' = [due EXCEPT ![p] = due'[p]]
  /\ due'[p] > now
  /\ UNCHANGED <<now, paidOut, paidBack>>

Draw(p) ==
  /\ phase[p] = "opened"
  /\ phase' = [phase EXCEPT ![p] = "drawn"]
  /\ paidOut' = [paidOut EXCEPT ![p] = paidOut'[p]]
  /\ UNCHANGED <<now, due, paidBack>>

Repay(p) ==
  /\ Outstanding(p)
  /\ phase' = [phase EXCEPT ![p] = "repaid"]
  /\ paidBack' = [paidBack EXCEPT ![p] = paidBack'[p]]
  /\ UNCHANGED <<now, due, paidOut>>

Seize(p) ==
  /\ Outstanding(p)
  /\ now > due[p]
  /\ phase' = [phase EXCEPT ![p] = "seized"]
  /\ UNCHANGED <<now, due, paidOut, paidBack>>

Tick ==
  /\ now' > now
  /\ UNCHANGED <<phase, due, paidOut, paidBack>>

LNext ==
  \/ \E p \in PositionIds : Open(p) \/ Draw(p) \/ Repay(p) \/ Seize(p)
  \/ Tick

LSpec == LInit /\ [][LNext]_lifecycleVars
===================================================================================
