--------------------------- MODULE CreditLineHistory ---------------------------
(***************************************************************************)
(* The credit line with one thing remembered about its past: whether an    *)
(* account was ever pledged to a second position while a first was open.   *)
(* The contracts do not prevent that (CollateralPledgedOnce), so what they *)
(* promise about collateral is stated for the behaviours without it.       *)
(***************************************************************************)
EXTENDS CreditLineProperties

VARIABLE pledgedOnce  \* history: so far every position opened on an account of its own

historyVars == <<vars, pledgedOnce>>

HistoryInit == Init /\ pledgedOnce = TRUE

HistoryNext ==
  /\ ProtocolNext
  /\ pledgedOnce' = (pledgedOnce /\ OnePledgePerAccount)

HistorySpec == HistoryInit /\ [][HistoryNext]_historyVars

\* Until the first double pledge, the account of every open position, seized ones
\* included, is frozen and still holds at least the collateral the position was
\* opened against.
SecuredWhilePledgedOnce == pledgedOnce => OpenPositionIsSecured
================================================================================
