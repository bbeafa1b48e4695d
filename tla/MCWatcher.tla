-------------------------------- MODULE MCWatcher --------------------------------
(***************************************************************************)
(* Instances of the watcher for TLC: ledgers close with at most one burst  *)
(* of MaxBurst events, up to MaxLedger ledgers and MaxEvents events.       *)
(***************************************************************************)
EXTENDS Watcher

CONSTANTS MaxLedger, MaxBurst, MaxEvents, worker

Bursts == UNION {[1 .. n -> BOOLEAN] : n \in 0 .. MaxBurst}

MCCloseLedger ==
  /\ latest < MaxLedger
  /\ \E names \in Bursts :
       Len(log) + Len(names) <= MaxEvents /\ CloseLedger(names)

MCNext ==
  \/ MCCloseLedger
  \/ \E p \in Processes : SyncStep(p) \/ abandon(p) \/ crash_while_storing(p)

MCSpec == Init /\ [][MCNext]_vars

-------------------------------------------------------------------------------
(* Liveness.  The worker's loop runs a sync again and again (worker.ts      *)
(* reschedules itself in a finally block), and the RPC endpoint does not    *)
(* fail for ever: getEvents is answered infinitely often when it is asked   *)
(* infinitely often, and so are the steps that follow it.                   *)

Fairness ==
  /\ WF_vars(fetch_latest(worker))
  /\ SF_vars(read_cursor(worker))
  /\ SF_vars(get_events(worker))
  /\ SF_vars(insert_events(worker))
  /\ SF_vars(upsert_cursor(worker))

FairSpec == MCSpec /\ Fairness

\* The named events of ledgers the watcher regards as safe, from where it started.
Due(i) ==
  /\ i \in DOMAIN log
  /\ log[i].named
  /\ cursor # None
  /\ log[i].ledger \in since .. latest - LEDGER_SAFETY_LAG

\* Every event becomes known: it is stored in the end, unless a later first
\* sync declares it too old, or a page was cut.
EventuallyStored ==
  \A i \in 1 .. MaxEvents :
    Due(i) ~> (i \in contract_events \/ ~Due(i) \/ ~pagesWhole)
=================================================================================
