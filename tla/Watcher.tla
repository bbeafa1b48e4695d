--------------------------------- MODULE Watcher ---------------------------------
(***************************************************************************)
(* The contract-event watcher (backend/src/services/watcher.ts) and the    *)
(* two tables it keeps in SQLite.                                          *)
(*                                                                         *)
(* syncWatcherOnce is run by the worker process every few seconds and by   *)
(* POST /api/watcher/sync in the API process, so two syncs may overlap.    *)
(* Between its two RPC calls it reads the cursor; after the second one it  *)
(* stores what the call returned and moves the cursor, whatever another    *)
(* sync did meanwhile.  The RPC endpoint is a set of nodes that may lag    *)
(* behind the chain by up to NodeLag ledgers.                              *)
(***************************************************************************)
EXTENDS Integers, Sequences, FiniteSets

CONSTANTS
  Processes,          \* processes that sync: the worker and the API
  LEDGER_SAFETY_LAG,  \* 5 in the code
  FirstLookback,      \* 100 in the code: how far back a first sync starts
  PageLimit,          \* 100 in the code: events one getEvents call returns
  NodeLag,            \* how many ledgers an RPC node may be behind
  None

ASSUME WatcherAssumption ==
  /\ LEDGER_SAFETY_LAG \in Nat /\ FirstLookback \in Nat /\ PageLimit \in Nat
  /\ NodeLag \in 0 .. LEDGER_SAFETY_LAG
  /\ None \notin Nat

VARIABLES
  log,              \* the events of the tracked contracts, oldest first
  latest,           \* the chain's latest closed ledger
  contract_events,  \* table contract_events: indices into log
  cursor,           \* the row of table watcher_state, None before the first sync
  sync,             \* what each process holds of the sync it is running
  since,            \* history: where the last first sync started
  pagesWhole        \* history: no answer was ever cut off at PageLimit

vars == <<log, latest, contract_events, cursor, sync, since, pagesWhole>>
chain == <<log, latest>>
tables == <<contract_events, cursor>>
history == <<since, pagesWhole>>

\* An event of a tracked contract; `named` says it is in EVENT_NAMES.
Event == [ledger : Nat, named : BOOLEAN]

Idle == [step |-> "idle"]
Sync ==
       {Idle}
  \cup [step : {"latest"}, latest : Nat]
  \cup [step : {"asked"}, latest : Nat, start : Nat, first : BOOLEAN]
  \cup [step : {"answered", "stored"}, latest : Nat, start : Nat, first : BOOLEAN,
        page : SUBSET Nat]

AtLeast1(n) == IF n > 1 THEN n ELSE 1
Least(a, b) == IF a <= b THEN a ELSE b
Most(a, b)  == IF a >= b THEN a ELSE b

\* Variant with a plausible bug: the safety lag is forgotten.
mut_no_safety_lag(seen) == AtLeast1(seen)

safeLatestSequence(seen) == AtLeast1(seen - LEDGER_SAFETY_LAG)

startLedger(c, seen) ==
  IF c = None THEN AtLeast1(seen - FirstLookback)
              ELSE AtLeast1(Least(c + 1, safeLatestSequence(seen)))

TypeOK ==
  /\ log \in Seq(Event)
  /\ latest \in Nat
  /\ contract_events \subseteq Nat
  /\ cursor \in Nat \cup {None}
  /\ sync \in [Processes -> Sync]
  /\ since \in Nat
  /\ pagesWhole \in BOOLEAN

Init ==
  /\ log = <<>>
  /\ latest = 1
  /\ contract_events = {}
  /\ cursor = None
  /\ sync = [p \in Processes |-> Idle]
  /\ since = 0
  /\ pagesWhole = TRUE

-------------------------------------------------------------------------------
(* The chain: a ledger closes with the events of its transactions.         *)

CloseLedger(names) ==
  /\ latest' = latest + 1
  /\ log' = log \o [i \in DOMAIN names |-> [ledger |-> latest + 1, named |-> names[i]]]
  /\ UNCHANGED <<tables, sync, history>>

-------------------------------------------------------------------------------
(* One sync, step by step.                                                 *)

\* fetchLatestLedger() is answered by some node.
fetch_latest(p) ==
  /\ sync[p].step = "idle"
  /\ \E seen \in AtLeast1(latest - NodeLag) .. latest :
       sync' = [sync EXCEPT ![p] = [step |-> "latest", latest |-> seen]]
  /\ UNCHANGED <<chain, tables, history>>

\* The cursor is read and getEvents is sent, in one run of the event loop.
read_cursor(p) ==
  /\ sync[p].step = "latest"
  /\ sync' = [sync EXCEPT ![p] =
       [step |-> "asked", latest |-> @.latest,
        start |-> startLedger(cursor, @.latest), first |-> cursor = None]]
  /\ UNCHANGED <<chain, tables, history>>

\* The events from ledger `start` on that a node at ledger `view` has.
Matching(start, view) == {i \in DOMAIN log : log[i].ledger \in start .. view}

\* The oldest PageLimit of them.
Page(events) == {i \in events : Cardinality({j \in events : j <= i}) <= PageLimit}

\* getEvents is answered by some node, not always the one that was asked first.
get_events(p) ==
  /\ sync[p].step = "asked"
  /\ \E view \in AtLeast1(latest - NodeLag) .. latest :
       LET events == Matching(sync[p].start, view) IN
       /\ sync' = [sync EXCEPT ![p] =
            [step |-> "answered", latest |-> @.latest, start |-> @.start,
             first |-> @.first, page |-> Page(events)]]
       /\ pagesWhole' = (pagesWhole /\ Page(events) = events)
  /\ UNCHANGED <<chain, tables, since>>

\* Variant with a plausible bug: the last event of the page is left out.
mut_insert_drops_last(p) ==
  /\ sync[p].step = "answered"
  /\ contract_events' = contract_events \cup
       {i \in sync[p].page : log[i].named /\ \E j \in sync[p].page : j > i}
  /\ sync' = [sync EXCEPT ![p].step = "stored"]
  /\ UNCHANGED <<chain, cursor, history>>

\* Every event of the page with a known name is stored, unless it already is.
insert_events(p) ==
  /\ sync[p].step = "answered"
  /\ contract_events' = contract_events \cup {i \in sync[p].page : log[i].named}
  /\ sync' = [sync EXCEPT ![p].step = "stored"]
  /\ UNCHANGED <<chain, cursor, history>>

\* Then the cursor is set to the ledger this sync regards as safe.
upsert_cursor(p) ==
  /\ sync[p].step = "stored"
  /\ cursor' = safeLatestSequence(sync[p].latest)
  /\ since' = IF sync[p].first THEN Most(since, sync[p].start) ELSE since
  /\ sync' = [sync EXCEPT ![p] = Idle]
  /\ UNCHANGED <<chain, contract_events, pagesWhole>>

\* An RPC call throws, or the process dies: the sync is gone.
abandon(p) ==
  /\ sync[p].step # "idle"
  /\ sync' = [sync EXCEPT ![p] = Idle]
  /\ UNCHANGED <<chain, tables, history>>

\* The process dies half-way through the inserts.
crash_while_storing(p) ==
  /\ sync[p].step = "answered"
  /\ \E last \in sync[p].page :
       contract_events' = contract_events
         \cup {i \in sync[p].page : i <= last /\ log[i].named}
  /\ sync' = [sync EXCEPT ![p] = Idle]
  /\ UNCHANGED <<chain, cursor, history>>

SyncStep(p) ==
  \/ fetch_latest(p)
  \/ read_cursor(p)
  \/ get_events(p)
  \/ insert_events(p)
  \/ upsert_cursor(p)

Next ==
  \/ \E names \in Seq(BOOLEAN) : CloseLedger(names)
  \/ \E p \in Processes : SyncStep(p) \/ abandon(p) \/ crash_while_storing(p)

Spec == Init /\ [][Next]_vars

-------------------------------------------------------------------------------
(* What makes the watcher correct.                                         *)

\* Behind the cursor nothing is missing: every named event of a ledger up to
\* the cursor (and not older than the first sync's start) is in the table.
\* The next sync starts after the cursor, so a gap behind it is never filled.
NothingMissing ==
  cursor # None =>
    \A i \in DOMAIN log :
      log[i].named /\ log[i].ledger \in since .. cursor => i \in contract_events

\* As long as no answer was cut off at PageLimit, nothing is missing behind the
\* cursor, although syncs overlap, die half-way and set the cursor back, and
\* although the RPC nodes lag.
NothingSkipped == pagesWhole => NothingMissing
=================================================================================
