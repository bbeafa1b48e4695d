------------------------------- MODULE WatcherProofs -------------------------------
(***************************************************************************)
(* NothingSkipped for any number of syncing processes, any lag within the  *)
(* safety lag and any page limit.                                          *)
(*                                                                         *)
(* The cursor is written by syncs that read it long ago, so the invariant  *)
(* has to say what every running sync will leave behind: the ledgers below *)
(* its start are complete already (Below), its page holds everything up to *)
(* the ledger it regards as safe (Covers), and once it has stored the page *)
(* those ledgers are complete as well (Within).                            *)
(***************************************************************************)
EXTENDS Watcher, SequenceTheorems, TLAPS

\* Every named event of the ledgers lo .. hi is in the table.
Complete(lo, hi) ==
  \A i \in DOMAIN log :
    log[i].named /\ log[i].ledger \in lo .. hi => i \in contract_events

\* No event is of a ledger that has not closed; the cursor and what a sync has
\* heard of the chain are not ahead of it either.
Bounded ==
  /\ latest >= 1
  /\ \A i \in DOMAIN log : log[i].ledger <= latest
  /\ cursor # None => cursor \in 1 .. latest
  /\ \A p \in Processes :
       /\ sync[p].step # "idle" => sync[p].latest \in 1 .. latest
       /\ sync[p].step \in {"asked", "answered", "stored"} =>
            sync[p].start \in 1 .. sync[p].latest

\* The ledgers below a sync's start are complete.
Below(p) ==
  sync[p].step \in {"asked", "answered", "stored"} /\ ~sync[p].first =>
    Complete(since, sync[p].start - 1)

\* A page holds every event from its start to the ledger regarded as safe.
Covers(p) ==
  sync[p].step = "answered" =>
    \A i \in DOMAIN log :
      log[i].ledger \in sync[p].start .. safeLatestSequence(sync[p].latest) =>
        i \in sync[p].page

\* And once the page is stored, these ledgers are complete.
Within(p) ==
  sync[p].step = "stored" =>
    Complete(sync[p].start, safeLatestSequence(sync[p].latest))

Progressing == \A p \in Processes : Below(p) /\ Covers(p) /\ Within(p)

IInv == TypeOK /\ Bounded /\ (pagesWhole => NothingMissing /\ Progressing)

-------------------------------------------------------------------------------

\* The ledger regarded as safe is one a lagging node already has.
LEMMA SafeLedger ==
  ASSUME NEW seen \in Nat, seen >= 1
  PROVE  /\ safeLatestSequence(seen) \in 1 .. seen
         /\ \A now \in Nat : now >= seen =>
              safeLatestSequence(seen) <= AtLeast1(now - NodeLag)
  BY WatcherAssumption DEF safeLatestSequence, AtLeast1

\* A sync starts at a ledger it has heard of, and right after the cursor at most.
LEMMA StartLedger ==
  ASSUME NEW seen \in Nat, seen >= 1, NEW c \in Nat \cup {None}
  PROVE  /\ startLedger(c, seen) \in 1 .. seen
         /\ c # None => startLedger(c, seen) <= c + 1 \/ startLedger(c, seen) = 1
<1>1. CASE c = None
  BY <1>1, WatcherAssumption DEF startLedger, AtLeast1
<1>2. CASE c # None
  BY <1>2, SafeLedger DEF startLedger, AtLeast1, Least
<1>. QED  BY <1>1, <1>2

\* At the start nothing is known and nothing runs.
LEMMA WatcherInit == Init => IInv
<1>. SUFFICES ASSUME Init PROVE IInv
  OBVIOUS
<1>1. TypeOK
  BY DEF Init, TypeOK, Sync, Idle, Event
<1>2. Bounded
  BY DEF Init, Bounded, Idle
<1>3. NothingMissing /\ Progressing
  BY DEF Init, NothingMissing, Progressing, Below, Covers, Within, Idle
<1>. QED  BY <1>1, <1>2, <1>3 DEF IInv

-------------------------------------------------------------------------------
(* New events are of a ledger beyond every range the invariant speaks of.  *)

LEMMA CloseKeeps ==
  ASSUME IInv, NEW names \in Seq(BOOLEAN), CloseLedger(names)
  PROVE  IInv'
<1>. DEFINE new == [i \in DOMAIN names |-> [ledger |-> latest + 1, named |-> names[i]]]
<1>1. log \in Seq(Event) /\ latest \in Nat
  BY DEF IInv, TypeOK
<1>2. names \in [1 .. Len(names) -> BOOLEAN] /\ Len(names) \in Nat
  OBVIOUS
<1>3. \A i \in 1 .. Len(names) : [ledger |-> latest + 1, named |-> names[i]] \in Event
  BY <1>1, <1>2 DEF Event
<1>4. new \in Seq(Event) /\ DOMAIN new = 1 .. Len(names) /\ Len(new) = Len(names)
  BY <1>2, <1>3
<1>5. \A i \in DOMAIN new : new[i].ledger = latest + 1
  BY <1>4
<1>6. log' = log \o new /\ latest' = latest + 1
  BY DEF CloseLedger
<1>7. UNCHANGED <<contract_events, cursor, sync, since, pagesWhole>>
  BY DEF CloseLedger, tables, history
<1>. HIDE DEF new
<1>8. /\ log' \in Seq(Event)
      /\ DOMAIN log \subseteq DOMAIN log'
      /\ \A i \in DOMAIN log' :
           \/ i \in DOMAIN log /\ log'[i] = log[i]
           \/ log'[i].ledger = latest + 1
  <2>1. Len(log) \in Nat /\ DOMAIN log = 1 .. Len(log)
    BY <1>1
  <2>2. log' \in Seq(Event) /\ Len(log') = Len(log) + Len(new)
    BY <1>1, <1>4, <1>6, ConcatProperties, Zenon
  <2>3. DOMAIN log' = 1 .. (Len(log) + Len(new))
    BY <2>2
  <2>4. \A i \in 1 .. Len(log) : log'[i] = log[i]
    BY <1>1, <1>4, <1>6
  <2>5. \A i \in DOMAIN log' : i > Len(log) => log'[i] = new[i - Len(log)]
    BY <1>1, <1>4, <1>6, <2>1, <2>3
  <2>6. \A i \in DOMAIN log' : i > Len(log) => i - Len(log) \in DOMAIN new
    BY <1>4, <2>1, <2>3
  <2>. QED  BY <1>5, <2>1, <2>2, <2>3, <2>4, <2>5, <2>6
<1>9. TypeOK'
  BY <1>6, <1>7, <1>8, <1>1 DEF IInv, TypeOK
<1>10. Bounded'
  <2>1. Bounded
    BY DEF IInv
  <2>2. latest' >= 1 /\ \A i \in DOMAIN log' : log'[i].ledger <= latest'
    <3>0. \A i \in DOMAIN log : log[i] \in Event
      BY <1>1
    <3>1. \A i \in DOMAIN log : log[i].ledger \in Nat
      BY <3>0 DEF Event
    <3>. QED  BY <1>1, <1>6, <1>8, <2>1, <3>1 DEF Bounded
  <2>3. cursor' # None => cursor' \in 1 .. latest'
    BY <1>1, <1>6, <1>7, <2>1 DEF Bounded
  <2>4. \A p \in Processes :
          /\ sync'[p].step # "idle" => sync'[p].latest \in 1 .. latest'
          /\ sync'[p].step \in {"asked", "answered", "stored"} =>
               sync'[p].start \in 1 .. sync'[p].latest
    BY <1>1, <1>6, <1>7, <2>1 DEF Bounded
  <2>. QED  BY <2>2, <2>3, <2>4 DEF Bounded
<1>11. ASSUME NEW lo \in Nat, NEW hi \in Nat, hi <= latest, Complete(lo, hi)
       PROVE  Complete(lo, hi)'
  BY <1>1, <1>7, <1>8, <1>11 DEF Complete
<1>12. ASSUME pagesWhole PROVE NothingMissing' /\ Progressing'
  <2>1. NothingMissing'
    BY <1>1, <1>7, <1>8, <1>12 DEF IInv, TypeOK, Bounded, NothingMissing
  <2>. SUFFICES ASSUME NEW p \in Processes PROVE Below(p)' /\ Covers(p)' /\ Within(p)'
    BY <2>1 DEF Progressing
  <2>2. Below(p) /\ Covers(p) /\ Within(p)
    BY <1>12 DEF IInv, Progressing
  <2>3. CASE sync[p].step \in {"asked", "answered", "stored"}
    <3>1. /\ sync[p].latest \in 1 .. latest
          /\ sync[p].start \in 1 .. sync[p].latest
          /\ since \in Nat
      BY <2>3 DEF IInv, TypeOK, Bounded
    <3>2. safeLatestSequence(sync[p].latest) \in 1 .. latest
      BY <1>1, <3>1, SafeLedger
    <3>3. Below(p)'
      <4>1. sync[p].start - 1 \in Nat /\ sync[p].start - 1 <= latest
        BY <1>1, <3>1
      <4>. QED  BY <1>7, <1>11, <2>2, <2>3, <3>1, <4>1 DEF Below
    <3>4. Covers(p)'
      BY <1>1, <1>7, <1>8, <2>2, <3>1, <3>2 DEF Covers, safeLatestSequence
    <3>5. Within(p)'
      BY <1>1, <1>7, <1>11, <2>2, <3>1, <3>2 DEF Within, safeLatestSequence
    <3>. QED  BY <3>3, <3>4, <3>5
  <2>4. CASE ~(sync[p].step \in {"asked", "answered", "stored"})
    BY <1>7, <2>4 DEF Below, Covers, Within
  <2>. QED  BY <2>3, <2>4
<1>. QED  BY <1>7, <1>9, <1>10, <1>12 DEF IInv

-------------------------------------------------------------------------------
(* A step of one sync.                                                     *)

\* What any step of process p leaves alone.
OthersUnchanged(p) ==
  /\ UNCHANGED chain
  /\ \A q \in Processes \ {p} : sync'[q] = sync[q]
  /\ contract_events \subseteq contract_events'
  /\ since' \in Nat /\ since' >= since

\* So the other syncs are still as good as they were.
LEMMA OtherSyncs ==
  ASSUME IInv, pagesWhole, NEW p \in Processes, OthersUnchanged(p),
         NEW q \in Processes \ {p}
  PROVE  Below(q)' /\ Covers(q)' /\ Within(q)'
<1>1. Below(q) /\ Covers(q) /\ Within(q)
  BY DEF IInv, Progressing
<1>2. sync'[q] = sync[q] /\ log' = log /\ latest' = latest
  BY DEF OthersUnchanged, chain
<1>3. since \in Nat /\ since' \in Nat /\ since' >= since
  BY DEF IInv, TypeOK, OthersUnchanged
<1>4. contract_events \subseteq contract_events'
  BY DEF OthersUnchanged
<1>5. \A i \in DOMAIN log : log[i].ledger \in Nat
  <2>1. \A i \in DOMAIN log : log[i] \in Event
    BY DEF IInv, TypeOK
  <2>. QED  BY <2>1 DEF Event
<1>6. Below(q)'
  <2>. SUFFICES ASSUME sync[q].step \in {"asked", "answered", "stored"}, ~sync[q].first
                PROVE  Complete(since, sync[q].start - 1)'
    BY <1>2 DEF Below
  <2>1. Complete(since, sync[q].start - 1)
    BY <1>1 DEF Below
  <2>2. sync[q].start \in Nat
    BY DEF IInv, Bounded
  <2>. QED  BY <1>2, <1>3, <1>4, <1>5, <2>1, <2>2 DEF Complete
<1>7. Covers(q)'
  BY <1>1, <1>2 DEF Covers, safeLatestSequence
<1>8. Within(q)'
  BY <1>1, <1>2, <1>4 DEF Within, Complete, safeLatestSequence
<1>. QED  BY <1>6, <1>7, <1>8

\* What is missing nowhere is missing nowhere after a step that keeps the cursor.
LEMMA CursorKept ==
  ASSUME IInv, pagesWhole, UNCHANGED <<log, cursor, since>>,
         contract_events \subseteq contract_events'
  PROVE  NothingMissing'
  BY DEF IInv, NothingMissing

\* fetchLatestLedger: the sync now knows a ledger that has closed.
LEMMA FetchLatestKeeps ==
  ASSUME IInv, NEW p \in Processes, fetch_latest(p)
  PROVE  IInv'
<1>1. PICK seen \in AtLeast1(latest - NodeLag) .. latest :
        sync' = [sync EXCEPT ![p] = [step |-> "latest", latest |-> seen]]
  BY DEF fetch_latest
<1>2. UNCHANGED <<log, latest, contract_events, cursor, since, pagesWhole>>
  BY DEF fetch_latest, chain, tables, history
<1>3. latest \in Nat /\ latest >= 1 /\ sync \in [Processes -> Sync] /\ since \in Nat
  BY DEF IInv, TypeOK, Bounded
<1>4. seen \in 1 .. latest
  BY <1>1, <1>3, WatcherAssumption DEF AtLeast1
<1>5. sync'[p] = [step |-> "latest", latest |-> seen]
  BY <1>1, <1>3
<1>6. OthersUnchanged(p)
  BY <1>1, <1>2, <1>3 DEF OthersUnchanged, chain
<1>7. TypeOK'
  <2>1. [step |-> "latest", latest |-> seen] \in Sync
    BY <1>4 DEF Sync
  <2>. QED  BY <1>1, <1>2, <1>3, <2>1 DEF IInv, TypeOK
<1>8. Bounded'
  BY <1>2, <1>4, <1>5, <1>6 DEF IInv, Bounded, OthersUnchanged
<1>9. ASSUME pagesWhole PROVE NothingMissing' /\ Progressing'
  <2>1. Below(p)' /\ Covers(p)' /\ Within(p)'
    BY <1>5 DEF Below, Covers, Within
  <2>. QED  BY <1>2, <1>6, <1>9, <2>1, OtherSyncs, CursorKept DEF Progressing
<1>. QED  BY <1>2, <1>7, <1>8, <1>9 DEF IInv

\* Reading the cursor: what lies behind it is complete, so the new start is right.
LEMMA ReadCursorKeeps ==
  ASSUME IInv, NEW p \in Processes, read_cursor(p)
  PROVE  IInv'
<1>. PICK seen : seen = sync[p].latest
  OBVIOUS
<1>. PICK start : start = startLedger(cursor, seen)
  OBVIOUS
<1>. PICK asked :
       asked = [step |-> "asked", latest |-> seen, start |-> start, first |-> cursor = None]
  OBVIOUS
<1>1. sync[p].step = "latest" /\ sync' = [sync EXCEPT ![p] = asked]
  BY DEF read_cursor
<1>2. UNCHANGED <<log, latest, contract_events, cursor, since, pagesWhole>>
  BY DEF read_cursor, chain, tables, history
<1>3. /\ latest \in Nat /\ latest >= 1 /\ sync \in [Processes -> Sync] /\ since \in Nat
      /\ cursor \in Nat \cup {None}
  BY DEF IInv, TypeOK, Bounded
<1>4. seen \in 1 .. latest
  BY <1>1 DEF IInv, Bounded
<1>5. sync'[p] = asked
  BY <1>1, <1>3
<1>6. OthersUnchanged(p)
  BY <1>1, <1>2, <1>3 DEF OthersUnchanged, chain
<1>7. start \in 1 .. seen /\ (cursor # None => start <= cursor + 1 \/ start = 1)
  <2>1. seen \in Nat /\ seen >= 1
    BY <1>3, <1>4
  <2>. QED  BY <1>3, <2>1, StartLedger
<1>8. TypeOK'
  <2>1. asked \in Sync
    BY <1>4, <1>7 DEF Sync
  <2>. QED  BY <1>1, <1>2, <1>3, <2>1 DEF IInv, TypeOK
<1>9. Bounded'
  BY <1>2, <1>4, <1>5, <1>6, <1>7 DEF IInv, Bounded, OthersUnchanged
<1>10. ASSUME pagesWhole PROVE NothingMissing' /\ Progressing'
  <2>1. Covers(p)' /\ Within(p)'
    BY <1>5 DEF Covers, Within
  <2>2. Below(p)'
    <3>a. asked.first = (cursor = None) /\ asked.start = start
      BY Zenon
    <3>b. sync'[p].first = (cursor = None) /\ sync'[p].start = start
      BY <1>5, <3>a, Zenon
    <3>. SUFFICES ASSUME cursor # None
                  PROVE  Complete(since, start - 1)'
      BY <3>b, Zenon DEF Below
    <3>1. Complete(since, cursor)
      BY <1>10 DEF IInv, NothingMissing, Complete
    <3>2. \A i \in DOMAIN log : log[i].ledger \in Nat
      <4>1. \A i \in DOMAIN log : log[i] \in Event
        BY DEF IInv, TypeOK
      <4>. QED  BY <4>1 DEF Event
    <3>3. cursor \in 1 .. latest
      BY DEF IInv, Bounded
    <3>4. start - 1 <= cursor /\ start \in Nat
      BY <1>3, <1>4, <1>7, <3>3
    <3>. QED  BY <1>2, <1>3, <3>1, <3>2, <3>3, <3>4 DEF Complete
  <2>. QED  BY <1>2, <1>6, <1>10, <2>1, <2>2, OtherSyncs, CursorKept DEF Progressing
<1>. QED  BY <1>2, <1>8, <1>9, <1>10 DEF IInv

\* The answer to getEvents: unless it is cut off, it has all up to the safe ledger.
LEMMA GetEventsKeeps ==
  ASSUME IInv, NEW p \in Processes, get_events(p)
  PROVE  IInv'
<1>1. PICK view \in AtLeast1(latest - NodeLag) .. latest :
        LET events == Matching(sync[p].start, view) IN
        /\ sync' = [sync EXCEPT ![p] =
             [step |-> "answered", latest |-> @.latest, start |-> @.start,
              first |-> @.first, page |-> Page(events)]]
        /\ pagesWhole' = (pagesWhole /\ Page(events) = events)
  BY DEF get_events
<1>. PICK events : events = Matching(sync[p].start, view)
  OBVIOUS
<1>. PICK old : old = sync[p]
  OBVIOUS
<1>. PICK answered :
       answered = [step |-> "answered", latest |-> old.latest, start |-> old.start,
                   first |-> old.first, page |-> Page(events)]
  OBVIOUS
<1>2. /\ sync' = [sync EXCEPT ![p] = answered]
      /\ pagesWhole' = (pagesWhole /\ Page(events) = events)
  BY <1>1
<1>3. UNCHANGED <<log, latest, contract_events, cursor, since>>
  BY DEF get_events, chain, tables
<1>4. /\ latest \in Nat /\ latest >= 1 /\ sync \in [Processes -> Sync] /\ since \in Nat
      /\ log \in Seq(Event)
  BY DEF IInv, TypeOK, Bounded
<1>5. /\ old.step = "asked" /\ old \in Sync
      /\ old.latest \in 1 .. latest /\ old.start \in 1 .. old.latest
  BY <1>4 DEF get_events, IInv, Bounded
<1>6. sync'[p] = answered
  BY <1>2, <1>4
<1>7. OthersUnchanged(p)
  BY <1>2, <1>3, <1>4 DEF OthersUnchanged, chain
<1>8. TypeOK'
  <2>1. Page(events) \in SUBSET Nat
    BY <1>4 DEF Page, Matching
  <2>2. old \in [step : {"asked"}, latest : Nat, start : Nat, first : BOOLEAN]
    BY <1>5 DEF Sync, Idle
  <2>3. old.first \in BOOLEAN
    BY <2>2, Zenon
  <2>4. answered \in [step : {"answered", "stored"}, latest : Nat, start : Nat,
                      first : BOOLEAN, page : SUBSET Nat]
    BY <1>5, <2>1, <2>2, <2>3
  <2>5. answered \in Sync
    BY <2>4 DEF Sync
  <2>6. pagesWhole' \in BOOLEAN
    BY <1>2, Zenon
  <2>7. sync' \in [Processes -> Sync]
    BY <1>2, <1>4, <2>5
  <2>. QED  BY <1>3, <2>6, <2>7 DEF IInv, TypeOK
<1>9. Bounded'
  BY <1>3, <1>5, <1>6, <1>7 DEF IInv, Bounded, OthersUnchanged
<1>10. ASSUME pagesWhole' PROVE NothingMissing' /\ Progressing'
  <2>1. pagesWhole /\ Page(events) = events
    BY <1>2, <1>10
  <2>2. Below(p)'
    <3>1. Below(p) /\ answered.first = old.first /\ answered.start = old.start
      BY <2>1 DEF IInv, Progressing
    <3>2. sync'[p].first = old.first /\ sync'[p].start = old.start
      BY <1>6, <3>1, Zenon
    <3>. QED  BY <1>3, <1>5, <3>1, <3>2 DEF Below, Complete
  <2>3. Covers(p)'
    <3>1. view >= safeLatestSequence(old.latest)
      <4>1. safeLatestSequence(old.latest) <= AtLeast1(latest - NodeLag)
        BY <1>4, <1>5, SafeLedger
      <4>2. safeLatestSequence(old.latest) \in 1 .. old.latest
        BY <1>5, SafeLedger
      <4>3. AtLeast1(latest - NodeLag) \in Int
        BY <1>4, WatcherAssumption DEF AtLeast1
      <4>. QED  BY <4>1, <4>2, <4>3, <1>4, <1>5
    <3>2. \A i \in DOMAIN log : log[i].ledger \in old.start .. view => i \in events
      BY DEF Matching
    <3>3. /\ sync'[p].latest = old.latest /\ sync'[p].start = old.start
          /\ sync'[p].page = events
      BY <1>6, <2>1
    <3>4. safeLatestSequence(old.latest) \in Int
      BY <1>5, SafeLedger
    <3>. QED  BY <1>3, <1>4, <1>5, <3>1, <3>2, <3>3, <3>4 DEF Covers, safeLatestSequence
  <2>4. Within(p)'
    BY <1>6 DEF Within
  <2>. QED  BY <1>3, <1>7, <2>1, <2>2, <2>3, <2>4, OtherSyncs, CursorKept DEF Progressing
<1>. QED  BY <1>3, <1>8, <1>9, <1>10 DEF IInv

\* Storing the page completes the ledgers it covers.
LEMMA InsertKeeps ==
  ASSUME IInv, NEW p \in Processes, insert_events(p)
  PROVE  IInv'
<1>. PICK old : old = sync[p]
  OBVIOUS
<1>1. /\ old.step = "answered"
      /\ contract_events' = contract_events \cup {i \in old.page : log[i].named}
      /\ sync' = [sync EXCEPT ![p].step = "stored"]
  BY DEF insert_events
<1>2. UNCHANGED <<log, latest, cursor, since, pagesWhole>>
  BY DEF insert_events, chain, history
<1>3. /\ latest \in Nat /\ sync \in [Processes -> Sync] /\ since \in Nat
      /\ contract_events \subseteq Nat
  BY DEF IInv, TypeOK
<1>4. old \in [step : {"answered", "stored"}, latest : Nat, start : Nat,
               first : BOOLEAN, page : SUBSET Nat]
  BY <1>1, <1>3 DEF Sync, Idle
<1>5. /\ sync'[p].step = "stored" /\ sync'[p].latest = old.latest
      /\ sync'[p].start = old.start /\ sync'[p].first = old.first
  <2>1. sync'[p] = [old EXCEPT !.step = "stored"]
    BY <1>1, <1>3
  <2>. QED  BY <1>4, <2>1, Zenon
<1>6. old.latest \in 1 .. latest /\ old.start \in 1 .. old.latest
  BY <1>1 DEF IInv, Bounded
<1>7. OthersUnchanged(p)
  BY <1>1, <1>2, <1>3 DEF OthersUnchanged, chain
<1>8. TypeOK'
  <2>1. [old EXCEPT !.step = "stored"]
          \in [step : {"answered", "stored"}, latest : Nat, start : Nat,
               first : BOOLEAN, page : SUBSET Nat]
    BY <1>4
  <2>2. [old EXCEPT !.step = "stored"] \in Sync
    BY <2>1, Zenon DEF Sync
  <2>3. sync' \in [Processes -> Sync]
    BY <1>1, <1>3, <2>2
  <2>4. contract_events' \subseteq Nat
    BY <1>1, <1>3, <1>4
  <2>. QED  BY <1>2, <2>3, <2>4 DEF IInv, TypeOK
<1>9. Bounded'
  BY <1>2, <1>5, <1>6, <1>7 DEF IInv, Bounded, OthersUnchanged
<1>10. ASSUME pagesWhole PROVE NothingMissing' /\ Progressing'
  <2>1. Below(p) /\ Covers(p)
    BY <1>10 DEF IInv, Progressing
  <2>2. Below(p)'
    BY <1>1, <1>2, <1>5, <2>1 DEF Below, Complete
  <2>3. Covers(p)'
    BY <1>5 DEF Covers
  <2>4. Within(p)'
    BY <1>1, <1>2, <1>5, <2>1 DEF Covers, Within, Complete, safeLatestSequence
  <2>5. contract_events \subseteq contract_events'
    BY <1>1
  <2>. QED  BY <1>2, <1>7, <1>10, <2>2, <2>3, <2>4, <2>5, OtherSyncs, CursorKept DEF Progressing
<1>. QED  BY <1>2, <1>8, <1>9, <1>10 DEF IInv

\* Moving the cursor: below it lie the ledgers the sync found complete and those
\* its page completed.  A first sync vouches for its own page only.
LEMMA UpsertKeeps ==
  ASSUME IInv, NEW p \in Processes, upsert_cursor(p)
  PROVE  IInv'
<1>. PICK old : old = sync[p]
  OBVIOUS
<1>. PICK safe : safe = safeLatestSequence(old.latest)
  OBVIOUS
<1>1. /\ old.step = "stored"
      /\ cursor' = safe
      /\ since' = IF old.first THEN Most(since, old.start) ELSE since
      /\ sync' = [sync EXCEPT ![p] = Idle]
  BY DEF upsert_cursor
<1>2. UNCHANGED <<log, latest, contract_events, pagesWhole>>
  BY DEF upsert_cursor, chain
<1>3. /\ latest \in Nat /\ sync \in [Processes -> Sync] /\ since \in Nat
      /\ log \in Seq(Event)
  BY DEF IInv, TypeOK
<1>4. old.latest \in 1 .. latest /\ old.start \in 1 .. old.latest
  BY <1>1 DEF IInv, Bounded
<1>5. safe \in 1 .. latest
  BY <1>3, <1>4, SafeLedger
<1>6. since' \in Nat /\ since' >= since
  BY <1>1, <1>3, <1>4 DEF Most
<1>7. sync'[p] = Idle
  BY <1>1, <1>3
<1>8. OthersUnchanged(p)
  BY <1>1, <1>2, <1>3, <1>6 DEF OthersUnchanged, chain
<1>9. TypeOK'
  <2>1. sync' \in [Processes -> Sync]
    BY <1>1, <1>3 DEF Sync
  <2>. QED  BY <1>1, <1>2, <1>3, <1>5, <1>6, <2>1 DEF IInv, TypeOK
<1>10. Bounded'
  BY <1>1, <1>2, <1>5, <1>7, <1>8 DEF IInv, Bounded, OthersUnchanged, Idle
<1>11. ASSUME pagesWhole PROVE NothingMissing' /\ Progressing'
  <2>1. Below(p) /\ Within(p)
    BY <1>11 DEF IInv, Progressing
  <2>2. Complete(old.start, safe)
    BY <1>1, <2>1 DEF Within
  <2>3. ~old.first => Complete(since, old.start - 1)
    BY <1>1, <2>1 DEF Below
  <2>4. \A i \in DOMAIN log : log[i].ledger \in Nat
    <3>1. \A i \in DOMAIN log : log[i] \in Event
      BY <1>3
    <3>. QED  BY <3>1 DEF Event
  <2>5. Complete(since', safe)
    <3>1. CASE old.first
      BY <1>1, <1>3, <1>4, <1>5, <2>2, <2>4, <3>1 DEF Complete, Most
    <3>2. CASE ~old.first
      BY <1>1, <1>3, <1>4, <1>5, <2>2, <2>3, <2>4, <3>2 DEF Complete
    <3>. QED  BY <3>1, <3>2
  <2>6. NothingMissing'
    BY <1>1, <1>2, <2>5 DEF NothingMissing, Complete
  <2>7. Below(p)' /\ Covers(p)' /\ Within(p)'
    BY <1>7 DEF Below, Covers, Within, Idle
  <2>. QED  BY <1>8, <1>11, <2>6, <2>7, OtherSyncs DEF Progressing
<1>. QED  BY <1>2, <1>9, <1>10, <1>11 DEF IInv

\* A sync that ends without moving the cursor leaves at most more events stored.
LEMMA EndKeeps ==
  ASSUME IInv, NEW p \in Processes,
         sync' = [sync EXCEPT ![p] = Idle],
         contract_events \subseteq contract_events', contract_events' \subseteq Nat,
         UNCHANGED <<log, latest, cursor, since, pagesWhole>>
  PROVE  IInv'
<1>1. sync \in [Processes -> Sync] /\ since \in Nat
  BY DEF IInv, TypeOK
<1>2. sync'[p] = Idle
  BY <1>1
<1>3. OthersUnchanged(p)
  BY <1>1 DEF OthersUnchanged, chain
<1>4. TypeOK'
  BY <1>1 DEF IInv, TypeOK, Sync
<1>5. Bounded'
  BY <1>2, <1>3 DEF IInv, Bounded, OthersUnchanged, Idle
<1>6. ASSUME pagesWhole PROVE NothingMissing' /\ Progressing'
  <2>1. Below(p)' /\ Covers(p)' /\ Within(p)'
    BY <1>2 DEF Below, Covers, Within, Idle
  <2>. QED  BY <1>3, <1>6, <2>1, OtherSyncs, CursorKept DEF Progressing
<1>. QED  BY <1>4, <1>5, <1>6 DEF IInv

\* A call that throws, or a crash before or after the inserts.
LEMMA AbandonKeeps ==
  ASSUME IInv, NEW p \in Processes, abandon(p)
  PROVE  IInv'
<1>1. contract_events \subseteq Nat
  BY DEF IInv, TypeOK
<1>. QED  BY <1>1, EndKeeps DEF abandon, chain, tables, history

\* A crash amid the inserts.
LEMMA CrashKeeps ==
  ASSUME IInv, NEW p \in Processes, crash_while_storing(p)
  PROVE  IInv'
<1>1. /\ sync \in [Processes -> Sync] /\ sync[p].step = "answered"
      /\ contract_events \subseteq Nat
  BY DEF IInv, TypeOK, crash_while_storing
<1>2. sync[p] \in [step : {"answered", "stored"}, latest : Nat, start : Nat,
                   first : BOOLEAN, page : SUBSET Nat]
  BY <1>1 DEF Sync, Idle
<1>3. sync[p].page \subseteq Nat
  BY <1>2
<1>. QED  BY <1>1, <1>3, EndKeeps DEF crash_while_storing, chain, history

\* Every step of chain and processes preserves the invariant.
LEMMA WatcherStep == IInv /\ [Next]_vars => IInv'
<1>. SUFFICES ASSUME IInv, [Next]_vars PROVE IInv'
  OBVIOUS
<1>1. CASE UNCHANGED vars
  BY <1>1 DEF vars, IInv, TypeOK, Bounded, NothingMissing, Progressing,
              Below, Covers, Within, Complete, safeLatestSequence
<1>2. CASE \E names \in Seq(BOOLEAN) : CloseLedger(names)
  BY <1>2, CloseKeeps
<1>3. ASSUME NEW p \in Processes,
             SyncStep(p) \/ abandon(p) \/ crash_while_storing(p)
      PROVE  IInv'
  BY <1>3, FetchLatestKeeps, ReadCursorKeeps, GetEventsKeeps, InsertKeeps,
     UpsertKeeps, AbandonKeeps, CrashKeeps DEF SyncStep
<1>. QED  BY <1>1, <1>2, <1>3 DEF Next

\* As long as no answer was cut off at the page limit, every named event of a
\* ledger behind the cursor is in the table, whatever syncs overlap, throw or
\* die, and however the nodes lag within the safety lag (watcher.ts:67-108).
THEOREM WatcherSkipsNothing == Spec => []NothingSkipped
<1>1. IInv => NothingSkipped
  BY DEF IInv, NothingSkipped
<1>. QED  BY <1>1, WatcherInit, WatcherStep, PTL DEF Spec
=================================================================================
