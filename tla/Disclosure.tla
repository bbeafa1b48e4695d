------------------------------ MODULE Disclosure -------------------------------
(***************************************************************************)
(* Selective disclosure: the observer page makes a link to a scoped fact,  *)
(* the service seals it in a bundle and grants it on chain, a viewer opens *)
(* the link, and the grant is revoked or expires (disclosure.ts,           *)
(* disclosure-grant-registry, demo-state.ts, observer/page.tsx,            *)
(* disclosure/[grantId]/page.tsx), beside the auditor's view.              *)
(*                                                                         *)
(* A bundle's row is written before its grant is sent, and marked revoked  *)
(* after the revocation was sent, whatever became of it.  The link expires *)
(* a number of ledgers after the ledger the page was told when it was      *)
(* loaded.  The demo flow is abstracted to FlowView, which it implements:  *)
(* a history it shows was verified, and is the position's it shows unless  *)
(* a request went astray.                                                  *)
(***************************************************************************)
EXTENDS Auditing

CONSTANTS
  Positions,
  Grants,      \* random grant ids
  Lifetime,    \* ledgers a link is made for (100_000)
  Fallback,    \* the ledger assumed by a page that knows none (1_000_000)
  MaxLedger,   \* bound: the last ledger
  MaxMishaps,  \* bound: crashes, transactions that failed or were given up on
  None

ASSUME DisclosureAssumption ==
  /\ Lifetime \in Nat /\ Fallback \in Nat /\ MaxLedger \in Nat \ {0} /\ MaxMishaps \in Nat
  /\ None \notin Positions /\ None \notin Nat

VARIABLES
  ledger,     \* the current ledger
  proven,     \* on chain: the positions with a verified history
  registry,   \* on chain: DisclosureGrantRegistry
  flow,       \* the demo flow's snapshot
  strayed,    \* history: a request to the flow named another position than it
  goodState,  \* the demo state kept as last known good: its ledger, None without
  bundles,    \* table disclosure_bundles
  queue,      \* grant calls of the service; the first is at work
  late,       \* calls given up on that may still be included
  observer,   \* the observer page
  links,      \* the links their makers have
  viewer,     \* the disclosure page a viewer has open
  disturbed,  \* history: grants of which a call failed or was given up on
  withdrawn,  \* history: grants whose revocation was answered
  mishaps     \* bound: mishaps so far

disclosureVars == <<ledger, proven, registry, flow, strayed, goodState, bundles, queue, late,
                    observer, links, viewer, disturbed, withdrawn, mishaps>>
vars == <<auditingVars, disclosureVars>>

View == INSTANCE FlowView WITH PositionIds <- Positions, shown <- flow

\* Whose history is shown as verified, None if none is.
FlowState == [positionId : Positions \cup {None}, historyProof : Positions \cup {None}]
Grant == [expires_at_ledger : Nat, revoked : BOOLEAN]

\* History: `told` is the ledger that the page which made it had been told, None if
\* it was told none or another client made it; `claims` is the position whose
\* history it says is verified, None if a client says other things.
Bundle ==
  [claims : Positions \cup {None}, told : Nat \cup {None}, expiresAtLedger : Nat,
   onChainTx : BOOLEAN, revoked : BOOLEAN]

ASSUME NoneIsNoRow == None \notin Bundle \cup Grant

Call == [call : {"create_grant", "revoke_grant"}, grantId : Grants,
         at : {"waiting", "succeeded", "failed"}]

ObserverPage ==
  [latestLedger : Nat \cup {None}, flow : FlowState \cup {None},
   disclosurePhase : {"idle", "creating", "created", "error"}, grantId : Grants \cup {None}]

NewObserver ==
  [latestLedger |-> None, flow |-> None, disclosurePhase |-> "idle", grantId |-> None]

\* `bundle` is the row that was read for the answer.  History: `withdrawn` says
\* that the grant was, when the page asked; `answered` that an answer came.
ViewerPage ==
  [grantId : Grants \cup {None}, rightKey : BOOLEAN, bundle : Bundle \cup {None},
   status : {"checking", "verified", "failed"}, withdrawn : BOOLEAN, answered : BOOLEAN]

NoViewer == [grantId |-> None, rightKey |-> FALSE, bundle |-> None, status |-> "checking",
             withdrawn |-> FALSE, answered |-> FALSE]

TypeOK ==
  /\ AuditingTypeOK
  /\ ledger \in 1 .. MaxLedger
  /\ proven \subseteq Positions /\ strayed \in BOOLEAN
  /\ registry \in [Grants -> Grant \cup {None}]
  /\ flow \in FlowState
  /\ goodState \in Nat \cup {None}
  /\ bundles \in [Grants -> Bundle \cup {None}]
  /\ queue \in Seq(Call) /\ late \subseteq Call
  /\ observer \in ObserverPage
  /\ viewer \in ViewerPage
  /\ links \subseteq Grants /\ disturbed \subseteq Grants /\ withdrawn \subseteq Grants
  /\ mishaps \in 0 .. MaxMishaps

Init ==
  /\ AuditingInit
  /\ ledger = 1
  /\ registry = [g \in Grants |-> None]
  /\ View!Init
  /\ goodState = None
  /\ bundles = [g \in Grants |-> None]
  /\ queue = <<>> /\ late = {}
  /\ observer = NewObserver
  /\ viewer = NoViewer
  /\ links = {} /\ disturbed = {} /\ withdrawn = {}
  /\ mishaps = 0

-------------------------------------------------------------------------------
(* Around the disclosure: the chain and the demo flow.                     *)

CloseLedger ==
  /\ ledger < MaxLedger
  /\ ledger' = ledger + 1
  /\ UNCHANGED <<auditingVars, proven, registry, flow, strayed, goodState, bundles, queue,
                 late, observer, links, viewer, disturbed, withdrawn, mishaps>>

\* Histories are verified, the snapshot goes on to others, requests go astray.
\* Bound: only what the snapshot shows first is not counted as a request.
flow_goes_on ==
  /\ \/ View!Show /\ flow = View!Blank /\ UNCHANGED requests
     \/ (View!Show \/ View!Stray) /\ <<flow, strayed>>' # <<flow, strayed>> /\ asks
     \/ View!Verify /\ requests < MaxRequests /\ UNCHANGED requests
  /\ UNCHANGED <<evidence, decrypting, unlock, decrypted, overlapped, ledger, registry,
                 goodState, bundles, queue, late, observer, links, viewer, disturbed,
                 withdrawn, mishaps>>

\* What the node calls the latest ledger.
Latest == {ledger, ledger - 1} \ {0}

-------------------------------------------------------------------------------
(* DisclosureGrantRegistry.                                                *)

create_grant(g) ==
  /\ registry[g] = None
  /\ registry' = [registry EXCEPT ![g] =
       [expires_at_ledger |-> bundles[g].expiresAtLedger, revoked |-> FALSE]]

\* Variant with a plausible bug: the grant read is changed and not stored.
mut_revoke_grant(g) ==
  /\ registry[g] # None
  /\ UNCHANGED registry

revoke_grant(g) ==
  /\ registry[g] # None
  /\ registry' = [registry EXCEPT ![g].revoked = TRUE]

take_effect(c) ==
  IF c.call = "create_grant" THEN create_grant(c.grantId) ELSE revoke_grant(c.grantId)

\* For the right viewer and scope.
is_valid(g) ==
  registry[g] # None /\ ~registry[g].revoked /\ ledger <= registry[g].expires_at_ledger

-------------------------------------------------------------------------------
(* The service.                                                            *)

call(name, g) == [call |-> name, grantId |-> g, at |-> "waiting"]

InFlight(g) == \E i \in DOMAIN queue : queue[i].grantId = g

\* createDisclosureGrant: the row is there before the grant is sent, if it is.
createDisclosureGrant(g, claims, expires, told, submitOnChain) ==
  /\ bundles[g] = None
  /\ bundles' = [bundles EXCEPT ![g] =
       [claims |-> claims, told |-> told, expiresAtLedger |-> expires,
        onChainTx |-> FALSE, revoked |-> FALSE]]
  /\ queue' = IF submitOnChain THEN Append(queue, call("create_grant", g)) ELSE queue

\* A client of its own: nothing is looked at of what it says.  Without a grant on
\* chain it has its link at once.
other_client_creates(g, submitOnChain) ==
  /\ asks
  /\ createDisclosureGrant(g, None, ledger + Lifetime, None, submitOnChain)
  /\ links' = IF submitOnChain THEN links ELSE links \cup {g}
  /\ UNCHANGED <<evidence, decrypting, unlock, decrypted, overlapped, ledger, proven,
                 registry, flow, strayed, goodState, late, observer, viewer, disturbed,
                 withdrawn, mishaps>>

\* revokeDisclosureGrant, of a grant there is.
revokeDisclosureGrant(g) ==
  /\ asks
  /\ bundles[g] # None
  /\ queue' = Append(queue, call("revoke_grant", g))
  /\ UNCHANGED <<evidence, decrypting, unlock, decrypted, overlapped, ledger, proven,
                 registry, flow, strayed, goodState, bundles, late, observer, links, viewer,
                 disturbed, withdrawn, mishaps>>

\* The transaction at work is included and seen, or refused.  The contract refuses
\* a revocation when no grant is there.
operator_tx ==
  /\ queue # <<>> /\ Head(queue).at = "waiting"
  /\ IF Head(queue).call = "revoke_grant" /\ registry[Head(queue).grantId] = None
     THEN /\ queue' = [queue EXCEPT ![1].at = "failed"]
          /\ UNCHANGED registry
     ELSE /\ take_effect(Head(queue))
          /\ queue' = [queue EXCEPT ![1].at = "succeeded"]
  /\ UNCHANGED <<auditingVars, ledger, proven, flow, strayed, goodState, bundles, late,
                 observer, links, viewer, disturbed, withdrawn, mishaps>>

\* It fails without effect, or is given up on and may take effect later.
operator_tx_fails ==
  /\ queue # <<>> /\ Head(queue).at = "waiting"
  /\ mishaps < MaxMishaps
  /\ mishaps' = mishaps + 1
  /\ queue' = [queue EXCEPT ![1].at = "failed"]
  /\ late' \in {late, late \cup {Head(queue)}}
  /\ disturbed' = disturbed \cup {Head(queue).grantId}
  /\ UNCHANGED <<auditingVars, ledger, proven, registry, flow, strayed, goodState, bundles,
                 observer, links, viewer, withdrawn>>

land_late(c) ==
  /\ take_effect(c)
  /\ late' = late \ {c}
  /\ UNCHANGED <<auditingVars, ledger, proven, flow, strayed, goodState, bundles, queue,
                 observer, links, viewer, disturbed, withdrawn, mishaps>>

expire(c) ==
  /\ late' = late \ {c}
  /\ UNCHANGED <<auditingVars, ledger, proven, registry, flow, strayed, goodState, bundles,
                 queue, observer, links, viewer, disturbed, withdrawn, mishaps>>

\* The observer page waits for this answer; another client has its own.
asked_by_page(g) == observer.grantId = g /\ observer.disclosurePhase = "creating"

\* The create is answered; a grant that failed on chain fails nothing.
create_answered ==
  LET c == Head(queue) IN
  /\ queue # <<>> /\ c.call = "create_grant" /\ c.at # "waiting"
  /\ bundles' = [bundles EXCEPT ![c.grantId].onChainTx = (c.at = "succeeded")]
  /\ queue' = Tail(queue)
  /\ observer' = IF asked_by_page(c.grantId)
                 THEN [observer EXCEPT !.disclosurePhase = "created"] ELSE observer
  /\ links' = IF asked_by_page(c.grantId) \/ bundles[c.grantId].claims = None
              THEN links \cup {c.grantId} ELSE links
  /\ UNCHANGED <<auditingVars, ledger, proven, registry, flow, strayed, goodState, late,
                 viewer, disturbed, withdrawn, mishaps>>

\* Variant with a plausible bug: a bundle is revoked only if the chain said so.
mut_marked(c) == c.at = "succeeded"

\* The row is marked whatever became of the transaction.
marked(c) == TRUE

revoke_answered ==
  LET c == Head(queue) IN
  /\ queue # <<>> /\ c.call = "revoke_grant" /\ c.at # "waiting"
  /\ bundles' = IF marked(c) THEN [bundles EXCEPT ![c.grantId].revoked = TRUE] ELSE bundles
  /\ withdrawn' = withdrawn \cup {c.grantId}
  /\ queue' = Tail(queue)
  /\ UNCHANGED <<auditingVars, ledger, proven, registry, flow, strayed, goodState, late,
                 observer, links, viewer, disturbed, mishaps>>

\* The process dies; what was at work may be included.  The page sees an error.
crash ==
  /\ queue # <<>> \/ \E c \in Clients : decrypting[c].row # 0
  /\ mishaps < MaxMishaps
  /\ mishaps' = mishaps + 1
  /\ decryptions_lost
  /\ queue' = <<>>
  /\ late' \in {late} \cup (IF queue # <<>> /\ Head(queue).at = "waiting"
                            THEN {late \cup {Head(queue)}} ELSE {})
  /\ disturbed' = disturbed \cup {queue[i].grantId : i \in DOMAIN queue}
  /\ observer' = IF observer.disclosurePhase = "creating"
                 THEN [observer EXCEPT !.disclosurePhase = "error"] ELSE observer
  /\ UNCHANGED <<ledger, proven, registry, flow, strayed, goodState, bundles, links, viewer,
                 withdrawn>>

-------------------------------------------------------------------------------
(* The observer page.                                                      *)

\* Bound: not in the middle of the ceremony.
visit ==
  /\ asks
  /\ observer # NewObserver
  /\ unlock.role # "unlocking"
  /\ observer' = NewObserver
  /\ unlock' = [unlock EXCEPT !.role = "public"]
  /\ UNCHANGED <<evidence, decrypting, decrypted, overlapped, ledger, proven, registry, flow,
                 strayed, goodState, bundles, queue, late, links, viewer, disturbed,
                 withdrawn, mishaps>>

\* getDemoState, live: what is read is also kept as last known good.
demo_state_live ==
  /\ observer.latestLedger = None
  /\ goodState' \in Latest
  /\ observer' = [observer EXCEPT !.latestLedger = goodState']
  /\ UNCHANGED <<auditingVars, ledger, proven, registry, flow, strayed, bundles, queue, late,
                 links, viewer, disturbed, withdrawn, mishaps>>

\* The node does not answer: the last known good one, however old; without one,
\* the page is told nothing.
demo_state_cached ==
  /\ observer.latestLedger = None /\ goodState # None
  /\ observer' = [observer EXCEPT !.latestLedger = goodState]
  /\ UNCHANGED <<auditingVars, ledger, proven, registry, flow, strayed, goodState, bundles,
                 queue, late, links, viewer, disturbed, withdrawn, mishaps>>

\* Every few seconds.
loadFlow ==
  /\ observer' = [observer EXCEPT !.flow = flow]
  /\ UNCHANGED <<auditingVars, ledger, proven, registry, flow, strayed, goodState, bundles,
                 queue, late, links, viewer, disturbed, withdrawn, mishaps>>

\* Variant with a plausible bug: a link that expires when it is made.
mut_expiresAtLedger == IF observer.latestLedger = None THEN Fallback ELSE observer.latestLedger

\* (latestLedger ?? 1_000_000) + 100_000
expiresAtLedger ==
  (IF observer.latestLedger = None THEN Fallback ELSE observer.latestLedger) + Lifetime

\* Variant with a plausible bug: any live position will do.
mut_disclosable(f) == f.positionId # None

\* flowState.positionId and historyProof.verified
disclosable(f) == f.positionId # None /\ f.historyProof # None

createDisclosure(g) ==
  /\ asks
  /\ observer.disclosurePhase \in {"idle", "error"}
  /\ observer.flow # None
  /\ disclosable(observer.flow)
  /\ createDisclosureGrant(g, observer.flow.positionId, expiresAtLedger,
                           observer.latestLedger, TRUE)
  /\ observer' = [observer EXCEPT !.disclosurePhase = "creating", !.grantId = g]
  /\ UNCHANGED <<evidence, decrypting, unlock, decrypted, overlapped, ledger, proven, registry,
                 flow, strayed, goodState, late, links, viewer, disturbed, withdrawn, mishaps>>

-------------------------------------------------------------------------------
(* The viewer's page.                                                      *)

\* A link is opened, with its key or another.
open_link(g, rightKey) ==
  /\ asks
  /\ viewer' = [NoViewer EXCEPT !.grantId = g, !.rightKey = rightKey,
                                !.withdrawn = g \in withdrawn]
  /\ UNCHANGED <<evidence, decrypting, unlock, decrypted, overlapped, ledger, proven,
                 registry, flow, strayed, goodState, bundles, queue, late, observer, links,
                 disturbed, withdrawn, mishaps>>

\* getDisclosureGrantBundle reads the row, and then asks for the latest ledger.
read_bundle ==
  /\ viewer.grantId # None /\ viewer.status = "checking" /\ viewer.bundle = None
  /\ viewer' = [viewer EXCEPT !.bundle = bundles[viewer.grantId]]
  /\ UNCHANGED <<auditingVars, ledger, proven, registry, flow, strayed, goodState, bundles,
                 queue, late, observer, links, disturbed, withdrawn, mishaps>>

\* verify, of the answer: a ledger the node did not tell expires nothing.
verified(b, latestLedger) ==
  /\ ~b.revoked
  /\ latestLedger # None => latestLedger <= b.expiresAtLedger
  /\ viewer.rightKey

verify ==
  /\ viewer.status = "checking" /\ viewer.bundle # None
  /\ \E latestLedger \in Latest \cup {None} :
       viewer' = [viewer EXCEPT !.answered = TRUE,
         !.status = IF verified(viewer.bundle, latestLedger) THEN "verified" ELSE "failed"]
  /\ UNCHANGED <<auditingVars, ledger, proven, registry, flow, strayed, goodState, bundles,
                 queue, late, observer, links, disturbed, withdrawn, mishaps>>

\* The answer is lost.
verify_fails ==
  /\ viewer.grantId # None /\ viewer.status = "checking"
  /\ viewer' = [viewer EXCEPT !.status = "failed"]
  /\ UNCHANGED <<auditingVars, ledger, proven, registry, flow, strayed, goodState, bundles,
                 queue, late, observer, links, disturbed, withdrawn, mishaps>>

-------------------------------------------------------------------------------

ObserverStep ==
  \/ visit \/ demo_state_live \/ demo_state_cached \/ loadFlow
  \/ \E g \in Grants : createDisclosure(g)

ViewerStep ==
  \/ \E g \in links, rightKey \in BOOLEAN : open_link(g, rightKey)
  \/ read_bundle \/ verify \/ verify_fails

ServiceStep ==
  \/ \E g \in Grants :
       \/ \E submitOnChain \in BOOLEAN : other_client_creates(g, submitOnChain)
       \/ revokeDisclosureGrant(g)
  \/ operator_tx \/ operator_tx_fails \/ create_answered \/ revoke_answered
  \/ \E c \in late : land_late(c) \/ expire(c)
  \/ crash

Next ==
  \/ AuditingStep /\ UNCHANGED disclosureVars
  \/ CloseLedger \/ flow_goes_on
  \/ ObserverStep \/ ViewerStep \/ ServiceStep

Spec == Init /\ [][Next]_vars

-------------------------------------------------------------------------------
(* What makes disclosure correct.                                          *)

\* A link the observer page made, and whose fact a viewer's page shows as
\* verified, is about a position whose history was verified on chain, unless a
\* request to the flow named another position than its snapshot: from then on the
\* snapshot may show one position with the verified history of another.
VerifiedClaimsAreTrue ==
  viewer.status = "verified" /\ viewer.bundle.claims # None =>
    strayed \/ viewer.bundle.claims \in proven

\* A page asked for after the revocation was answered does not show the fact,
\* whatever became of the revocation on chain.
RevokedNeverVerifies == viewer.withdrawn => viewer.status # "verified"

\* Chain and table agree on a grant once nothing about it is in flight, unless a
\* transaction of it failed or was given up on: the table knows whether it was
\* granted, and the contract calls it valid as long as the table does.
ChainAndTableAgree ==
  \A g \in Grants \ disturbed : ~InFlight(g) =>
    /\ registry[g] # None <=> bundles[g] # None /\ bundles[g].onChainTx
    /\ registry[g] # None =>
         (is_valid(g) <=> ~bundles[g].revoked /\ ledger <= bundles[g].expiresAtLedger)

\* A link opens with its key for as long as it was made for, counted from the
\* ledger its page had been told, until it is revoked.
GoodLinkOpens ==
  LET b == viewer.bundle IN
  (/\ viewer.status = "failed" /\ viewer.answered /\ viewer.rightKey
   /\ ~b.revoked /\ b.told # None) => ledger > b.told + Lifetime
================================================================================
