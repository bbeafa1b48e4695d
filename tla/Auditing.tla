------------------------------- MODULE Auditing --------------------------------
(***************************************************************************)
(* The auditor's view: evidence of confidential transfers, its decryption  *)
(* and the observer page's unlock ceremony (routes/auditor.ts,             *)
(* auditor-decrypt.ts, confidential-token-transfer.ts, observer/page.tsx). *)
(*                                                                         *)
(* A transfer can be decrypted with its salt (sigma), which its event      *)
(* carried, or the auditor's payload, or, for a repayment, the transfer's  *)
(* own data.  When the event could not be fetched as the evidence was      *)
(* filed, each decryption fetches it again and writes the row back as it   *)
(* read it, with what it found: two decryptions of one row write over one  *)
(* another.  The node keeps events for a while only.  A request may bring  *)
(* the transfer's data, and those replace the row's before anything is     *)
(* looked at.                                                              *)
(***************************************************************************)
EXTENDS Integers, Sequences, FiniteSets

CONSTANTS
  Clients,       \* who may have a decryption running; one each
  Observer,      \* the observer page among them
  MaxEvidence,   \* bound: evidence rows
  MaxRequests    \* bound: requests in a behaviour

ASSUME AuditingAssumption ==
  Observer \in Clients /\ MaxEvidence \in Nat /\ MaxRequests \in Nat

VARIABLES
  evidence,    \* table confidential_transfer_evidence, oldest first
  decrypting,  \* per client: the row a decryption is fetching for, and its data
  unlock,      \* the observer page: its role, and the rows it has still to decrypt
  decrypted,   \* history: rows of which some decryption told what they hold
  overlapped,  \* history: rows with two decryptions under way at once
  requests     \* bound: requests so far

auditingVars == <<evidence, decrypting, unlock, decrypted, overlapped, requests>>

Direction == {"draw", "repayment"}

\* dataXdrBase64: the transfer's own, those of another transfer, or nothing that
\* can be inspected.
Data == {"own", "foreign", "damaged"}

\* `sigma` says that eventPayload holds what the event carried, `payload` that the
\* auditor's payload, filed or configured, holds as much.
Evidence == [direction : Direction, sigma : BOOLEAN, payload : BOOLEAN, data : Data]
Rows == DOMAIN evidence

\* What parseDecryptRequest puts together is the transfer's: event and payload
\* come before the data, which only a repayment's salt is in.
readable(row) ==
  /\ row.data # "damaged"
  /\ row.sigma \/ row.payload \/ (row.direction = "repayment" /\ row.data = "own")

\* A decryption under way, with the row (0: none) and the data it will write.
Decryption == [row : {0} \cup Rows, data : Data]
NoDecryption == [row |-> 0, data |-> "own"]

AuditingTypeOK ==
  /\ evidence \in Seq(Evidence) /\ Len(evidence) <= MaxEvidence
  /\ decrypting \in [Clients -> Decryption]
  /\ unlock.role \in {"public", "unlocking", "auditor"}
  /\ unlock.todo \in Seq(Rows)
  /\ unlock.role # "unlocking" => unlock.todo = <<>> /\ decrypting[Observer].row = 0
  /\ decrypted \subseteq Rows /\ overlapped \subseteq Rows
  /\ requests \in 0 .. MaxRequests

AuditingInit ==
  /\ evidence = <<>>
  /\ decrypting = [c \in Clients |-> NoDecryption]
  /\ unlock = [role |-> "public", todo |-> <<>>]
  /\ decrypted = {} /\ overlapped = {}
  /\ requests = 0

\* Bound: a request is made, of whatever kind.
asks ==
  /\ requests < MaxRequests
  /\ requests' = requests + 1

-------------------------------------------------------------------------------
(* Filing evidence.                                                        *)

\* recordConfidentialTransferEvidence: the row of a transfer that was seen to
\* succeed, with its data, and the salt if its event could be fetched.
record_evidence(direction, found, payload) ==
  /\ asks
  /\ Len(evidence) < MaxEvidence
  /\ evidence' = Append(evidence, [direction |-> direction, sigma |-> found,
                                   payload |-> payload, data |-> "own"])
  /\ UNCHANGED <<decrypting, unlock, decrypted, overlapped>>

-------------------------------------------------------------------------------
(* Decrypting.                                                             *)

\* rawDataXdrBase64 ?? evidence.dataXdrBase64
kept_data(e, brought) == IF brought = "none" THEN evidence[e].data ELSE brought

\* Reading an answer off a row: it may fail for other reasons.  A request with a
\* payload of its own may be answered as well, but not from the row.
answered_from(e, row) ==
  decrypted' \in {decrypted} \cup (IF readable(row) THEN {decrypted \cup {e}} ELSE {})

\* Client c asks for row e and may bring data.  Nothing is fetched when the row
\* has its salt; data it brought are written all the same.
decrypt(c, e, brought) ==
  /\ decrypting[c].row = 0
  /\ IF evidence[e].sigma
     THEN LET row == [evidence[e] EXCEPT !.data = kept_data(e, brought)] IN
          /\ evidence' = [evidence EXCEPT ![e] = row]
          /\ answered_from(e, row)
          /\ UNCHANGED <<decrypting, overlapped>>
     ELSE /\ decrypting' = [decrypting EXCEPT ![c] = [row |-> e, data |-> kept_data(e, brought)]]
          /\ overlapped' = IF \E d \in Clients : decrypting[d].row = e
                           THEN overlapped \cup {e} ELSE overlapped
          /\ UNCHANGED <<evidence, decrypted>>

\* Variant with a plausible bug: what was fetched is used and not kept.
mut_hydrated(row, data, found) == row

\* hydrateEvidence: what is written back is the row as it was read, without the
\* salt, with what was found and the data read or brought.
hydrated(row, data, found) == [row EXCEPT !.sigma = found, !.data = data]

\* The event is fetched or not; the row is written, and the answer made of it.
hydrate(c, found) ==
  LET e == decrypting[c].row
      data == decrypting[c].data IN
  /\ e # 0
  /\ evidence' = [evidence EXCEPT ![e] = hydrated(@, data, found)]
  /\ answered_from(e, [evidence[e] EXCEPT !.sigma = found, !.data = data])
  /\ decrypting' = [decrypting EXCEPT ![c] = NoDecryption]
  /\ UNCHANGED overlapped

\* Any client decrypts any row.
api_decrypt(c, e, brought) ==
  /\ asks
  /\ c # Observer
  /\ decrypt(c, e, brought)
  /\ UNCHANGED unlock

api_hydrate(c, found) ==
  /\ c # Observer
  /\ hydrate(c, found)
  /\ UNCHANGED <<unlock, requests>>

-------------------------------------------------------------------------------
(* The unlock ceremony.                                                    *)

\* events.find(event => event.direction === direction): the feed is newest first.
Newest(direction) ==
  LET mine == {e \in Rows : evidence[e].direction = direction} IN
  IF mine = {} THEN <<>> ELSE <<CHOOSE e \in mine : \A d \in mine : d <= e>>

\* The feed is read, or it is not available and the session is a reference one.
startUnlock ==
  /\ asks
  /\ unlock.role = "public"
  /\ \E todo \in {<<>>, Newest("draw") \o Newest("repayment")} :
       unlock' = [role |-> "unlocking", todo |-> todo]
  /\ UNCHANGED <<evidence, decrypting, decrypted, overlapped>>

\* The newest draw first, then the newest repayment; the page brings no data.
unlock_next ==
  /\ unlock.todo # <<>>
  /\ decrypt(Observer, Head(unlock.todo), "none")
  /\ unlock' = [unlock EXCEPT !.todo = Tail(@)]
  /\ UNCHANGED requests

unlock_hydrate(found) ==
  /\ hydrate(Observer, found)
  /\ UNCHANGED <<unlock, requests>>

\* Variant with a plausible bug: the last decryption is not waited for.
mut_all_tried == unlock.todo = <<>>

\* for (const direction of ["draw", "repayment"]), each awaited
all_tried == unlock.todo = <<>> /\ decrypting[Observer].row = 0

\* Whatever failed on the way, the page is the auditor's in the end.
unlock_done ==
  /\ unlock.role = "unlocking" /\ all_tried
  /\ unlock' = [unlock EXCEPT !.role = "auditor"]
  /\ UNCHANGED <<evidence, decrypting, decrypted, overlapped, requests>>

lock_again ==
  /\ unlock.role = "auditor"
  /\ unlock' = [unlock EXCEPT !.role = "public"]
  /\ UNCHANGED <<evidence, decrypting, decrypted, overlapped, requests>>

\* The process dies: the decryptions under way are answered with an error.
decryptions_lost ==
  /\ decrypting' = [c \in Clients |-> NoDecryption]
  /\ UNCHANGED <<evidence, unlock, decrypted, overlapped, requests>>

AuditingStep ==
  \/ \E direction \in Direction, found, payload \in BOOLEAN :
       record_evidence(direction, found, payload)
  \/ \E c \in Clients :
       \/ \E e \in Rows, brought \in Data \cup {"none"} : api_decrypt(c, e, brought)
       \/ \E found \in BOOLEAN : api_hydrate(c, found)
  \/ startUnlock \/ unlock_next \/ unlock_done \/ lock_again
  \/ \E found \in BOOLEAN : unlock_hydrate(found)

-------------------------------------------------------------------------------
(* What makes it correct.                                                  *)

\* What could once be decrypted can be decrypted when the node has forgotten the
\* event, by a request that brings the transfer's own data at least: whatever
\* other requests brought in between, the row keeps the salt, unless two
\* decryptions of it overlapped.
SaltKept ==
  \A e \in decrypted \ overlapped : readable([evidence[e] EXCEPT !.data = "own"])
================================================================================
