---------------------------- MODULE DisclosureProofs ----------------------------
(***************************************************************************)
(* Disclosure and the auditor's view, for any clients, positions, grants   *)
(* and rows of evidence, any lifetime of a link, and any number of         *)
(* requests, crashes and transactions that fail or land late: the salt of  *)
(* what was decrypted is kept, a verified link is true, a revoked one does *)
(* not verify, a good one opens, and chain and table agree on a grant none *)
(* of whose transactions went wrong.                                       *)
(***************************************************************************)
EXTENDS Disclosure, WellFoundedInduction, TLAPS

\* A set of rows that is not empty has a newest one.
LEMMA GreatestRow ==
  ASSUME NEW n \in Nat, NEW T \in SUBSET (1 .. n), T # {}
  PROVE  \E e \in T : \A d \in T : d <= e
<1>. DEFINE S == {n - e : e \in T}
            R == {ss \in Nat \X Nat : ss[1] < ss[2]}
<1>1. IsWellFoundedOn(R, Nat)
  BY NatLessThanWellFounded DEF OpToRel
<1>2. S \subseteq Nat /\ S # {}
  <2>1. \A e \in T : n - e \in Nat
    OBVIOUS
  <2>2. PICK e \in T : TRUE
    OBVIOUS
  <2>3. n - e \in S
    OBVIOUS
  <2>. QED  BY <2>1, <2>3
<1>3. PICK x \in S : \A y \in S : ~ (<<y, x>> \in R)
  <2>. HIDE DEF S, R
  <2>. QED  BY <1>1, <1>2, WFMin
<1>4. PICK e \in T : x = n - e
  BY <1>3
<1>5. ASSUME NEW d \in T
      PROVE  d <= e
  <2>1. n - d \in S /\ n - d \in Nat /\ x \in Nat
    BY <1>2, <1>3
  <2>2. ~(n - d < x)
    BY <1>3, <2>1
  <2>. QED  BY <1>4, <2>2
<1>. QED  BY <1>5

\* Rows to decrypt stay rows when the table grows.
LEMMA SeqOfMore ==
  ASSUME NEW S, NEW T, S \subseteq T, NEW s \in Seq(S)
  PROVE  s \in Seq(T)
  OBVIOUS

-------------------------------------------------------------------------------
(* The auditor's view.                                                     *)

Unlock == [role : {"public", "unlocking", "auditor"}, todo : Seq(Nat)]

IAuditing == AuditingTypeOK /\ unlock \in Unlock

\* The row tells what it holds, given the transfer's own data.
Tells(row) == readable([row EXCEPT !.data = "own"])

\* Of a row that was never fetched for twice at once: one client at most fetches
\* for it, while it has no salt; and what was decrypted tells what it holds.
Salted ==
  \A e \in Rows \ overlapped :
    /\ \A c, d \in Clients : decrypting[c].row = e /\ decrypting[d].row = e => c = d
    /\ \A c \in Clients : decrypting[c].row = e => ~evidence[e].sigma
    /\ e \in decrypted => Tells(evidence[e])

\* A row needs its event, its payload or a repayment's data; data may be brought.
LEMMA TellsMeans ==
  ASSUME NEW row \in Evidence
  PROVE  /\ Tells(row) <=> row.sigma \/ row.payload \/ row.direction = "repayment"
         /\ readable(row) => Tells(row)
  BY DEF Tells, readable, Evidence

\* A row with data that were brought is the same transfer's.
LEMMA RowBrought ==
  ASSUME NEW row \in Evidence, NEW data \in Data
  PROVE  LET new == [row EXCEPT !.data = data] IN
         /\ new \in Evidence /\ new.sigma = row.sigma /\ new.payload = row.payload
         /\ new.direction = row.direction
  BY DEF Evidence

LEMMA AuditingInitial == AuditingInit => IAuditing /\ Salted
<1>. SUFFICES ASSUME AuditingInit PROVE IAuditing /\ Salted
  OBVIOUS
<1>1. /\ evidence = <<>> /\ Rows = {} /\ evidence \in Seq(Evidence) /\ Len(evidence) = 0
      /\ unlock = [role |-> "public", todo |-> <<>>]
      /\ decrypting = [c \in Clients |-> NoDecryption]
      /\ decrypted = {} /\ overlapped = {} /\ requests = 0
  BY DEF AuditingInit, Rows
<1>2. <<>> \in Seq(Rows) /\ <<>> \in Seq(Nat)
  OBVIOUS
<1>3. unlock.role = "public" /\ unlock.todo = <<>> /\ unlock \in Unlock
  BY <1>1, <1>2 DEF Unlock
<1>4. AuditingTypeOK
  BY <1>1, <1>2, <1>3, AuditingAssumption DEF AuditingTypeOK, Decryption, NoDecryption, Data
<1>. QED  BY <1>1, <1>3, <1>4 DEF IAuditing, Salted

\* One row of the evidence is written over by one of the same transfer.
LEMMA RowReplaced ==
  ASSUME IAuditing, NEW e \in Rows, NEW row \in Evidence,
         evidence' = [evidence EXCEPT ![e] = row]
  PROVE  /\ evidence' \in Seq(Evidence) /\ Len(evidence') = Len(evidence) /\ Rows' = Rows
         /\ Decryption' = Decryption /\ evidence'[e] = row
         /\ \A r \in Rows \ {e} : evidence'[r] = evidence[r]
<1>1. evidence \in Seq(Evidence) /\ Rows = 1 .. Len(evidence)
  BY DEF IAuditing, AuditingTypeOK, Rows
<1>2. /\ evidence' \in Seq(Evidence) /\ Len(evidence') = Len(evidence) /\ Rows' = Rows
      /\ evidence'[e] = row /\ \A r \in Rows \ {e} : evidence'[r] = evidence[r]
  BY <1>1 DEF Rows
<1>. QED  BY <1>2 DEF Decryption

\* A client asks for a row.
LEMMA DecryptKeeps ==
  ASSUME IAuditing, Salted, NEW c \in Clients, NEW e \in Rows, NEW brought \in Data \cup {"none"},
         decrypt(c, e, brought)
  PROVE  /\ evidence' \in Seq(Evidence) /\ Len(evidence') = Len(evidence) /\ Rows' = Rows
         /\ decrypting' \in [Clients -> Decryption]
         /\ \A d \in Clients \ {c} : decrypting'[d] = decrypting[d]
         /\ decrypted' \subseteq Rows /\ overlapped' \subseteq Rows
         /\ Salted'
<1>. DEFINE data == kept_data(e, brought)
<1>1. /\ evidence \in Seq(Evidence) /\ evidence[e] \in Evidence
      /\ decrypting \in [Clients -> Decryption] /\ decrypting[c].row = 0
      /\ decrypted \subseteq Rows /\ overlapped \subseteq Rows
  BY DEF decrypt, Rows, IAuditing, AuditingTypeOK
<1>2. data \in Data
  BY <1>1 DEF kept_data, Evidence
<1>3. CASE evidence[e].sigma
  <2>. DEFINE row == [evidence[e] EXCEPT !.data = data]
  <2>1. /\ evidence' = [evidence EXCEPT ![e] = row] /\ UNCHANGED <<decrypting, overlapped>>
        /\ decrypted' \in {decrypted, decrypted \cup {e}}
    BY <1>3 DEF decrypt, answered_from
  <2>2. row \in Evidence /\ row.sigma
    BY <1>1, <1>2, <1>3, RowBrought
  <2>3. Tells(row)
    BY <2>2, TellsMeans
  <2>. HIDE DEF row, data
  <2>4. /\ evidence' \in Seq(Evidence) /\ Len(evidence') = Len(evidence) /\ Rows' = Rows
        /\ Decryption' = Decryption /\ evidence'[e] = row
        /\ \A r \in Rows \ {e} : evidence'[r] = evidence[r]
    BY <2>1, <2>2, RowReplaced
  <2>5. ASSUME NEW r \in Rows \ overlapped
        PROVE  /\ \A d, f \in Clients : decrypting[d].row = r /\ decrypting[f].row = r => d = f
               /\ \A d \in Clients : decrypting[d].row = r => ~evidence'[r].sigma
               /\ r \in decrypted' => Tells(evidence'[r])
    <3>1. CASE r = e
      BY <1>3, <2>3, <2>4, <2>5, <3>1 DEF Salted
    <3>2. CASE r # e
      BY <2>1, <2>4, <2>5, <3>2 DEF Salted
    <3>. QED  BY <3>1, <3>2
  <2>6. Salted'
    <3>1. \A r \in Rows : Tells(evidence[r])' <=> Tells(evidence'[r])
      BY DEF Tells, readable
    <3>. QED  BY <2>1, <2>4, <2>5, <3>1 DEF Salted
  <2>. QED  BY <1>1, <2>1, <2>4, <2>6
<1>4. CASE ~evidence[e].sigma
  <2>. DEFINE pending == [row |-> e, data |-> data]
  <2>1. /\ decrypting' = [decrypting EXCEPT ![c] = pending]
        /\ overlapped' = IF \E d \in Clients : decrypting[d].row = e
                         THEN overlapped \cup {e} ELSE overlapped
        /\ UNCHANGED <<evidence, decrypted>>
    BY <1>4 DEF decrypt
  <2>2. pending \in Decryption /\ pending.row = e
    BY <1>2 DEF Decryption
  <2>. HIDE DEF pending, data
  <2>3. /\ decrypting' \in [Clients -> Decryption] /\ decrypting'[c].row = e
        /\ \A d \in Clients \ {c} : decrypting'[d] = decrypting[d]
    BY <1>1, <2>1, <2>2
  <2>4. overlapped \subseteq overlapped' /\ overlapped' \subseteq Rows /\ Rows' = Rows
    BY <1>1, <2>1 DEF Rows
  <2>5. ASSUME NEW r \in Rows \ overlapped'
        PROVE  /\ \A d, f \in Clients : decrypting'[d].row = r /\ decrypting'[f].row = r => d = f
               /\ \A d \in Clients : decrypting'[d].row = r => ~evidence[r].sigma
               /\ r \in decrypted => Tells(evidence[r])
    <3>1. CASE r = e
      <4>1. \A d \in Clients : decrypting[d].row # e
        BY <2>1, <2>5, <3>1
      <4>2. \A d \in Clients : decrypting'[d].row = r => d = c
        BY <2>3, <3>1, <4>1
      <4>. QED  BY <1>4, <2>4, <2>5, <3>1, <4>2 DEF Salted
    <3>2. CASE r # e
      BY <2>3, <2>4, <2>5, <3>2 DEF Salted
    <3>. QED  BY <3>1, <3>2
  <2>6. Salted'
    <3>1. \A r \in Rows : Tells(evidence[r])' <=> Tells(evidence[r])
      BY <2>1 DEF Tells, readable
    <3>. QED  BY <2>1, <2>4, <2>5, <3>1 DEF Salted
  <2>. QED  BY <1>1, <2>1, <2>3, <2>4, <2>6
<1>. QED  BY <1>3, <1>4

\* What was fetched is written back.
LEMMA HydrateKeeps ==
  ASSUME IAuditing, Salted, NEW c \in Clients, NEW found \in BOOLEAN, hydrate(c, found)
  PROVE  /\ evidence' \in Seq(Evidence) /\ Len(evidence') = Len(evidence) /\ Rows' = Rows
         /\ decrypting' \in [Clients -> Decryption]
         /\ decrypting'[c].row = 0
         /\ \A d \in Clients \ {c} : decrypting'[d] = decrypting[d]
         /\ decrypted' \subseteq Rows /\ UNCHANGED overlapped
         /\ Salted'
<1>0. /\ evidence \in Seq(Evidence) /\ Rows = 1 .. Len(evidence)
      /\ decrypting \in [Clients -> Decryption] /\ decrypted \subseteq Rows
      /\ decrypting[c] \in Decryption /\ decrypting[c].row # 0
  BY DEF IAuditing, AuditingTypeOK, Rows, hydrate
<1>1. PICK e \in Rows, data \in Data : e = decrypting[c].row /\ data = decrypting[c].data
  BY <1>0 DEF Decryption
<1>. DEFINE row == [evidence[e] EXCEPT !.sigma = found, !.data = data]
<1>2. /\ evidence' = [evidence EXCEPT ![e] = row]
      /\ decrypted' \in {decrypted} \cup (IF readable(row) THEN {decrypted \cup {e}} ELSE {})
      /\ decrypting' = [decrypting EXCEPT ![c] = NoDecryption]
      /\ UNCHANGED overlapped
  BY <1>1 DEF hydrate, hydrated, answered_from
<1>3. evidence[e] \in Evidence
  BY <1>0
<1>4. /\ row \in Evidence /\ row.sigma = found /\ row.payload = evidence[e].payload
      /\ row.direction = evidence[e].direction
  <2>1. PICK r \in Evidence : r = evidence[e]
    BY <1>3
  <2>. DEFINE new == [r EXCEPT !.sigma = found, !.data = data]
  <2>2. /\ new \in Evidence /\ new.sigma = found /\ new.payload = r.payload
        /\ new.direction = r.direction
    BY DEF Evidence
  <2>3. row = new
    BY <2>1
  <2>. HIDE DEF new, row
  <2>. QED  BY <2>1, <2>2, <2>3
<1>5. readable(row) => Tells(row)
  BY <1>4, TellsMeans
<1>6. Tells(evidence[e]) /\ ~evidence[e].sigma => Tells(row)
  BY <1>3, <1>4, TellsMeans
<1>. HIDE DEF row
<1>7. /\ evidence' \in Seq(Evidence) /\ Len(evidence') = Len(evidence) /\ Rows' = Rows
      /\ Decryption' = Decryption /\ evidence'[e] = row
      /\ \A r \in Rows \ {e} : evidence'[r] = evidence[r]
  BY <1>2, <1>4, RowReplaced
<1>8. NoDecryption \in Decryption /\ NoDecryption.row = 0
  BY DEF Decryption, NoDecryption, Data
<1>9. /\ decrypting' \in [Clients -> Decryption] /\ decrypting'[c].row = 0
      /\ \A d \in Clients \ {c} : decrypting'[d] = decrypting[d]
      /\ decrypted' \subseteq Rows /\ decrypted' \subseteq decrypted \cup {e}
  <2>1. decrypting' = [decrypting EXCEPT ![c] = NoDecryption] /\ NoDecryption.row = 0
    BY <1>2, <1>8
  <2>2. decrypting' \in [Clients -> Decryption]
    BY <1>0, <1>2, <1>8
  <2>3. decrypting'[c] = NoDecryption
    BY <1>0, <2>1
  <2>4. \A d \in Clients \ {c} : decrypting'[d] = decrypting[d]
    BY <1>0, <2>1
  <2>5. decrypted' \subseteq Rows /\ decrypted' \subseteq decrypted \cup {e}
    BY <1>0, <1>2
  <2>. QED  BY <1>8, <2>2, <2>3, <2>4, <2>5
<1>10. ASSUME NEW r \in Rows \ overlapped
       PROVE  /\ \A d, f \in Clients : decrypting'[d].row = r /\ decrypting'[f].row = r => d = f
              /\ \A d \in Clients : decrypting'[d].row = r => ~evidence'[r].sigma
              /\ r \in decrypted' => Tells(evidence'[r])
  <2>1. CASE r = e
    <3>1. e # 0
      BY <1>0, <1>1
    <3>2. \A d \in Clients : decrypting'[d].row # e
      BY <1>1, <1>9, <1>10, <2>1, <3>1 DEF Salted
    <3>3. ~evidence[e].sigma /\ (e \in decrypted => Tells(evidence[e]))
      BY <1>1, <1>10, <2>1 DEF Salted
    <3>4. e \in decrypted' => e \in decrypted \/ readable(row)
      BY <1>2
    <3>5. e \in decrypted' => Tells(row)
      BY <1>5, <1>6, <3>3, <3>4
    <3>. QED  BY <1>7, <2>1, <3>2, <3>5
  <2>2. CASE r # e
    <3>1. evidence'[r] = evidence[r] /\ (r \in decrypted' => r \in decrypted)
      BY <1>7, <1>9, <2>2
    <3>2. r # 0
      BY <1>0
    <3>3. \A d \in Clients : decrypting'[d].row = r => decrypting[d].row = r
      BY <1>9, <3>2
    <3>. QED  BY <1>10, <3>1, <3>3 DEF Salted
  <2>. QED  BY <2>1, <2>2
<1>11. Salted'
  <2>1. \A r \in Rows : Tells(evidence[r])' <=> Tells(evidence'[r])
    BY DEF Tells, readable
  <2>. QED  BY <1>2, <1>7, <1>10, <2>1 DEF Salted
<1>. QED  BY <1>2, <1>7, <1>9, <1>11

\* The rows the ceremony will decrypt are rows.
LEMMA NewestIsRow ==
  ASSUME IAuditing, NEW direction \in Direction
  PROVE  Newest(direction) = <<>> \/ \E e \in Rows : Newest(direction) = <<e>>
<1>. DEFINE mine == {e \in Rows : evidence[e].direction = direction}
<1>1. CASE mine = {}
  BY <1>1 DEF Newest
<1>2. CASE mine # {}
  <2>1. Rows = 1 .. Len(evidence) /\ Len(evidence) \in Nat
    BY DEF IAuditing, AuditingTypeOK, Rows
  <2>2. mine \in SUBSET (1 .. Len(evidence))
    BY <2>1
  <2>3. \E e \in mine : \A d \in mine : d <= e
    <3>. HIDE DEF mine
    <3>. QED  BY <1>2, <2>1, <2>2, GreatestRow
  <2>4. (CHOOSE e \in mine : \A d \in mine : d <= e) \in mine
    <3>. HIDE DEF mine
    <3>. QED  BY <2>3
  <2>5. Newest(direction) = <<CHOOSE e \in mine : \A d \in mine : d <= e>>
    BY <1>2 DEF Newest
  <2>. QED  BY <2>4, <2>5
<1>. QED  BY <1>1, <1>2

LEMMA AsksTyped ==
  ASSUME IAuditing, asks
  PROVE  requests' \in 0 .. MaxRequests
  BY AuditingAssumption DEF asks, IAuditing, AuditingTypeOK

LEMMA RecordKeeps ==
  ASSUME IAuditing, Salted, NEW direction \in Direction, NEW found \in BOOLEAN,
         NEW payload \in BOOLEAN, record_evidence(direction, found, payload)
  PROVE  IAuditing' /\ Salted'
<1>. DEFINE row == [direction |-> direction, sigma |-> found, payload |-> payload, data |-> "own"]
<1>1. /\ evidence' = Append(evidence, row) /\ row \in Evidence
      /\ Len(evidence) < MaxEvidence /\ asks
      /\ UNCHANGED <<decrypting, unlock, decrypted, overlapped>>
  BY DEF record_evidence, Evidence, Data
<1>2. /\ evidence \in Seq(Evidence) /\ Len(evidence) \in Nat /\ Rows = 1 .. Len(evidence)
      /\ decrypting \in [Clients -> Decryption] /\ unlock \in Unlock
      /\ decrypted \subseteq Rows /\ overlapped \subseteq Rows
  BY DEF IAuditing, AuditingTypeOK, Rows
<1>3. /\ evidence' \in Seq(Evidence) /\ Len(evidence') = Len(evidence) + 1
      /\ Rows' = 1 .. Len(evidence) + 1 /\ \A e \in Rows : evidence'[e] = evidence[e]
  <2>. HIDE DEF row
  <2>. QED  BY <1>1, <1>2 DEF Rows
<1>4. Rows \subseteq Rows' /\ Len(evidence') <= MaxEvidence
  BY <1>1, <1>2, <1>3, AuditingAssumption
<1>5. unlock.todo \in Seq(Rows')
  BY <1>4, SeqOfMore DEF IAuditing, AuditingTypeOK
<1>6. decrypting' \in [Clients -> Decryption']
  <2>1. Decryption \subseteq Decryption'
    BY <1>4 DEF Decryption
  <2>. QED  BY <1>1, <1>2, <2>1
<1>7. IAuditing'
  BY <1>1, <1>2, <1>3, <1>4, <1>5, <1>6, AsksTyped DEF IAuditing, AuditingTypeOK
<1>8. ASSUME NEW e \in Rows' \ overlapped
      PROVE  /\ \A c, d \in Clients : decrypting[c].row = e /\ decrypting[d].row = e => c = d
             /\ \A c \in Clients : decrypting[c].row = e => ~evidence'[e].sigma
             /\ e \in decrypted => Tells(evidence'[e])
  <2>1. CASE e \in Rows
    BY <1>3, <1>8, <2>1 DEF Salted
  <2>2. CASE e \notin Rows
    <3>1. \A c \in Clients : decrypting[c].row \in {0} \cup Rows
      BY <1>2 DEF Decryption
    <3>2. e # 0 /\ e \notin decrypted /\ \A c \in Clients : decrypting[c].row # e
      BY <1>2, <1>3, <2>2, <3>1
    <3>. QED  BY <3>2
  <2>. QED  BY <2>1, <2>2
<1>9. Salted'
  <2>1. \A r \in Rows' : Tells(evidence[r])' <=> Tells(evidence'[r])
    BY DEF Tells, readable
  <2>. QED  BY <1>1, <1>8, <2>1 DEF Salted
<1>. QED  BY <1>7, <1>9

LEMMA AuditingKeeps ==
  ASSUME IAuditing, Salted, AuditingStep
  PROVE  IAuditing' /\ Salted'
<1>0. /\ evidence \in Seq(Evidence) /\ Len(evidence) <= MaxEvidence
      /\ unlock \in Unlock /\ unlock.todo \in Seq(Rows) /\ unlock.todo \in Seq(Nat)
      /\ unlock.role # "unlocking" => unlock.todo = <<>> /\ decrypting[Observer].row = 0
      /\ overlapped \subseteq Rows /\ requests \in 0 .. MaxRequests
      /\ decrypting \in [Clients -> Decryption] /\ decrypted \subseteq Rows
  BY DEF IAuditing, AuditingTypeOK, Unlock
<1>1. ASSUME NEW c \in Clients, NEW e \in Rows, NEW brought \in Data \cup {"none"},
             api_decrypt(c, e, brought)
      PROVE  IAuditing' /\ Salted'
  <2>1. decrypt(c, e, brought) /\ c # Observer /\ UNCHANGED unlock /\ requests' \in 0 .. MaxRequests
    BY <1>1, AsksTyped DEF api_decrypt
  <2>2. decrypting'[Observer] = decrypting[Observer]
    BY <2>1, DecryptKeeps, AuditingAssumption
  <2>3. /\ evidence' \in Seq(Evidence) /\ Len(evidence') = Len(evidence) /\ Rows' = Rows
        /\ decrypting' \in [Clients -> Decryption]
        /\ decrypted' \subseteq Rows /\ overlapped' \subseteq Rows /\ Salted'
    BY <2>1, DecryptKeeps
  <2>4. Decryption' = Decryption
    BY <2>3 DEF Decryption
  <2>. QED  BY <1>0, <2>1, <2>2, <2>3, <2>4 DEF IAuditing, AuditingTypeOK, Unlock
<1>2. ASSUME NEW c \in Clients, NEW found \in BOOLEAN, hydrate(c, found), UNCHANGED <<unlock, requests>>
      PROVE  IAuditing' /\ Salted'
  <2>1. /\ evidence' \in Seq(Evidence) /\ Len(evidence') = Len(evidence) /\ Rows' = Rows
        /\ decrypting' \in [Clients -> Decryption]
        /\ decrypted' \subseteq Rows /\ UNCHANGED overlapped /\ Salted'
    BY <1>2, HydrateKeeps
  <2>2. decrypting[Observer].row = 0 => decrypting'[Observer].row = 0
    BY <1>2, HydrateKeeps, AuditingAssumption
  <2>3. Decryption' = Decryption
    BY <2>1 DEF Decryption
  <2>. QED  BY <1>0, <1>2, <2>1, <2>2, <2>3 DEF IAuditing, AuditingTypeOK, Unlock
<1>3. CASE startUnlock
  <2>1. /\ UNCHANGED <<evidence, decrypting, decrypted, overlapped>> /\ asks
        /\ \E todo \in {<<>>, Newest("draw") \o Newest("repayment")} :
             unlock' = [role |-> "unlocking", todo |-> todo]
    BY <1>3 DEF startUnlock
  <2>2. \A todo \in {<<>>, Newest("draw") \o Newest("repayment")} :
          todo \in Seq(Rows) /\ todo \in Seq(Nat)
    <3>1. /\ Newest("draw") \in Seq(Rows) /\ Newest("repayment") \in Seq(Rows)
      <4>1. <<>> \in Seq(Rows) /\ \A e \in Rows : <<e>> \in Seq(Rows)
        OBVIOUS
      <4>. QED  BY <4>1, NewestIsRow DEF Direction
    <3>2. Newest("draw") \o Newest("repayment") \in Seq(Rows)
      BY <3>1
    <3>3. Rows \subseteq Nat
      BY <1>0 DEF Rows
    <3>4. <<>> \in Seq(Rows)
      OBVIOUS
    <3>5. \A s \in Seq(Rows) : s \in Seq(Nat)
      BY <3>3, SeqOfMore
    <3>. QED  BY <3>2, <3>4, <3>5
  <2>3. unlock'.role = "unlocking" /\ unlock'.todo \in Seq(Rows) /\ unlock' \in Unlock
    <3>1. PICK todo : /\ unlock' = [role |-> "unlocking", todo |-> todo]
                      /\ todo \in Seq(Rows) /\ todo \in Seq(Nat)
      BY <2>1, <2>2
    <3>. QED  BY <3>1 DEF Unlock
  <2>4. Rows' = Rows /\ requests' \in 0 .. MaxRequests
    BY <2>1, AsksTyped DEF Rows
  <2>5. IAuditing'
    BY <1>0, <2>1, <2>3, <2>4 DEF IAuditing, AuditingTypeOK, Decryption
  <2>. QED  BY <2>1, <2>4, <2>5 DEF Salted, Tells, readable
<1>4. CASE unlock_next
  <2>1. /\ decrypt(Observer, Head(unlock.todo), "none") /\ unlock.todo # <<>>
        /\ unlock' = [unlock EXCEPT !.todo = Tail(unlock.todo)] /\ UNCHANGED requests
    BY <1>4 DEF unlock_next
  <2>2. /\ Head(unlock.todo) \in Rows /\ Tail(unlock.todo) \in Seq(Rows)
        /\ Tail(unlock.todo) \in Seq(Nat)
    BY <1>0, <2>1
  <2>3. unlock' \in Unlock /\ unlock'.role = unlock.role /\ unlock'.todo = Tail(unlock.todo)
    BY <1>0, <2>1, <2>2 DEF Unlock
  <2>4. unlock.role = "unlocking"
    BY <1>0, <2>1
  <2>5. /\ evidence' \in Seq(Evidence) /\ Len(evidence') = Len(evidence) /\ Rows' = Rows
        /\ decrypting' \in [Clients -> Decryption]
        /\ decrypted' \subseteq Rows /\ overlapped' \subseteq Rows /\ Salted'
    <3>1. PICK e \in Rows : e = Head(unlock.todo)
      BY <2>2
    <3>2. decrypt(Observer, e, "none")
      BY <2>1, <3>1
    <3>. QED  BY <3>2, DecryptKeeps, AuditingAssumption
  <2>6. Decryption' = Decryption
    BY <2>5 DEF Decryption
  <2>. QED  BY <1>0, <2>1, <2>2, <2>3, <2>4, <2>5, <2>6 DEF IAuditing, AuditingTypeOK
<1>5. CASE unlock_done \/ lock_again
  <2>1. /\ UNCHANGED <<evidence, decrypting, decrypted, overlapped, requests>>
        /\ \E role \in {"public", "auditor"} : unlock' = [unlock EXCEPT !.role = role]
        /\ unlock.todo = <<>> /\ decrypting[Observer].row = 0
    BY <1>0, <1>5 DEF unlock_done, lock_again, all_tried
  <2>2. unlock' \in Unlock /\ unlock'.todo = unlock.todo
    BY <1>0, <2>1 DEF Unlock
  <2>3. unlock'.role \in {"public", "unlocking", "auditor"} /\ Rows' = Rows
    BY <2>1, <2>2 DEF Unlock, Rows
  <2>4. IAuditing'
    BY <1>0, <2>1, <2>2, <2>3 DEF IAuditing, AuditingTypeOK, Decryption
  <2>. QED  BY <2>1, <2>3, <2>4 DEF Salted, Tells, readable
<1>. QED  BY <1>1, <1>2, <1>3, <1>4, <1>5, RecordKeeps, AuditingAssumption
          DEF AuditingStep, api_hydrate, unlock_hydrate

-------------------------------------------------------------------------------
(* Disclosure: types, calls in flight, what is claimed and what is revoked.*)

DisclosureTyped ==
  /\ ledger \in 1 .. MaxLedger
  /\ proven \subseteq Positions /\ strayed \in BOOLEAN
  /\ registry \in [Grants -> Grant \cup {None}]
  /\ flow \in FlowState
  /\ goodState \in Nat \cup {None}
  /\ bundles \in [Grants -> Bundle \cup {None}]
  /\ queue \in Seq(Call) /\ late \subseteq Call
  /\ observer \in ObserverPage
  /\ viewer \in ViewerPage
  /\ links \subseteq Grants /\ disturbed \subseteq Grants /\ withdrawn \subseteq Grants
  /\ mishaps \in 0 .. MaxMishaps

\* Calls are about grants that have their row.
CallsKnown ==
  /\ \A i \in DOMAIN queue : bundles[queue[i].grantId] # None
  /\ \A c \in late : bundles[c.grantId] # None

FlowTrue(f) == f.historyProof # None => strayed \/ f.positionId \in proven
ClaimTrue(b) == b.claims # None => strayed \/ b.claims \in proven

\* A claim is true where it is read, in the row it is kept in and where it is shown,
\* until a request to the flow goes astray.
ClaimsTrue ==
  /\ FlowTrue(flow)
  /\ observer.flow # None => FlowTrue(observer.flow)
  /\ \A g \in Grants : bundles[g] # None => ClaimTrue(bundles[g])
  /\ viewer.bundle # None => ClaimTrue(viewer.bundle)

\* A row is marked before its revocation is answered, and so is what is read later.
RevokedMarked ==
  /\ \A g \in withdrawn : bundles[g] # None /\ bundles[g].revoked
  /\ viewer.withdrawn => viewer.grantId \in withdrawn
  /\ viewer.withdrawn /\ viewer.bundle # None => viewer.bundle.revoked
  /\ viewer.status = "verified" => viewer.bundle # None /\ ~viewer.bundle.revoked

IDisclosure == DisclosureTyped /\ CallsKnown /\ ClaimsTrue /\ RevokedMarked

\* The queue of calls: one more, one answered, one gone.
LEMMA QueueGrows ==
  ASSUME NEW q \in Seq(Call), NEW c \in Call
  PROVE  /\ Append(q, c) \in Seq(Call)
         /\ \A i \in DOMAIN Append(q, c) :
              Append(q, c)[i] = c \/ \E j \in DOMAIN q : Append(q, c)[i] = q[j]
<1>1. /\ Append(q, c) \in Seq(Call) /\ Len(Append(q, c)) = Len(q) + 1 /\ Len(q) \in Nat
      /\ DOMAIN q = 1 .. Len(q) /\ DOMAIN Append(q, c) = 1 .. Len(q) + 1
  OBVIOUS
<1>2. ASSUME NEW i \in DOMAIN Append(q, c)
      PROVE  Append(q, c)[i] = c \/ \E j \in DOMAIN q : Append(q, c)[i] = q[j]
  <2>1. CASE i = Len(q) + 1
    BY <2>1
  <2>2. CASE i # Len(q) + 1
    <3>1. i \in DOMAIN q
      BY <1>1, <1>2, <2>2
    <3>2. Append(q, c)[i] = q[i]
      BY <3>1
    <3>. QED  BY <3>1, <3>2
  <2>. QED  BY <2>1, <2>2
<1>. QED  BY <1>1, <1>2

LEMMA QueueShrinks ==
  ASSUME NEW q \in Seq(Call), q # <<>>
  PROVE  /\ Head(q) \in Call /\ Head(q) = q[1] /\ 1 \in DOMAIN q
         /\ Tail(q) \in Seq(Call)
         /\ \A i \in DOMAIN Tail(q) : \E j \in DOMAIN q : Tail(q)[i] = q[j]
<1>1. /\ Tail(q) \in Seq(Call) /\ Len(Tail(q)) = Len(q) - 1 /\ Len(q) \in Nat \ {0}
      /\ DOMAIN q = 1 .. Len(q) /\ DOMAIN Tail(q) = 1 .. Len(q) - 1
      /\ Head(q) \in Call /\ Head(q) = q[1] /\ 1 \in DOMAIN q
  OBVIOUS
<1>2. ASSUME NEW i \in DOMAIN Tail(q)
      PROVE  \E j \in DOMAIN q : Tail(q)[i] = q[j]
  <2>1. i + 1 \in DOMAIN q /\ Tail(q)[i] = q[i + 1]
    BY <1>1, <1>2
  <2>. QED  BY <2>1
<1>. QED  BY <1>1, <1>2

LEMMA QueueAnswered ==
  ASSUME NEW q \in Seq(Call), q # <<>>, NEW c \in Call, c.grantId = q[1].grantId
  PROVE  /\ [q EXCEPT ![1] = c] \in Seq(Call)
         /\ \A i \in DOMAIN [q EXCEPT ![1] = c] :
              i \in DOMAIN q /\ [q EXCEPT ![1] = c][i].grantId = q[i].grantId
<1>. DEFINE p == [q EXCEPT ![1] = c]
<1>1. p \in Seq(Call) /\ DOMAIN p = DOMAIN q /\ p[1] = c /\ \A i \in DOMAIN q \ {1} : p[i] = q[i]
  BY QueueShrinks
<1>. QED
  <2>. HIDE DEF p
  <2>1. p \in Seq(Call) /\ \A i \in DOMAIN p : i \in DOMAIN q /\ p[i].grantId = q[i].grantId
    BY <1>1
  <2>. QED  BY <2>1 DEF p

\* A row that is marked keeps its claim and stays a row.
LEMMA BundleMarked ==
  ASSUME NEW b \in Bundle, NEW x \in BOOLEAN
  PROVE  /\ [b EXCEPT !.onChainTx = x] \in Bundle /\ [b EXCEPT !.onChainTx = x].claims = b.claims
         /\ [b EXCEPT !.onChainTx = x].revoked = b.revoked
         /\ [b EXCEPT !.revoked = TRUE] \in Bundle /\ [b EXCEPT !.revoked = TRUE].claims = b.claims
         /\ [b EXCEPT !.revoked = TRUE].revoked
  BY DEF Bundle

LEMMA DisclosureInitial == Init => IDisclosure
<1>. SUFFICES ASSUME Init PROVE IDisclosure
  OBVIOUS
<1>1. DisclosureTyped
  <2>1. /\ flow \in FlowState /\ observer \in ObserverPage
    BY DEF Init, View!Init, View!Blank, FlowState, ObserverPage, NewObserver
  <2>2. viewer \in ViewerPage
    BY DEF Init, ViewerPage, NoViewer
  <2>3. proven \subseteq Positions /\ strayed \in BOOLEAN
    BY DEF Init, View!Init
  <2>. QED  BY <2>1, <2>2, <2>3, DisclosureAssumption DEF Init, DisclosureTyped
<1>2. CallsKnown
  BY DEF Init, CallsKnown
<1>3. ClaimsTrue
  BY DEF Init, View!Init, View!Blank, ClaimsTrue, FlowTrue, NewObserver, NoViewer
<1>4. RevokedMarked
  BY DEF Init, RevokedMarked, NoViewer
<1>. QED  BY <1>1, <1>2, <1>3, <1>4 DEF IDisclosure

\* The chain goes on, and the observer page reads.
LEMMA ReadsKeep ==
  ASSUME IDisclosure,
         CloseLedger \/ flow_goes_on \/ visit \/ demo_state_live \/ demo_state_cached \/ loadFlow
  PROVE  IDisclosure'
<1>. USE DEF IDisclosure
<1>1. UNCHANGED <<registry, bundles, queue, late, links, viewer, disturbed, withdrawn, mishaps>>
  BY DEF CloseLedger, flow_goes_on, visit, demo_state_live, demo_state_cached, loadFlow
<1>2. RevokedMarked' /\ CallsKnown'
  BY <1>1 DEF RevokedMarked, CallsKnown
<1>3. Latest \subseteq Nat
  BY DisclosureAssumption DEF Latest, DisclosureTyped
<1>4. CASE CloseLedger
  <2>1. ledger' \in 1 .. MaxLedger /\ UNCHANGED <<proven, flow, strayed, goodState, observer>>
    BY <1>4, DisclosureAssumption DEF CloseLedger, DisclosureTyped
  <2>. QED  BY <1>1, <1>2, <2>1 DEF DisclosureTyped, ClaimsTrue, FlowTrue, ClaimTrue
<1>5. CASE flow_goes_on
  <2>1. UNCHANGED <<ledger, goodState, observer>> /\ View!Next
    BY <1>5 DEF flow_goes_on, View!Next
  <2>2. CASE View!Verify
    <3>1. PICK p \in Positions : proven' = proven \cup {p}
      BY <2>2 DEF View!Verify
    <3>2. UNCHANGED <<flow, strayed>>
      BY <2>2 DEF View!Verify
    <3>. QED  BY <1>1, <1>2, <2>1, <3>1, <3>2 DEF DisclosureTyped, ClaimsTrue, FlowTrue, ClaimTrue
  <2>3. CASE View!Show
    <3>1. PICK s \in View!Shown : View!Showable(s) /\ flow' = s
      BY <2>3 DEF View!Show
    <3>2. UNCHANGED <<proven, strayed>>
      BY <2>3 DEF View!Show
    <3>3. flow' \in FlowState /\ FlowTrue(flow)'
      BY <3>1, <3>2 DEF View!Shown, View!Showable, FlowState, FlowTrue
    <3>. QED  BY <1>1, <1>2, <2>1, <3>2, <3>3 DEF DisclosureTyped, ClaimsTrue, FlowTrue, ClaimTrue
  <2>4. CASE View!Stray
    <3>1. strayed' = TRUE /\ UNCHANGED <<flow, proven>>
      BY <2>4 DEF View!Stray
    <3>. QED  BY <1>1, <1>2, <2>1, <3>1 DEF DisclosureTyped, ClaimsTrue, FlowTrue, ClaimTrue
  <2>. QED  BY <2>1, <2>2, <2>3, <2>4 DEF View!Next
<1>6. CASE visit \/ demo_state_live \/ demo_state_cached \/ loadFlow
  <2>1. UNCHANGED <<ledger, proven, flow, strayed>>
    BY <1>6 DEF visit, demo_state_live, demo_state_cached, loadFlow
  <2>2. goodState' \in Nat \cup {None}
    BY <1>3, <1>6 DEF visit, demo_state_live, demo_state_cached, loadFlow, DisclosureTyped
  <2>3. /\ observer' \in ObserverPage
        /\ observer'.flow \in {None, observer.flow, flow}
    <3>1. CASE visit
      BY <3>1 DEF visit, NewObserver, ObserverPage
    <3>2. CASE demo_state_live \/ demo_state_cached
      BY <1>3, <3>2 DEF demo_state_live, demo_state_cached, DisclosureTyped, ObserverPage
    <3>3. CASE loadFlow
      BY <3>3 DEF loadFlow, DisclosureTyped, ObserverPage
    <3>. QED  BY <1>6, <3>1, <3>2, <3>3
  <2>. QED  BY <1>1, <1>2, <2>1, <2>2, <2>3 DEF DisclosureTyped, ClaimsTrue, FlowTrue, ClaimTrue
<1>. QED  BY <1>4, <1>5, <1>6

\* The chain includes a call, refuses it or forgets it.
LEMMA EffectTyped ==
  ASSUME IDisclosure, NEW c \in Call, bundles[c.grantId] # None, take_effect(c)
  PROVE  registry' \in [Grants -> Grant \cup {None}]
<1>1. c.grantId \in Grants /\ bundles[c.grantId] \in Bundle
  BY DEF Call, IDisclosure, DisclosureTyped
<1>2. bundles[c.grantId].expiresAtLedger \in Nat
  BY <1>1 DEF Bundle
<1>3. CASE c.call = "create_grant"
  <2>1. [expires_at_ledger |-> bundles[c.grantId].expiresAtLedger, revoked |-> FALSE] \in Grant
    BY <1>2 DEF Grant
  <2>. QED  BY <1>1, <1>3, <2>1 DEF take_effect, create_grant, IDisclosure, DisclosureTyped
<1>4. CASE c.call # "create_grant"
  <2>1. registry[c.grantId] \in Grant
    BY <1>1, <1>4 DEF take_effect, revoke_grant, IDisclosure, DisclosureTyped
  <2>2. \A g \in Grant : [g EXCEPT !.revoked = TRUE] \in Grant
    BY DEF Grant
  <2>. QED  BY <1>1, <1>4, <2>1, <2>2 DEF take_effect, revoke_grant, IDisclosure, DisclosureTyped
<1>. QED  BY <1>3, <1>4

LEMMA ChainKeeps ==
  ASSUME IDisclosure,
         operator_tx \/ operator_tx_fails \/ \E c \in late : land_late(c) \/ expire(c)
  PROVE  IDisclosure'
<1>. USE DEF IDisclosure
<1>1. UNCHANGED <<ledger, proven, flow, strayed, goodState, bundles, observer, links, viewer,
                  withdrawn>>
  BY DEF operator_tx, operator_tx_fails, land_late, expire
<1>2. ClaimsTrue' /\ RevokedMarked'
  BY <1>1 DEF ClaimsTrue, FlowTrue, ClaimTrue, RevokedMarked
<1>3. CASE \E c \in late : land_late(c) \/ expire(c)
  <2>1. late' \subseteq late /\ UNCHANGED <<queue, disturbed, mishaps>>
    BY <1>3 DEF land_late, expire
  <2>2. registry' \in [Grants -> Grant \cup {None}]
    <3>1. PICK c \in late : land_late(c) \/ expire(c)
      BY <1>3
    <3>2. c \in Call /\ bundles[c.grantId] # None
      BY <3>1 DEF DisclosureTyped, CallsKnown
    <3>. QED  BY <3>1, <3>2, EffectTyped DEF land_late, expire, DisclosureTyped
  <2>. QED  BY <1>1, <1>2, <2>1, <2>2 DEF DisclosureTyped, CallsKnown
<1>4. CASE operator_tx \/ operator_tx_fails
  <2>1. queue # <<>> /\ queue \in Seq(Call)
    BY <1>4 DEF operator_tx, operator_tx_fails, DisclosureTyped
  <2>2. Head(queue) \in Call /\ bundles[Head(queue).grantId] # None
    BY <2>1, QueueShrinks DEF CallsKnown
  <2>3. PICK at \in {"succeeded", "failed"} : queue' = [queue EXCEPT ![1].at = at]
    BY <1>4 DEF operator_tx, operator_tx_fails
  <2>4. /\ queue' \in Seq(Call)
        /\ \A i \in DOMAIN queue' : i \in DOMAIN queue /\ queue'[i].grantId = queue[i].grantId
    <3>. DEFINE c == [queue[1] EXCEPT !.at = at]
    <3>1. queue' = [queue EXCEPT ![1] = c]
      BY <2>1, <2>3
    <3>2. c \in Call /\ c.grantId = queue[1].grantId
      <4>1. queue[1] \in Call
        BY <2>1, QueueShrinks
      <4>2. \A d \in Call : [d EXCEPT !.at = at] \in Call /\ [d EXCEPT !.at = at].grantId = d.grantId
        BY DEF Call
      <4>. QED  BY <4>1, <4>2
    <3>. HIDE DEF c
    <3>3. /\ [queue EXCEPT ![1] = c] \in Seq(Call)
          /\ \A i \in DOMAIN [queue EXCEPT ![1] = c] :
               i \in DOMAIN queue /\ [queue EXCEPT ![1] = c][i].grantId = queue[i].grantId
      BY <2>1, <3>2, QueueAnswered
    <3>. QED  BY <3>1, <3>3
  <2>5. late' \subseteq late \cup {Head(queue)}
    BY <1>4 DEF operator_tx, operator_tx_fails
  <2>6. CallsKnown'
    BY <1>1, <2>2, <2>4, <2>5 DEF CallsKnown
  <2>7. late' \subseteq Call
    BY <2>2, <2>5 DEF DisclosureTyped
  <2>8. registry' \in [Grants -> Grant \cup {None}]
    BY <1>4, <2>2, EffectTyped DEF operator_tx, operator_tx_fails, DisclosureTyped
  <2>9. disturbed' \subseteq Grants /\ mishaps' \in 0 .. MaxMishaps
    BY <1>4, <2>2, DisclosureAssumption DEF operator_tx, operator_tx_fails, DisclosureTyped, Call
  <2>. QED  BY <1>1, <1>2, <2>4, <2>6, <2>7, <2>8, <2>9 DEF DisclosureTyped
<1>. QED  BY <1>3, <1>4

\* A call is answered, or the process dies.
LEMMA AnswersKeep ==
  ASSUME IDisclosure, create_answered \/ revoke_answered \/ crash
  PROVE  IDisclosure'
<1>. USE DEF IDisclosure
<1>1. UNCHANGED <<ledger, proven, registry, flow, strayed, goodState, viewer>>
  BY DEF create_answered, revoke_answered, crash
<1>2. CASE create_answered \/ revoke_answered
  <2>1. queue # <<>> /\ queue \in Seq(Call) /\ queue' = Tail(queue)
    BY <1>2 DEF create_answered, revoke_answered, DisclosureTyped
  <2>. DEFINE g == Head(queue).grantId
  <2>2. /\ g \in Grants /\ bundles[g] \in Bundle /\ bundles[g] # None
    <3>1. Head(queue) \in Call /\ bundles[g] # None
      BY <2>1, QueueShrinks DEF CallsKnown
    <3>. QED  BY <3>1 DEF DisclosureTyped, Call
  <2>3. /\ queue' \in Seq(Call)
        /\ \A i \in DOMAIN queue' : \E j \in DOMAIN queue : queue'[i] = queue[j]
    BY <2>1, QueueShrinks
  <2>4. UNCHANGED <<late, disturbed, mishaps>>
    BY <1>2 DEF create_answered, revoke_answered
  <2>5. PICK b \in Bundle :
          /\ bundles' = [bundles EXCEPT ![g] = b]
          /\ b.claims = bundles[g].claims
          /\ bundles[g].revoked => b.revoked
          /\ revoke_answered => b.revoked
    <3>1. CASE create_answered
      <4>1. PICK x \in BOOLEAN : bundles' = [bundles EXCEPT ![g] = [bundles[g] EXCEPT !.onChainTx = x]]
        BY <3>1 DEF create_answered
      <4>2. ~revoke_answered
        BY <3>1 DEF create_answered, revoke_answered
      <4>. QED  BY <2>2, <4>1, <4>2, BundleMarked
    <3>2. CASE revoke_answered
      <4>1. bundles' = [bundles EXCEPT ![g] = [bundles[g] EXCEPT !.revoked = TRUE]]
        BY <3>2 DEF revoke_answered, marked
      <4>. QED  BY <2>2, <4>1, BundleMarked
    <3>. QED  BY <1>2, <3>1, <3>2
  <2>. HIDE DEF g
  <2>6. /\ bundles' \in [Grants -> Bundle \cup {None}]
        /\ bundles'[g] = b
        /\ \A h \in Grants \ {g} : bundles'[h] = bundles[h]
    BY <2>2, <2>5 DEF DisclosureTyped
  <2>7. \A h \in Grants : bundles[h] # None => bundles'[h] # None
    BY <2>5, <2>6, NoneIsNoRow
  <2>8. CallsKnown'
    <3>1. /\ \A i \in DOMAIN queue : queue[i].grantId \in Grants /\ bundles[queue[i].grantId] # None
          /\ \A c \in late : c.grantId \in Grants /\ bundles[c.grantId] # None
      <4>1. \A c \in Call : c.grantId \in Grants
        BY DEF Call
      <4>2. \A i \in DOMAIN queue : queue[i] \in Call
        BY <2>1
      <4>. QED  BY <4>1, <4>2 DEF CallsKnown, DisclosureTyped
    <3>. QED  BY <2>3, <2>4, <2>7, <3>1 DEF CallsKnown
  <2>9. ClaimsTrue'
    <3>1. ASSUME NEW h \in Grants, bundles'[h] # None
          PROVE  bundles'[h].claims # None => strayed \/ bundles'[h].claims \in proven
      BY <2>2, <2>5, <2>6, <3>1 DEF ClaimsTrue, ClaimTrue
    <3>2. observer'.flow = observer.flow
      BY <1>2 DEF create_answered, revoke_answered, DisclosureTyped, ObserverPage
    <3>. QED  BY <1>1, <3>1, <3>2 DEF ClaimsTrue, ClaimTrue, FlowTrue
  <2>10. RevokedMarked'
    <3>1. withdrawn' \subseteq Grants /\ withdrawn \subseteq withdrawn'
      BY <1>2, <2>2 DEF create_answered, revoke_answered, DisclosureTyped, g
    <3>2. g \in withdrawn' => b.revoked
      <4>1. CASE revoke_answered
        BY <2>5, <4>1
      <4>2. CASE create_answered
        BY <2>5, <4>2 DEF create_answered, RevokedMarked
      <4>. QED  BY <1>2, <4>1, <4>2
    <3>3. \A h \in withdrawn' \ {g} : h \in withdrawn
      BY <1>2 DEF create_answered, revoke_answered, g
    <3>4. \A h \in withdrawn' : bundles'[h] # None /\ bundles'[h].revoked
      BY <2>5, <2>6, <3>1, <3>2, <3>3, NoneIsNoRow DEF RevokedMarked
    <3>. QED  BY <1>1, <3>1, <3>4 DEF RevokedMarked
  <2>11. observer' \in ObserverPage /\ links' \subseteq Grants /\ withdrawn' \subseteq Grants
    <3>1. observer' \in ObserverPage
      BY <1>2 DEF create_answered, revoke_answered, DisclosureTyped, ObserverPage
    <3>. QED  BY <1>2, <2>2, <3>1 DEF create_answered, revoke_answered, DisclosureTyped, g
  <2>. QED  BY <1>1, <2>3, <2>4, <2>6, <2>8, <2>9, <2>10, <2>11 DEF DisclosureTyped
<1>3. CASE crash
  <2>1. UNCHANGED <<bundles, links, withdrawn>> /\ queue' = <<>>
    BY <1>3 DEF crash
  <2>2. observer' \in ObserverPage /\ observer'.flow = observer.flow
    BY <1>3 DEF crash, DisclosureTyped, ObserverPage
  <2>3. late' \subseteq Call /\ \A c \in late' : bundles[c.grantId] # None
    <3>1. queue # <<>> => Head(queue) \in Call /\ bundles[Head(queue).grantId] # None
      BY QueueShrinks DEF DisclosureTyped, CallsKnown
    <3>. QED  BY <1>3, <3>1 DEF crash, DisclosureTyped, CallsKnown
  <2>4. disturbed' \subseteq Grants
    <3>1. \A i \in DOMAIN queue : queue[i].grantId \in Grants
      <4>1. \A i \in DOMAIN queue : queue[i] \in Call
        BY DEF DisclosureTyped
      <4>. QED  BY <4>1 DEF Call
    <3>. QED  BY <1>3, <3>1 DEF crash, DisclosureTyped
  <2>5. mishaps' \in 0 .. MaxMishaps
    BY <1>3, DisclosureAssumption DEF crash, DisclosureTyped
  <2>6. <<>> \in Seq(Call) /\ DOMAIN <<>> = {}
    OBVIOUS
  <2>. QED  BY <1>1, <2>1, <2>2, <2>3, <2>4, <2>5, <2>6
            DEF DisclosureTyped, CallsKnown, ClaimsTrue, ClaimTrue, FlowTrue, RevokedMarked
<1>. QED  BY <1>2, <1>3

\* A row is made for a grant, and its call waits if it is for the chain.
LEMMA CreateKeeps ==
  ASSUME IDisclosure, NEW g \in Grants, NEW claims \in Positions \cup {None},
         NEW expires \in Nat, NEW told \in Nat \cup {None}, NEW submitOnChain \in BOOLEAN,
         claims # None => strayed \/ claims \in proven,
         createDisclosureGrant(g, claims, expires, told, submitOnChain),
         UNCHANGED <<ledger, proven, registry, flow, strayed, goodState, late, viewer,
                     disturbed, withdrawn, mishaps>>,
         observer' \in ObserverPage, observer'.flow = observer.flow,
         links' \subseteq Grants
  PROVE  IDisclosure'
<1>. USE DEF IDisclosure
<1>. DEFINE b == [claims |-> claims, told |-> told, expiresAtLedger |-> expires,
                  onChainTx |-> FALSE, revoked |-> FALSE]
<1>1. b \in Bundle /\ b.claims = claims
  BY DEF Bundle
<1>2. bundles[g] = None /\ bundles' = [bundles EXCEPT ![g] = b]
  BY DEF createDisclosureGrant
<1>3. call("create_grant", g) \in Call /\ call("create_grant", g).grantId = g
  BY DEF call, Call
<1>4. /\ queue' \in Seq(Call)
      /\ \A i \in DOMAIN queue' :
           queue'[i].grantId = g \/ \E j \in DOMAIN queue : queue'[i] = queue[j]
  <2>1. CASE submitOnChain
    BY <1>3, <2>1, QueueGrows DEF createDisclosureGrant, DisclosureTyped
  <2>2. CASE ~submitOnChain
    BY <2>2 DEF createDisclosureGrant, DisclosureTyped
  <2>. QED  BY <2>1, <2>2
<1>. HIDE DEF b
<1>5. /\ bundles' \in [Grants -> Bundle \cup {None}]
      /\ bundles'[g] = b
      /\ \A h \in Grants \ {g} : bundles'[h] = bundles[h]
  BY <1>1, <1>2 DEF DisclosureTyped
<1>6. b # None
  BY <1>1, NoneIsNoRow
<1>7. CallsKnown'
  <2>1. /\ \A i \in DOMAIN queue : queue[i].grantId \in Grants /\ bundles[queue[i].grantId] # None
        /\ \A c \in late : c.grantId \in Grants /\ bundles[c.grantId] # None
    <3>1. \A c \in Call : c.grantId \in Grants
      BY DEF Call
    <3>2. \A i \in DOMAIN queue : queue[i] \in Call
      BY DEF DisclosureTyped
    <3>. QED  BY <3>1, <3>2 DEF CallsKnown, DisclosureTyped
  <2>2. \A h \in Grants : bundles[h] # None => bundles'[h] # None
    BY <1>2, <1>5
  <2>. QED  BY <1>4, <1>5, <1>6, <2>1, <2>2 DEF CallsKnown
<1>8. ClaimsTrue'
  <2>1. \A h \in Grants : bundles'[h] # None => ClaimTrue(bundles'[h])
    BY <1>1, <1>5 DEF ClaimsTrue, ClaimTrue
  <2>. QED  BY <2>1 DEF ClaimsTrue, ClaimTrue, FlowTrue
<1>9. RevokedMarked'
  <2>1. g \notin withdrawn
    BY <1>2 DEF RevokedMarked
  <2>. QED  BY <1>5, <2>1 DEF RevokedMarked, DisclosureTyped
<1>. QED  BY <1>4, <1>5, <1>7, <1>8, <1>9 DEF DisclosureTyped

\* Clients make and revoke grants.
LEMMA RequestsKeep ==
  ASSUME IDisclosure, NEW g \in Grants,
         \/ \E submitOnChain \in BOOLEAN : other_client_creates(g, submitOnChain)
         \/ revokeDisclosureGrant(g)
         \/ createDisclosure(g)
  PROVE  IDisclosure'
<1>1. CASE \E submitOnChain \in BOOLEAN : other_client_creates(g, submitOnChain)
  <2>1. PICK submitOnChain \in BOOLEAN : other_client_creates(g, submitOnChain)
    BY <1>1
  <2>2. ledger + Lifetime \in Nat
    BY DisclosureAssumption DEF IDisclosure, DisclosureTyped
  <2>3. links' \subseteq Grants /\ observer' \in ObserverPage /\ observer' = observer
    BY <2>1 DEF other_client_creates, IDisclosure, DisclosureTyped
  <2>4. /\ createDisclosureGrant(g, None, ledger + Lifetime, None, submitOnChain)
        /\ UNCHANGED <<ledger, proven, registry, flow, strayed, goodState, late, viewer,
                       disturbed, withdrawn, mishaps>>
    BY <2>1 DEF other_client_creates
  <2>. QED  BY <2>2, <2>3, <2>4, CreateKeeps
<1>2. CASE revokeDisclosureGrant(g)
  <2>1. /\ bundles[g] # None /\ queue' = Append(queue, call("revoke_grant", g))
        /\ UNCHANGED <<ledger, proven, registry, flow, strayed, goodState, bundles, late,
                       observer, links, viewer, disturbed, withdrawn, mishaps>>
    BY <1>2 DEF revokeDisclosureGrant
  <2>2. call("revoke_grant", g) \in Call /\ call("revoke_grant", g).grantId = g
    BY DEF call, Call
  <2>3. /\ queue' \in Seq(Call)
        /\ \A i \in DOMAIN queue' :
             queue'[i].grantId = g \/ \E j \in DOMAIN queue : queue'[i] = queue[j]
    BY <2>1, <2>2, QueueGrows DEF IDisclosure, DisclosureTyped
  <2>. QED  BY <2>1, <2>3 DEF IDisclosure, DisclosureTyped, CallsKnown, ClaimsTrue, ClaimTrue,
                              FlowTrue, RevokedMarked
<1>3. CASE createDisclosure(g)
  <2>1. /\ createDisclosureGrant(g, observer.flow.positionId, expiresAtLedger,
                                observer.latestLedger, TRUE)
        /\ UNCHANGED <<ledger, proven, registry, flow, strayed, goodState, late, links,
                       viewer, disturbed, withdrawn, mishaps>>
        /\ observer.flow # None /\ disclosable(observer.flow)
    BY <1>3 DEF createDisclosure
  <2>2. observer \in ObserverPage /\ links \subseteq Grants
    BY DEF IDisclosure, DisclosureTyped
  <2>3. observer' \in ObserverPage /\ observer'.flow = observer.flow
    BY <1>3, <2>2 DEF createDisclosure, ObserverPage
  <2>4. observer.latestLedger \in Nat \cup {None} /\ expiresAtLedger \in Nat
    BY <2>2, DisclosureAssumption DEF ObserverPage, expiresAtLedger
  <2>5. observer.flow.positionId \in Positions \cup {None}
    BY <2>1, <2>2 DEF ObserverPage, FlowState
  <2>6. strayed \/ observer.flow.positionId \in proven
    BY <2>1 DEF disclosable, IDisclosure, ClaimsTrue, FlowTrue
  <2>. QED  BY <2>1, <2>2, <2>3, <2>4, <2>5, <2>6, CreateKeeps
<1>. QED  BY <1>1, <1>2, <1>3

\* A viewer opens a link, and the page reads, verifies or fails.
LEMMA ViewerKeeps ==
  ASSUME IDisclosure, ViewerStep
  PROVE  IDisclosure'
<1>. USE DEF IDisclosure
<1>1. UNCHANGED <<ledger, proven, registry, flow, strayed, goodState, bundles, queue, late,
                  observer, links, disturbed, withdrawn, mishaps>>
  BY DEF ViewerStep, open_link, read_bundle, verify, verify_fails
<1>2. CallsKnown'
  BY <1>1 DEF CallsKnown
<1>3. SUFFICES
        /\ viewer' \in ViewerPage
        /\ viewer'.bundle # None => ClaimTrue(viewer'.bundle)
        /\ viewer'.withdrawn => viewer'.grantId \in withdrawn
        /\ viewer'.withdrawn /\ viewer'.bundle # None => viewer'.bundle.revoked
        /\ viewer'.status = "verified" => viewer'.bundle # None /\ ~viewer'.bundle.revoked
  BY <1>1, <1>2 DEF DisclosureTyped, ClaimsTrue, ClaimTrue, FlowTrue, RevokedMarked
<1>4. viewer \in ViewerPage /\ links \subseteq Grants
  BY DEF DisclosureTyped
<1>5. CASE \E g \in links, rightKey \in BOOLEAN : open_link(g, rightKey)
  <2>1. PICK g \in links, rightKey \in BOOLEAN : open_link(g, rightKey)
    BY <1>5
  <2>2. viewer' = [grantId |-> g, rightKey |-> rightKey, bundle |-> None, status |-> "checking",
                   withdrawn |-> g \in withdrawn, answered |-> FALSE]
    BY <2>1 DEF open_link, NoViewer
  <2>3. viewer' \in ViewerPage
    BY <1>4, <2>2 DEF ViewerPage
  <2>. QED  BY <2>2, <2>3
<1>6. CASE read_bundle
  <2>1. /\ viewer.grantId \in Grants /\ viewer.status = "checking"
        /\ viewer' = [viewer EXCEPT !.bundle = bundles[viewer.grantId]]
    BY <1>4, <1>6 DEF read_bundle, ViewerPage
  <2>2. bundles[viewer.grantId] \in Bundle \cup {None}
    BY <2>1 DEF DisclosureTyped
  <2>3. /\ viewer' \in ViewerPage /\ viewer'.bundle = bundles[viewer.grantId]
        /\ viewer'.withdrawn = viewer.withdrawn /\ viewer'.grantId = viewer.grantId
        /\ viewer'.status = viewer.status
    BY <1>4, <2>1, <2>2 DEF ViewerPage
  <2>. QED  BY <2>1, <2>3 DEF ClaimsTrue, RevokedMarked
<1>7. CASE verify \/ verify_fails
  <2>1. PICK answered \in BOOLEAN, status \in {"verified", "failed"} :
          /\ viewer' = [viewer EXCEPT !.answered = answered, !.status = status]
          /\ status = "verified" => viewer.bundle # None /\ ~viewer.bundle.revoked
    <3>1. CASE verify
      BY <3>1 DEF verify, verified
    <3>2. CASE verify_fails
      <4>1. viewer' = [viewer EXCEPT !.answered = viewer.answered, !.status = "failed"]
        BY <1>4, <3>2 DEF verify_fails, ViewerPage
      <4>2. viewer.answered \in BOOLEAN
        BY <1>4 DEF ViewerPage
      <4>. QED  BY <4>1, <4>2
    <3>. QED  BY <1>7, <3>1, <3>2
  <2>2. /\ viewer' \in ViewerPage /\ viewer'.bundle = viewer.bundle
        /\ viewer'.withdrawn = viewer.withdrawn /\ viewer'.grantId = viewer.grantId
        /\ viewer'.status = status
    BY <1>4, <2>1 DEF ViewerPage
  <2>. QED  BY <2>1, <2>2 DEF ClaimsTrue, RevokedMarked
<1>. QED  BY <1>5, <1>6, <1>7 DEF ViewerStep

-------------------------------------------------------------------------------
(* Both together.                                                          *)

IInv == IAuditing /\ Salted /\ IDisclosure

\* Nothing else touches the evidence, nor what was decrypted of it.
LEMMA OthersLeaveEvidence ==
  ASSUME IAuditing, Salted,
         UNCHANGED <<evidence, unlock, decrypted, overlapped>>,
         decrypting' \in {decrypting, [c \in Clients |-> NoDecryption]},
         UNCHANGED requests \/ asks
  PROVE  IAuditing' /\ Salted'
<1>1. Rows' = Rows /\ requests' \in 0 .. MaxRequests
  BY AsksTyped DEF Rows, IAuditing, AuditingTypeOK
<1>2. CASE decrypting' = decrypting
  BY <1>1, <1>2 DEF IAuditing, AuditingTypeOK, Salted, Decryption, Tells, readable
<1>3. CASE decrypting' = [c \in Clients |-> NoDecryption]
  <2>1. \A c \in Clients : decrypting'[c].row = 0
    BY <1>3 DEF NoDecryption
  <2>2. \A e \in Rows : e # 0
    BY DEF Rows, IAuditing, AuditingTypeOK
  <2>3. Salted'
    BY <1>1, <2>1, <2>2 DEF Salted, Tells, readable
  <2>4. decrypting' \in [Clients -> Decryption'] /\ Decryption' = Decryption
    BY <1>1, <1>3 DEF Decryption, NoDecryption, Data
  <2>. QED  BY <1>1, <2>1, <2>3, <2>4, AuditingAssumption DEF IAuditing, AuditingTypeOK
<1>. QED  BY <1>2, <1>3

LEMMA InitialInv == Init => IInv
  BY AuditingInitial, DisclosureInitial DEF Init, IInv

LEMMA StepKeepsInv == IInv /\ [Next]_vars => IInv'
<1>. SUFFICES ASSUME IInv, [Next]_vars PROVE IInv'
  OBVIOUS
<1>. USE DEF IInv
<1>1. CASE AuditingStep /\ UNCHANGED disclosureVars
  <2>1. IAuditing' /\ Salted'
    BY <1>1, AuditingKeeps
  <2>2. IDisclosure'
    BY <1>1 DEF disclosureVars, IDisclosure, DisclosureTyped, CallsKnown, ClaimsTrue, ClaimTrue,
                FlowTrue, RevokedMarked
  <2>. QED  BY <2>1, <2>2
<1>2. CASE CloseLedger \/ flow_goes_on \/ ObserverStep
  <2>1. IDisclosure'
    BY <1>2, ReadsKeep, RequestsKeep DEF ObserverStep
  <2>2. CASE visit
    <3>1. /\ UNCHANGED <<evidence, decrypting, decrypted, overlapped>> /\ asks
          /\ unlock' = [unlock EXCEPT !.role = "public"] /\ unlock.role # "unlocking"
      BY <2>2 DEF visit
    <3>2. unlock \in Unlock /\ unlock.todo = <<>> /\ decrypting[Observer].row = 0
      BY <3>1 DEF IAuditing, AuditingTypeOK
    <3>3. unlock' \in Unlock /\ unlock'.todo = unlock.todo /\ unlock'.role = "public"
      BY <3>1, <3>2 DEF Unlock
    <3>4. Rows' = Rows /\ requests' \in 0 .. MaxRequests
      BY <3>1, AsksTyped DEF Rows
    <3>5. IAuditing'
      BY <3>1, <3>2, <3>3, <3>4 DEF IAuditing, AuditingTypeOK, Decryption
    <3>6. Salted'
      BY <3>1, <3>4 DEF Salted, Tells, readable
    <3>. QED  BY <2>1, <3>5, <3>6
  <2>3. CASE ~visit
    <3>1. /\ UNCHANGED <<evidence, unlock, decrypted, overlapped, decrypting>>
          /\ UNCHANGED requests \/ asks
      BY <1>2, <2>3 DEF ObserverStep, CloseLedger, flow_goes_on, demo_state_live,
         demo_state_cached, loadFlow, createDisclosure, auditingVars
    <3>. QED  BY <2>1, <3>1, OthersLeaveEvidence
  <2>. QED  BY <2>2, <2>3
<1>3. CASE ViewerStep
  <2>1. /\ UNCHANGED <<evidence, unlock, decrypted, overlapped, decrypting>>
        /\ UNCHANGED requests \/ asks
    BY <1>3 DEF ViewerStep, open_link, read_bundle, verify, verify_fails, auditingVars
  <2>. QED  BY <1>3, <2>1, OthersLeaveEvidence, ViewerKeeps
<1>4. CASE ServiceStep
  <2>1. IDisclosure'
    BY <1>4, RequestsKeep, ChainKeeps, AnswersKeep DEF ServiceStep
  <2>2. CASE crash
    BY <2>1, <2>2, OthersLeaveEvidence DEF crash, decryptions_lost
  <2>3. CASE ~crash
    <3>1. /\ UNCHANGED <<evidence, unlock, decrypted, overlapped, decrypting>>
          /\ UNCHANGED requests \/ asks
      BY <1>4, <2>3 DEF ServiceStep, other_client_creates, revokeDisclosureGrant, operator_tx,
         operator_tx_fails, create_answered, revoke_answered, land_late, expire, auditingVars
    <3>. QED  BY <2>1, <3>1, OthersLeaveEvidence
  <2>. QED  BY <2>2, <2>3
<1>5. CASE UNCHANGED vars
  <2>1. UNCHANGED auditingVars /\ UNCHANGED disclosureVars
    BY <1>5 DEF vars
  <2>2. IDisclosure'
    BY <2>1 DEF disclosureVars, IDisclosure, DisclosureTyped, CallsKnown, ClaimsTrue, ClaimTrue,
                FlowTrue, RevokedMarked
  <2>3. IAuditing' /\ Salted'
    BY <2>1, OthersLeaveEvidence DEF auditingVars
  <2>. QED  BY <2>2, <2>3
<1>. QED  BY <1>1, <1>2, <1>3, <1>4, <1>5 DEF Next

LEMMA InvAlways == Spec => []IInv
<1>1. Init => IInv
  BY InitialInv
<1>2. IInv /\ [Next]_vars => IInv'
  BY StepKeepsInv
<1>. QED  BY <1>1, <1>2, PTL DEF Spec

-------------------------------------------------------------------------------
(* Chain and table, of a grant no transaction of which went wrong.         *)

IsCall(i, name, g) == queue[i].call = name /\ queue[i].grantId = g

\* Nothing given up on may still change it, and only the first call is at work.
NothingLate(g) == \A c \in late : c.grantId # g
OneAtWork == \A i \in DOMAIN queue : i # 1 => queue[i].at = "waiting"

\* Its creation is the first of its calls, and until it is answered the table
\* knows of no grant: the chain has one as soon as the call succeeded.
CreatedFirst(g) ==
  \A i \in DOMAIN queue :
    IsCall(i, "create_grant", g) =>
      /\ ~bundles[g].onChainTx /\ ~bundles[g].revoked
      /\ queue[i].at # "failed"
      /\ queue[i].at = "succeeded" <=> registry[g] # None
      /\ \A j \in DOMAIN queue : queue[j].grantId = g => i <= j

\* Before and after that the table knows what the chain has.
TableKnows(g) ==
  (\A i \in DOMAIN queue : ~IsCall(i, "create_grant", g)) =>
    (registry[g] # None <=> bundles[g] # None /\ bundles[g].onChainTx)

SameTerm(g) ==
  registry[g] # None =>
    bundles[g] # None /\ registry[g].expires_at_ledger = bundles[g].expiresAtLedger

RevokedNow(g) ==
  \E i \in DOMAIN queue : IsCall(i, "revoke_grant", g) /\ queue[i].at = "succeeded"

\* A revocation shows on chain first, and fails only where there is no grant.
SameRevocation(g) ==
  /\ registry[g] # None => (registry[g].revoked <=> bundles[g].revoked \/ RevokedNow(g))
  /\ RevokedNow(g) => registry[g] # None
  /\ \A i \in DOMAIN queue :
       IsCall(i, "revoke_grant", g) /\ queue[i].at = "failed" => registry[g] = None

GrantAgrees(g) ==
  NothingLate(g) /\ CreatedFirst(g) /\ TableKnows(g) /\ SameTerm(g) /\ SameRevocation(g)

IAgree == OneAtWork /\ \A g \in Grants \ disturbed : GrantAgrees(g)

\* Where the calls of a queue are in the queue that it becomes.
LEMMA AppendedAt ==
  ASSUME NEW q \in Seq(Call), NEW c
  PROVE  /\ DOMAIN q \subseteq Nat \ {0}
         /\ \A i \in DOMAIN q : i \in DOMAIN Append(q, c) /\ Append(q, c)[i] = q[i]
         /\ \A i \in DOMAIN Append(q, c) : i \in DOMAIN q \/ (i = Len(q) + 1 /\ Append(q, c)[i] = c)
         /\ Len(q) \in Nat /\ \A i \in DOMAIN q : i <= Len(q)
         /\ Len(q) + 1 \in DOMAIN Append(q, c) /\ Append(q, c)[Len(q) + 1] = c
<1>1. /\ Len(Append(q, c)) = Len(q) + 1 /\ Len(q) \in Nat
      /\ DOMAIN q = 1 .. Len(q) /\ DOMAIN Append(q, c) = 1 .. Len(q) + 1
      /\ Append(q, c)[Len(q) + 1] = c
      /\ \A i \in 1 .. Len(q) : Append(q, c)[i] = q[i]
  OBVIOUS
<1>. QED  BY <1>1

LEMMA TailAt ==
  ASSUME NEW q \in Seq(Call), q # <<>>
  PROVE  /\ DOMAIN q \subseteq Nat \ {0} /\ DOMAIN Tail(q) \subseteq Nat \ {0}
         /\ \A i \in DOMAIN Tail(q) : i + 1 \in DOMAIN q /\ Tail(q)[i] = q[i + 1]
         /\ \A i \in DOMAIN q : i # 1 => i - 1 \in DOMAIN Tail(q) /\ Tail(q)[i - 1] = q[i]
<1>1. /\ Len(Tail(q)) = Len(q) - 1 /\ Len(q) \in Nat \ {0}
      /\ DOMAIN q = 1 .. Len(q) /\ DOMAIN Tail(q) = 1 .. Len(q) - 1
      /\ \A i \in 1 .. Len(q) - 1 : Tail(q)[i] = q[i + 1]
  OBVIOUS
<1>. QED  BY <1>1

\* The first call is answered by the network.
LEMMA HeadWorked ==
  ASSUME NEW q \in Seq(Call), q # <<>>, NEW at \in {"succeeded", "failed"},
         NEW p, p = [q EXCEPT ![1].at = at]
  PROVE  /\ DOMAIN p = DOMAIN q /\ 1 \in DOMAIN q /\ DOMAIN q \subseteq Nat \ {0}
         /\ \A i \in DOMAIN q : i # 1 => p[i] = q[i]
         /\ p[1].at = at /\ p[1].call = q[1].call /\ p[1].grantId = q[1].grantId
<1>. DEFINE c == [q[1] EXCEPT !.at = at]
<1>1. q[1] \in Call /\ 1 \in DOMAIN q /\ DOMAIN q \subseteq Nat \ {0}
  BY QueueShrinks
<1>2. c.at = at /\ c.call = q[1].call /\ c.grantId = q[1].grantId
  BY <1>1 DEF Call
<1>3. p = [q EXCEPT ![1] = c]
  BY <1>1
<1>. HIDE DEF c
<1>4. DOMAIN p = DOMAIN q /\ p[1] = c /\ \A i \in DOMAIN q : i # 1 => p[i] = q[i]
  BY <1>1, <1>3
<1>. QED  BY <1>1, <1>2, <1>4

\* Of a grant that is not the step's, the calls stay, at the same place or one ahead.
LEMMA AgreesElsewhere ==
  ASSUME NEW g \in Grants, NEW k \in {0, 1}, GrantAgrees(g),
         DOMAIN queue \subseteq Nat, DOMAIN queue' \subseteq Nat,
         NothingLate(g)', registry'[g] = registry[g], bundles'[g] = bundles[g],
         \A i \in DOMAIN queue' :
           queue'[i].grantId = g => i + k \in DOMAIN queue /\ queue'[i] = queue[i + k],
         \A i \in DOMAIN queue :
           queue[i].grantId = g => i - k \in DOMAIN queue' /\ queue'[i - k] = queue[i]
  PROVE  GrantAgrees(g)'
<1>1. ASSUME NEW name
      PROVE  (\A i \in DOMAIN queue' : ~IsCall(i, name, g)') =>
               \A i \in DOMAIN queue : ~IsCall(i, name, g)
  BY DEF IsCall
<1>2. CreatedFirst(g)'
  <2>. SUFFICES ASSUME NEW i \in DOMAIN queue', IsCall(i, "create_grant", g)'
                PROVE  /\ ~bundles'[g].onChainTx /\ ~bundles'[g].revoked
                       /\ queue'[i].at # "failed"
                       /\ queue'[i].at = "succeeded" <=> registry'[g] # None
                       /\ \A j \in DOMAIN queue' : queue'[j].grantId = g => i <= j
    BY DEF CreatedFirst
  <2>1. i + k \in DOMAIN queue /\ queue'[i] = queue[i + k] /\ IsCall(i + k, "create_grant", g)
    BY DEF IsCall
  <2>2. ASSUME NEW j \in DOMAIN queue', queue'[j].grantId = g
        PROVE  i <= j
    <3>1. j + k \in DOMAIN queue /\ queue[j + k].grantId = g
      BY <2>2
    <3>2. i + k <= j + k
      BY <2>1, <3>1 DEF GrantAgrees, CreatedFirst
    <3>. QED  BY <3>2
  <2>. QED  BY <2>1, <2>2 DEF GrantAgrees, CreatedFirst
<1>3. TableKnows(g)'
  BY <1>1 DEF GrantAgrees, TableKnows, IsCall
<1>4. SameTerm(g)'
  BY DEF GrantAgrees, SameTerm
<1>5. RevokedNow(g)' <=> RevokedNow(g)
  BY DEF RevokedNow, IsCall
<1>6. SameRevocation(g)'
  <2>1. ASSUME NEW i \in DOMAIN queue', IsCall(i, "revoke_grant", g)', queue'[i].at = "failed"
        PROVE  registry'[g] = None
    <3>1. i + k \in DOMAIN queue /\ IsCall(i + k, "revoke_grant", g) /\ queue[i + k].at = "failed"
      BY <2>1 DEF IsCall
    <3>. QED  BY <3>1 DEF GrantAgrees, SameRevocation
  <2>. QED  BY <1>5, <2>1 DEF GrantAgrees, SameRevocation
<1>. QED  BY <1>2, <1>3, <1>4, <1>6 DEF GrantAgrees

\* A step that neither the service's calls nor chain nor table take part in.
LEMMA AgreesUntouched ==
  ASSUME IAgree, UNCHANGED <<registry, bundles, queue, late, disturbed>>
  PROVE  IAgree'
  BY DEF IAgree, OneAtWork, GrantAgrees, NothingLate, CreatedFirst, TableKnows, SameTerm,
         SameRevocation, RevokedNow, IsCall

\* A grant without a row has neither a call nor, undisturbed, a grant on chain.
LEMMA NothingYet ==
  ASSUME IDisclosure, IAgree, NEW g \in Grants, bundles[g] = None
  PROVE  /\ \A i \in DOMAIN queue : queue[i].grantId # g
         /\ g \notin disturbed => registry[g] = None
  BY DEF IDisclosure, CallsKnown, IAgree, GrantAgrees, SameTerm

\* A row is written, and its creation is queued or not.
LEMMA CreationAgrees ==
  ASSUME IDisclosure, IAgree, NEW h \in Grants,
         NEW claims \in Positions \cup {None}, NEW expires \in Nat, NEW told \in Nat \cup {None},
         NEW submitOnChain \in BOOLEAN,
         createDisclosureGrant(h, claims, expires, told, submitOnChain),
         UNCHANGED <<registry, late, disturbed>>
  PROVE  IAgree'
<1>. DEFINE b == [claims |-> claims, told |-> told, expiresAtLedger |-> expires,
                  onChainTx |-> FALSE, revoked |-> FALSE]
            c == call("create_grant", h)
<1>1. b \in Bundle /\ ~b.onChainTx /\ ~b.revoked
  BY DEF Bundle
<1>2. c.call = "create_grant" /\ c.grantId = h /\ c.at = "waiting"
  BY DEF call
<1>3. /\ bundles[h] = None /\ bundles' = [bundles EXCEPT ![h] = b]
      /\ queue' = IF submitOnChain THEN Append(queue, c) ELSE queue
  BY DEF createDisclosureGrant
<1>. HIDE DEF b, c
<1>4. queue \in Seq(Call) /\ bundles'[h] = b /\ \A g \in Grants \ {h} : bundles'[g] = bundles[g]
  BY <1>3 DEF IDisclosure, DisclosureTyped
<1>5. /\ \A i \in DOMAIN queue : i \in Nat \ {0} /\ i \in DOMAIN queue' /\ queue'[i] = queue[i]
      /\ \A i \in DOMAIN queue' :
           i \in Nat /\ (i \in DOMAIN queue \/ (queue'[i] = c /\ submitOnChain
                                               /\ \A j \in DOMAIN queue' : j <= i))
      /\ submitOnChain => \E i \in DOMAIN queue' : queue'[i] = c
  <2>1. CASE submitOnChain
    <3>1. queue' = Append(queue, c)
      BY <1>3, <2>1
    <3>2. /\ DOMAIN queue \subseteq Nat \ {0} /\ Len(queue) \in Nat
          /\ \A i \in DOMAIN queue : i \in DOMAIN queue' /\ queue'[i] = queue[i] /\ i <= Len(queue)
          /\ \A i \in DOMAIN queue' : i \in DOMAIN queue \/ (i = Len(queue) + 1 /\ queue'[i] = c)
          /\ Len(queue) + 1 \in DOMAIN queue' /\ queue'[Len(queue) + 1] = c
      BY <1>4, <3>1, AppendedAt
    <3>3. \A j \in DOMAIN queue' : j \in Nat /\ j <= Len(queue) + 1
      BY <3>2
    <3>. QED  BY <2>1, <3>2, <3>3
  <2>2. CASE ~submitOnChain
    <3>1. queue' = queue /\ DOMAIN queue \subseteq Nat \ {0}
      BY <1>3, <1>4, <2>2
    <3>. QED  BY <2>2, <3>1
  <2>. QED  BY <2>1, <2>2
<1>6. OneAtWork'
  BY <1>2, <1>5 DEF IAgree, OneAtWork
<1>7. ASSUME NEW g \in Grants \ disturbed, g # h
      PROVE  GrantAgrees(g)'
  <2>1. GrantAgrees(g) /\ NothingLate(g)'
    BY DEF IAgree, GrantAgrees, NothingLate
  <2>2. /\ \A i \in DOMAIN queue' :
             queue'[i].grantId = g => i + 0 \in DOMAIN queue /\ queue'[i] = queue[i + 0]
        /\ \A i \in DOMAIN queue :
             queue[i].grantId = g => i - 0 \in DOMAIN queue' /\ queue'[i - 0] = queue[i]
    BY <1>2, <1>5, <1>7
  <2>3. DOMAIN queue \subseteq Nat /\ DOMAIN queue' \subseteq Nat
    BY <1>5
  <2>4. registry'[g] = registry[g] /\ bundles'[g] = bundles[g]
    BY <1>4, <1>7
  <2>. QED  BY <2>1, <2>2, <2>3, <2>4, AgreesElsewhere
<1>8. ASSUME h \notin disturbed
      PROVE  GrantAgrees(h)'
  <2>1. registry'[h] = None /\ \A i \in DOMAIN queue : queue[i].grantId # h
    BY <1>3, <1>8, NothingYet
  <2>2. \A i \in DOMAIN queue' :
          queue'[i].grantId = h => queue'[i] = c /\ i \in Nat /\ \A j \in DOMAIN queue' : j <= i
    BY <1>5, <2>1
  <2>3. NothingLate(h)'
    BY <1>8 DEF IAgree, GrantAgrees, NothingLate
  <2>4. \A i, j \in DOMAIN queue' : queue'[i] = c /\ queue'[j] = c => i <= j
    BY <1>2, <1>5, <2>1
  <2>5. \A i \in DOMAIN queue' : queue'[i].grantId = h => queue'[i] = c
    BY <2>2
  <2>6. CreatedFirst(h)'
    BY <1>1, <1>2, <1>4, <2>1, <2>4, <2>5 DEF CreatedFirst, IsCall
  <2>7. TableKnows(h)' /\ SameTerm(h)'
    BY <1>1, <1>4, <2>1 DEF TableKnows, SameTerm
  <2>8. SameRevocation(h)'
    BY <1>2, <2>1, <2>5 DEF SameRevocation, RevokedNow, IsCall
  <2>. QED  BY <2>3, <2>6, <2>7, <2>8 DEF GrantAgrees
<1>. QED  BY <1>6, <1>7, <1>8 DEF IAgree

\* A revocation is queued, behind whatever there is of its grant.
LEMMA RevocationAgrees ==
  ASSUME IDisclosure, IAgree, NEW h \in Grants, revokeDisclosureGrant(h)
  PROVE  IAgree'
<1>. DEFINE c == call("revoke_grant", h)
<1>1. c.call = "revoke_grant" /\ c.grantId = h /\ c.at = "waiting"
  BY DEF call
<1>2. queue' = Append(queue, c) /\ UNCHANGED <<registry, bundles, late, disturbed>>
  BY DEF revokeDisclosureGrant
<1>. HIDE DEF c
<1>3. queue \in Seq(Call)
  BY DEF IDisclosure, DisclosureTyped
<1>4. /\ DOMAIN queue \subseteq Nat \ {0} /\ Len(queue) \in Nat
      /\ \A i \in DOMAIN queue : i \in DOMAIN queue' /\ queue'[i] = queue[i] /\ i <= Len(queue)
      /\ \A i \in DOMAIN queue' : i \in DOMAIN queue \/ (i = Len(queue) + 1 /\ queue'[i] = c)
      /\ Len(queue) + 1 \in DOMAIN queue' /\ queue'[Len(queue) + 1] = c
  BY <1>2, <1>3, AppendedAt
<1>5. OneAtWork'
  BY <1>1, <1>4 DEF IAgree, OneAtWork
<1>6. ASSUME NEW g \in Grants \ disturbed
      PROVE  GrantAgrees(g)'
  <2>1. GrantAgrees(g)
    BY DEF IAgree
  <2>2. NothingLate(g)'
    BY <1>2, <2>1 DEF GrantAgrees, NothingLate
  <2>3. CreatedFirst(g)'
    <3>. SUFFICES ASSUME NEW i \in DOMAIN queue', IsCall(i, "create_grant", g)'
                  PROVE  /\ ~bundles[g].onChainTx /\ ~bundles[g].revoked
                         /\ queue'[i].at # "failed"
                         /\ queue'[i].at = "succeeded" <=> registry[g] # None
                         /\ \A j \in DOMAIN queue' : queue'[j].grantId = g => i <= j
      BY <1>2 DEF CreatedFirst
    <3>1. i \in DOMAIN queue /\ queue'[i] = queue[i] /\ IsCall(i, "create_grant", g)
      BY <1>1, <1>4 DEF IsCall
    <3>2. \A j \in DOMAIN queue : queue[j].grantId = g => i <= j
      BY <2>1, <3>1 DEF GrantAgrees, CreatedFirst
    <3>3. \A j \in DOMAIN queue' : queue'[j].grantId = g => i <= j
      BY <1>4, <3>1, <3>2
    <3>. QED  BY <2>1, <3>1, <3>3 DEF GrantAgrees, CreatedFirst
  <2>4. TableKnows(g)' /\ SameTerm(g)'
    BY <1>2, <1>4, <2>1 DEF GrantAgrees, TableKnows, SameTerm, IsCall
  <2>5. RevokedNow(g)' <=> RevokedNow(g)
    BY <1>1, <1>4 DEF RevokedNow, IsCall
  <2>6. SameRevocation(g)'
    BY <1>1, <1>2, <1>4, <2>1, <2>5 DEF GrantAgrees, SameRevocation, IsCall
  <2>. QED  BY <2>2, <2>3, <2>4, <2>6 DEF GrantAgrees
<1>. QED  BY <1>2, <1>5, <1>6 DEF IAgree

\* A call is included: what the contract did is what the call says.
LEMMA EffectAgrees ==
  ASSUME IDisclosure, IAgree, operator_tx
  PROVE  IAgree'
<1>0. PICK h, name : h = queue[1].grantId /\ name = queue[1].call
  OBVIOUS
<1>1. /\ queue # <<>> /\ queue \in Seq(Call) /\ queue[1].at = "waiting" /\ 1 \in DOMAIN queue
      /\ queue[1] \in Call /\ Head(queue) = queue[1]
  BY QueueShrinks DEF operator_tx, IDisclosure, DisclosureTyped
<1>2. PICK at \in {"succeeded", "failed"} :
        /\ queue' = [queue EXCEPT ![1].at = at]
        /\ at = "failed" => name = "revoke_grant" /\ registry[h] = None /\ UNCHANGED registry
        /\ at = "succeeded" => take_effect(queue[1])
  BY <1>0, <1>1 DEF operator_tx
<1>3. /\ DOMAIN queue' = DOMAIN queue /\ DOMAIN queue \subseteq Nat \ {0}
      /\ \A i \in DOMAIN queue : i # 1 => queue'[i] = queue[i]
      /\ queue'[1].at = at /\ queue'[1].call = name /\ queue'[1].grantId = h
  <2>1. CASE at = "succeeded"
    <3>1. queue' = [queue EXCEPT ![1].at = "succeeded"]
      BY <1>2, <2>1
    <3>. QED  BY <1>0, <1>1, <2>1, <3>1, HeadWorked
  <2>2. CASE at = "failed"
    <3>1. queue' = [queue EXCEPT ![1].at = "failed"]
      BY <1>2, <2>2
    <3>. QED  BY <1>0, <1>1, <2>2, <3>1, HeadWorked
  <2>. QED  BY <2>1, <2>2
<1>4. h \in Grants /\ name \in {"create_grant", "revoke_grant"}
  BY <1>0, <1>1 DEF Call
<1>5. UNCHANGED <<bundles, late, disturbed>>
  BY DEF operator_tx
<1>6. \A g \in Grants \ {h} : registry'[g] = registry[g]
  BY <1>0, <1>2, <1>4 DEF take_effect, create_grant, revoke_grant, IDisclosure, DisclosureTyped
<1>7. OneAtWork'
  BY <1>3 DEF IAgree, OneAtWork
<1>8. ASSUME NEW g \in Grants \ disturbed, g # h
      PROVE  GrantAgrees(g)'
  <2>1. GrantAgrees(g) /\ NothingLate(g)'
    BY <1>5 DEF IAgree, GrantAgrees, NothingLate
  <2>2. /\ \A i \in DOMAIN queue' :
             queue'[i].grantId = g => i + 0 \in DOMAIN queue /\ queue'[i] = queue[i + 0]
        /\ \A i \in DOMAIN queue :
             queue[i].grantId = g => i - 0 \in DOMAIN queue' /\ queue'[i - 0] = queue[i]
    BY <1>0, <1>3, <1>8
  <2>3. DOMAIN queue \subseteq Nat /\ DOMAIN queue' \subseteq Nat
    BY <1>3
  <2>4. registry'[g] = registry[g] /\ bundles'[g] = bundles[g]
    BY <1>5, <1>6, <1>8
  <2>. QED  BY <2>1, <2>2, <2>3, <2>4, AgreesElsewhere
<1>9. ASSUME h \notin disturbed
      PROVE  GrantAgrees(h)'
  <2>1. GrantAgrees(h)
    BY <1>4, <1>9 DEF IAgree
  <2>2. /\ NothingLate(h)'
        /\ \A i \in DOMAIN queue : i # 1 => queue[i].at = "waiting"
    BY <1>5, <2>1 DEF GrantAgrees, NothingLate, IAgree, OneAtWork
  <2>3. \A i \in DOMAIN queue' :
          queue'[i].call = queue[i].call /\ queue'[i].grantId = queue[i].grantId
    BY <1>0, <1>3
  <2>4. CASE name = "create_grant"
    <3>1. /\ at = "succeeded" /\ registry[h] = None
          /\ registry' = [registry EXCEPT ![h] =
               [expires_at_ledger |-> bundles[h].expiresAtLedger, revoked |-> FALSE]]
      BY <1>0, <1>2, <2>4 DEF take_effect, create_grant
    <3>2. /\ registry'[h] = [expires_at_ledger |-> bundles[h].expiresAtLedger, revoked |-> FALSE]
          /\ bundles[h] \in Bundle
      <4>1. bundles[h] # None /\ bundles[h] \in Bundle \cup {None}
        BY <1>0, <1>1, <1>4 DEF IDisclosure, CallsKnown, DisclosureTyped
      <4>. QED  BY <1>4, <3>1, <4>1 DEF IDisclosure, DisclosureTyped
    <3>3. registry'[h] # None
      <4>1. bundles[h].expiresAtLedger \in Nat
        BY <3>2 DEF Bundle
      <4>2. registry'[h] \in Grant
        BY <3>2, <4>1 DEF Grant
      <4>. QED  BY <4>2, NoneIsNoRow
    <3>4. IsCall(1, "create_grant", h)
      BY <1>0, <2>4 DEF IsCall
    <3>5. /\ ~bundles[h].onChainTx /\ ~bundles[h].revoked
          /\ \A j \in DOMAIN queue : queue[j].grantId = h => 1 <= j
      BY <1>1, <2>1, <3>4 DEF GrantAgrees, CreatedFirst
    <3>6. ASSUME NEW i \in DOMAIN queue, IsCall(i, "create_grant", h)
          PROVE  i = 1
      <4>1. i <= 1
        BY <1>1, <2>1, <3>4, <3>6 DEF GrantAgrees, CreatedFirst, IsCall
      <4>. QED  BY <1>3, <4>1
    <3>7. CreatedFirst(h)'
      BY <1>3, <1>5, <2>3, <3>1, <3>3, <3>5, <3>6 DEF CreatedFirst, IsCall
    <3>8. TableKnows(h)'
      BY <1>1, <1>3, <2>4 DEF TableKnows, IsCall
    <3>9. SameTerm(h)'
      BY <1>5, <3>2, NoneIsNoRow DEF SameTerm
    <3>10. SameRevocation(h)'
      <4>1. ~RevokedNow(h)' /\ \A i \in DOMAIN queue' :
              IsCall(i, "revoke_grant", h)' => queue'[i].at = "waiting"
        BY <1>3, <2>2, <2>4 DEF RevokedNow, IsCall
      <4>2. ~registry'[h].revoked
        BY <3>2
      <4>. QED  BY <1>5, <3>5, <4>1, <4>2 DEF SameRevocation
    <3>. QED  BY <2>2, <3>7, <3>8, <3>9, <3>10 DEF GrantAgrees
  <2>5. CASE name = "revoke_grant"
    <3>1. ASSUME NEW i \in DOMAIN queue, IsCall(i, "create_grant", h)
          PROVE  FALSE
      <4>1. i <= 1 /\ i # 1
        BY <1>0, <1>1, <2>1, <2>5, <3>1 DEF GrantAgrees, CreatedFirst, IsCall
      <4>. QED  BY <1>3, <4>1
    <3>2. CreatedFirst(h)' /\ \A i \in DOMAIN queue' : ~IsCall(i, "create_grant", h)'
      BY <1>3, <2>3, <3>1 DEF CreatedFirst, IsCall
    <3>3. registry[h] # None <=> bundles[h] # None /\ bundles[h].onChainTx
      BY <2>1, <3>1 DEF GrantAgrees, TableKnows
    <3>4. \A i \in DOMAIN queue' : i # 1 => queue'[i].at = "waiting"
      BY <1>3, <2>2
    <3>5. CASE at = "failed"
      <4>1. registry[h] = None /\ registry' = registry
        BY <1>2, <3>5
      <4>2. ~RevokedNow(h)'
        BY <1>3, <3>4, <3>5 DEF RevokedNow, IsCall
      <4>. QED
        BY <1>5, <2>1, <2>2, <3>2, <3>3, <4>1, <4>2
        DEF GrantAgrees, TableKnows, SameTerm, SameRevocation
    <3>6. CASE at = "succeeded"
      <4>1. registry[h] # None /\ registry' = [registry EXCEPT ![h].revoked = TRUE]
        BY <1>0, <1>2, <2>5, <3>6 DEF take_effect, revoke_grant
      <4>2. registry[h] \in Grant /\ registry'[h] = [registry[h] EXCEPT !.revoked = TRUE]
        BY <1>4, <4>1 DEF IDisclosure, DisclosureTyped
      <4>3. /\ registry'[h] \in Grant /\ registry'[h].revoked
            /\ registry'[h].expires_at_ledger = registry[h].expires_at_ledger
        BY <4>2 DEF Grant
      <4>4. registry'[h] # None
        BY <4>3, NoneIsNoRow
      <4>5. RevokedNow(h)'
        BY <1>1, <1>3, <2>5, <3>6 DEF RevokedNow, IsCall
      <4>6. SameRevocation(h)'
        BY <1>3, <3>4, <3>6, <4>3, <4>4, <4>5 DEF SameRevocation
      <4>. QED
        BY <1>5, <2>1, <2>2, <3>2, <3>3, <4>1, <4>3, <4>4, <4>6
        DEF GrantAgrees, TableKnows, SameTerm
    <3>. QED  BY <3>5, <3>6
  <2>. QED  BY <1>4, <2>4, <2>5
<1>. QED  BY <1>4, <1>5, <1>7, <1>8, <1>9 DEF IAgree

\* A call fails, or is given up on: its grant is disturbed, the others are as before.
LEMMA FailureAgrees ==
  ASSUME IDisclosure, IAgree, operator_tx_fails
  PROVE  IAgree'
<1>1. queue # <<>> /\ queue \in Seq(Call) /\ Head(queue) = queue[1]
  BY QueueShrinks DEF operator_tx_fails, IDisclosure, DisclosureTyped
<1>2. /\ queue' = [queue EXCEPT ![1].at = "failed"]
      /\ late' \subseteq late \cup {queue[1]} /\ disturbed' = disturbed \cup {queue[1].grantId}
      /\ UNCHANGED <<registry, bundles>>
  BY <1>1 DEF operator_tx_fails
<1>3. /\ DOMAIN queue' = DOMAIN queue /\ DOMAIN queue \subseteq Nat \ {0}
      /\ \A i \in DOMAIN queue : i # 1 => queue'[i] = queue[i]
      /\ queue'[1].grantId = queue[1].grantId
  BY <1>1, <1>2, HeadWorked
<1>4. OneAtWork'
  BY <1>3 DEF IAgree, OneAtWork
<1>5. ASSUME NEW g \in Grants \ disturbed'
      PROVE  GrantAgrees(g)'
  <2>1. GrantAgrees(g) /\ g # queue[1].grantId
    BY <1>2 DEF IAgree
  <2>2. NothingLate(g)'
    BY <1>2, <2>1 DEF GrantAgrees, NothingLate
  <2>3. /\ \A i \in DOMAIN queue' :
             queue'[i].grantId = g => i + 0 \in DOMAIN queue /\ queue'[i] = queue[i + 0]
        /\ \A i \in DOMAIN queue :
             queue[i].grantId = g => i - 0 \in DOMAIN queue' /\ queue'[i - 0] = queue[i]
    BY <1>3, <2>1
  <2>4. DOMAIN queue \subseteq Nat /\ DOMAIN queue' \subseteq Nat
    BY <1>3
  <2>5. registry'[g] = registry[g] /\ bundles'[g] = bundles[g]
    BY <1>2
  <2>. QED  BY <2>1, <2>2, <2>3, <2>4, <2>5, AgreesElsewhere
<1>. QED  BY <1>4, <1>5 DEF IAgree

\* What lands late is of a grant that is disturbed already.
LEMMA LateAgrees ==
  ASSUME IDisclosure, IAgree, NEW c \in late, land_late(c) \/ expire(c)
  PROVE  IAgree'
<1>1. late' = late \ {c} /\ UNCHANGED <<queue, bundles, disturbed>>
  BY DEF land_late, expire
<1>2. OneAtWork'
  BY <1>1 DEF IAgree, OneAtWork
<1>3. ASSUME NEW g \in Grants \ disturbed
      PROVE  GrantAgrees(g)'
  <2>1. GrantAgrees(g) /\ c.grantId # g
    BY DEF IAgree, GrantAgrees, NothingLate
  <2>2. NothingLate(g)'
    BY <1>1, <2>1 DEF GrantAgrees, NothingLate
  <2>3. c.grantId \in Grants /\ registry \in [Grants -> Grant \cup {None}]
    BY DEF IDisclosure, DisclosureTyped, Call
  <2>4. registry'[g] = registry[g] /\ bundles'[g] = bundles[g]
    BY <1>1, <2>1, <2>3 DEF land_late, expire, take_effect, create_grant, revoke_grant
  <2>5. DOMAIN queue \subseteq Nat /\ queue' = queue
    BY <1>1 DEF IDisclosure, DisclosureTyped
  <2>6. /\ \A i \in DOMAIN queue' :
             queue'[i].grantId = g => i + 0 \in DOMAIN queue /\ queue'[i] = queue[i + 0]
        /\ \A i \in DOMAIN queue :
             queue[i].grantId = g => i - 0 \in DOMAIN queue' /\ queue'[i - 0] = queue[i]
    BY <2>5
  <2>. QED  BY <2>1, <2>2, <2>4, <2>5, <2>6, AgreesElsewhere
<1>. QED  BY <1>1, <1>2, <1>3 DEF IAgree

\* The service hears of its call and writes the row.
LEMMA AnswerAgrees ==
  ASSUME IDisclosure, IAgree, create_answered \/ revoke_answered
  PROVE  IAgree'
<1>0. PICK h : h = queue[1].grantId
  OBVIOUS
<1>1. /\ queue # <<>> /\ queue \in Seq(Call) /\ 1 \in DOMAIN queue
      /\ queue[1] \in Call /\ Head(queue) = queue[1]
      /\ queue[1].at # "waiting" /\ queue' = Tail(queue)
  BY QueueShrinks DEF create_answered, revoke_answered, IDisclosure, DisclosureTyped
<1>2. UNCHANGED <<registry, late, disturbed>>
  BY DEF create_answered, revoke_answered
<1>3. h \in Grants /\ bundles[h] # None /\ bundles[h] \in Bundle
  BY <1>0, <1>1 DEF Call, IDisclosure, DisclosureTyped, CallsKnown
<1>4. /\ DOMAIN queue \subseteq Nat \ {0} /\ DOMAIN queue' \subseteq Nat \ {0}
      /\ \A i \in DOMAIN queue' : i + 1 \in DOMAIN queue /\ queue'[i] = queue[i + 1]
      /\ \A i \in DOMAIN queue : i # 1 => i - 1 \in DOMAIN queue' /\ queue'[i - 1] = queue[i]
  BY <1>1, TailAt
<1>5. \A i \in DOMAIN queue' : queue'[i].at = "waiting"
  <2>1. \A i \in DOMAIN queue' : i + 1 # 1
    BY <1>4
  <2>. QED  BY <1>4, <2>1 DEF IAgree, OneAtWork
<1>6. \A g \in Grants \ {h} : bundles'[g] = bundles[g]
  BY <1>0, <1>1, <1>3 DEF create_answered, revoke_answered, IDisclosure, DisclosureTyped
<1>7. ASSUME NEW g \in Grants \ disturbed, g # h
      PROVE  GrantAgrees(g)'
  <2>1. GrantAgrees(g) /\ NothingLate(g)'
    BY <1>2 DEF IAgree, GrantAgrees, NothingLate
  <2>2. /\ \A i \in DOMAIN queue' :
             queue'[i].grantId = g => i + 1 \in DOMAIN queue /\ queue'[i] = queue[i + 1]
        /\ \A i \in DOMAIN queue :
             queue[i].grantId = g => i - 1 \in DOMAIN queue' /\ queue'[i - 1] = queue[i]
    BY <1>0, <1>4, <1>7
  <2>3. DOMAIN queue \subseteq Nat /\ DOMAIN queue' \subseteq Nat
    BY <1>4
  <2>4. registry'[g] = registry[g] /\ bundles'[g] = bundles[g]
    BY <1>2, <1>6, <1>7
  <2>. QED  BY <2>1, <2>2, <2>3, <2>4, AgreesElsewhere
<1>8. ASSUME h \notin disturbed
      PROVE  GrantAgrees(h)'
  <2>1. GrantAgrees(h) /\ NothingLate(h)'
    BY <1>2, <1>3, <1>8 DEF IAgree, GrantAgrees, NothingLate
  <2>2. ASSUME NEW i \in DOMAIN queue'
        PROVE  ~IsCall(i, "create_grant", h)'
    <3>. SUFFICES ASSUME IsCall(i, "create_grant", h)' PROVE FALSE
      OBVIOUS
    <3>1. IsCall(i + 1, "create_grant", h) /\ i + 1 \in DOMAIN queue
      BY <1>4 DEF IsCall
    <3>2. i + 1 <= 1
      BY <1>0, <1>1, <2>1, <3>1 DEF GrantAgrees, CreatedFirst
    <3>. QED  BY <1>4, <3>2
  <2>3. CreatedFirst(h)' /\ ~RevokedNow(h)'
    BY <1>5, <2>2 DEF CreatedFirst, RevokedNow
  <2>4. CASE create_answered
    <3>1. /\ queue[1].call = "create_grant"
          /\ bundles' = [bundles EXCEPT ![h].onChainTx = (queue[1].at = "succeeded")]
      BY <1>0, <1>1, <2>4 DEF create_answered
    <3>2. /\ ~bundles[h].revoked /\ queue[1].at = "succeeded" /\ registry[h] # None
      <4>1. IsCall(1, "create_grant", h)
        BY <1>0, <3>1 DEF IsCall
      <4>. QED  BY <1>1, <2>1, <4>1 DEF GrantAgrees, CreatedFirst, Call
    <3>3. bundles'[h] = [bundles[h] EXCEPT !.onChainTx = TRUE]
      BY <1>3, <3>1, <3>2 DEF IDisclosure, DisclosureTyped
    <3>4. /\ bundles'[h] \in Bundle /\ bundles'[h].onChainTx /\ ~bundles'[h].revoked
          /\ bundles'[h].expiresAtLedger = bundles[h].expiresAtLedger
      BY <1>3, <3>2, <3>3 DEF Bundle
    <3>5. bundles'[h] # None
      BY <3>4, NoneIsNoRow
    <3>6. ~RevokedNow(h)
      <4>1. \A i \in DOMAIN queue : i # 1 => queue[i].at = "waiting"
        BY DEF IAgree, OneAtWork
      <4>. QED  BY <3>1, <4>1 DEF RevokedNow, IsCall
    <3>7. ~registry[h].revoked
      BY <2>1, <3>2, <3>6 DEF GrantAgrees, SameRevocation
    <3>8. TableKnows(h)' /\ SameTerm(h)'
      BY <1>2, <2>1, <3>2, <3>4, <3>5 DEF GrantAgrees, TableKnows, SameTerm
    <3>9. SameRevocation(h)'
      <4>1. registry'[h] # None /\ ~registry'[h].revoked
        BY <1>2, <3>2, <3>7
      <4>2. \A i \in DOMAIN queue' : queue'[i].at # "failed"
        BY <1>5
      <4>. QED  BY <2>3, <3>4, <4>1, <4>2 DEF SameRevocation
    <3>. QED  BY <2>1, <2>3, <3>8, <3>9 DEF GrantAgrees
  <2>5. CASE revoke_answered
    <3>1. queue[1].call = "revoke_grant" /\ bundles' = [bundles EXCEPT ![h].revoked = TRUE]
      BY <1>0, <1>1, <2>5 DEF revoke_answered, marked
    <3>2. bundles'[h] = [bundles[h] EXCEPT !.revoked = TRUE]
      BY <1>3, <3>1 DEF IDisclosure, DisclosureTyped
    <3>3. /\ bundles'[h] \in Bundle /\ bundles'[h].revoked
          /\ bundles'[h].onChainTx = bundles[h].onChainTx
          /\ bundles'[h].expiresAtLedger = bundles[h].expiresAtLedger
      BY <1>3, <3>2 DEF Bundle
    <3>4. bundles'[h] # None
      BY <3>3, NoneIsNoRow
    <3>5. \A i \in DOMAIN queue : ~IsCall(i, "create_grant", h)
      <4>1. ~IsCall(1, "create_grant", h)
        BY <1>0, <3>1 DEF IsCall
      <4>2. \A i \in DOMAIN queue : i # 1 => ~IsCall(i, "create_grant", h)
        BY <1>4, <2>2 DEF IsCall
      <4>. QED  BY <4>1, <4>2
    <3>6. TableKnows(h)' /\ SameTerm(h)'
      BY <1>2, <1>3, <2>1, <3>3, <3>4, <3>5 DEF GrantAgrees, TableKnows, SameTerm
    <3>7. registry[h] # None => registry[h].revoked
      <4>1. IsCall(1, "revoke_grant", h)
        BY <1>0, <3>1 DEF IsCall
      <4>2. CASE queue[1].at = "failed"
        BY <1>1, <2>1, <4>1, <4>2 DEF GrantAgrees, SameRevocation
      <4>3. CASE queue[1].at = "succeeded"
        BY <1>1, <2>1, <4>1, <4>3 DEF GrantAgrees, SameRevocation, RevokedNow
      <4>. QED  BY <1>1, <4>2, <4>3 DEF Call
    <3>8. SameRevocation(h)'
      <4>1. \A i \in DOMAIN queue' : queue'[i].at # "failed"
        BY <1>5
      <4>2. registry'[h] # None => registry'[h].revoked
        BY <1>2, <3>7
      <4>. QED
        BY <1>2, <2>1, <2>3, <3>3, <3>7, <4>1, <4>2 DEF GrantAgrees, SameRevocation
    <3>. QED  BY <2>1, <2>3, <3>6, <3>8 DEF GrantAgrees
  <2>. QED  BY <2>4, <2>5
<1>9. OneAtWork'
  BY <1>5 DEF OneAtWork
<1>. QED  BY <1>2, <1>3, <1>7, <1>8, <1>9 DEF IAgree

\* Every grant with a call in the queue is disturbed when the process dies.
LEMMA CrashAgrees ==
  ASSUME IDisclosure, IAgree, crash
  PROVE  IAgree'
<1>1. /\ queue' = <<>> /\ UNCHANGED <<registry, bundles>>
      /\ disturbed' = disturbed \cup {queue[i].grantId : i \in DOMAIN queue}
  BY DEF crash
<1>2. \A c \in late' : c \in late \/ \E i \in DOMAIN queue : c = queue[i]
  <2>1. queue # <<>> => 1 \in DOMAIN queue /\ Head(queue) = queue[1]
    BY QueueShrinks DEF IDisclosure, DisclosureTyped
  <2>. QED  BY <2>1 DEF crash
<1>3. ASSUME NEW g \in Grants \ disturbed'
      PROVE  GrantAgrees(g)'
  <2>1. GrantAgrees(g) /\ \A i \in DOMAIN queue : queue[i].grantId # g
    BY <1>1 DEF IAgree
  <2>2. NothingLate(g)'
    BY <1>2, <2>1 DEF GrantAgrees, NothingLate
  <2>3. \A i \in DOMAIN queue' : FALSE
    BY <1>1
  <2>4. ~RevokedNow(g) /\ ~RevokedNow(g)'
    BY <2>1, <2>3 DEF RevokedNow, IsCall
  <2>5. \A i \in DOMAIN queue : ~IsCall(i, "create_grant", g)
    BY <2>1 DEF IsCall
  <2>. QED
    BY <1>1, <2>1, <2>2, <2>3, <2>4, <2>5
    DEF GrantAgrees, CreatedFirst, TableKnows, SameTerm, SameRevocation
<1>4. OneAtWork'
  BY <1>1 DEF OneAtWork
<1>. QED  BY <1>3, <1>4 DEF IAgree

LEMMA AgreeInitial == Init => IAgree
<1>. SUFFICES ASSUME Init PROVE IAgree
  OBVIOUS
<1>1. /\ queue = <<>> /\ late = {}
      /\ \A g \in Grants : bundles[g] = None /\ registry[g] = None
  BY DEF Init
<1>2. \A i \in DOMAIN queue : FALSE
  BY <1>1
<1>. QED
  BY <1>1, <1>2 DEF IAgree, OneAtWork, GrantAgrees, NothingLate, CreatedFirst, TableKnows, SameTerm,
     SameRevocation, RevokedNow

LEMMA AgreeStep ==
  ASSUME IDisclosure, IAgree, [Next]_vars
  PROVE  IAgree'
<1>1. CASE AuditingStep /\ UNCHANGED disclosureVars
  BY <1>1, AgreesUntouched DEF disclosureVars
<1>2. CASE CloseLedger \/ flow_goes_on \/ visit \/ demo_state_live \/ demo_state_cached \/ loadFlow
  BY <1>2, AgreesUntouched
  DEF CloseLedger, flow_goes_on, visit, demo_state_live, demo_state_cached, loadFlow
<1>3. ASSUME NEW g \in Grants, createDisclosure(g)
      PROVE  IAgree'
  <2>1. /\ createDisclosureGrant(g, observer.flow.positionId, expiresAtLedger,
                                 observer.latestLedger, TRUE)
        /\ observer.flow # None /\ UNCHANGED <<registry, late, disturbed>>
    BY <1>3 DEF createDisclosure
  <2>2. /\ observer.latestLedger \in Nat \cup {None} /\ expiresAtLedger \in Nat
        /\ observer.flow.positionId \in Positions \cup {None}
    BY <2>1, DisclosureAssumption
    DEF IDisclosure, DisclosureTyped, ObserverPage, FlowState, expiresAtLedger
  <2>. QED  BY <2>1, <2>2, CreationAgrees
<1>4. CASE ViewerStep
  BY <1>4, AgreesUntouched DEF ViewerStep, open_link, read_bundle, verify, verify_fails
<1>5. ASSUME NEW g \in Grants, NEW submitOnChain \in BOOLEAN, other_client_creates(g, submitOnChain)
      PROVE  IAgree'
  <2>1. /\ createDisclosureGrant(g, None, ledger + Lifetime, None, submitOnChain)
        /\ UNCHANGED <<registry, late, disturbed>>
    BY <1>5 DEF other_client_creates
  <2>2. ledger + Lifetime \in Nat
    BY DisclosureAssumption DEF IDisclosure, DisclosureTyped
  <2>. QED  BY <2>1, <2>2, CreationAgrees
<1>6. ASSUME NEW g \in Grants, revokeDisclosureGrant(g)
      PROVE  IAgree'
  BY <1>6, RevocationAgrees
<1>7. CASE operator_tx \/ operator_tx_fails \/ create_answered \/ revoke_answered \/ crash
  BY <1>7, EffectAgrees, FailureAgrees, AnswerAgrees, CrashAgrees
<1>8. ASSUME NEW c \in late, land_late(c) \/ expire(c)
      PROVE  IAgree'
  BY <1>8, LateAgrees
<1>9. CASE UNCHANGED vars
  BY <1>9, AgreesUntouched DEF vars, disclosureVars
<1>. QED
  BY <1>1, <1>2, <1>3, <1>4, <1>5, <1>6, <1>7, <1>8, <1>9 DEF Next, ObserverStep, ServiceStep

\* What follows when no call of a grant is in flight.
LEMMA AgreeFollows ==
  ASSUME IDisclosure, IAgree
  PROVE  ChainAndTableAgree
<1>. SUFFICES ASSUME NEW g \in Grants \ disturbed, ~InFlight(g)
              PROVE  /\ registry[g] # None <=> bundles[g] # None /\ bundles[g].onChainTx
                     /\ registry[g] # None =>
                          (is_valid(g) <=> ~bundles[g].revoked
                                           /\ ledger <= bundles[g].expiresAtLedger)
  BY DEF ChainAndTableAgree
<1>1. GrantAgrees(g)
  BY DEF IAgree
<1>2. ~RevokedNow(g) /\ \A i \in DOMAIN queue : ~IsCall(i, "create_grant", g)
  BY DEF InFlight, RevokedNow, IsCall
<1>. QED
  BY <1>1, <1>2 DEF GrantAgrees, TableKnows, SameTerm, SameRevocation, is_valid

-------------------------------------------------------------------------------
(* What a link was made for.                                               *)

Dated(b) == b.told # None => b.expiresAtLedger = b.told + Lifetime

LinkDates ==
  /\ \A g \in Grants : bundles[g] # None => Dated(bundles[g])
  /\ viewer.bundle # None => Dated(viewer.bundle)
  /\ viewer.answered => viewer.bundle # None /\ viewer.status # "checking"

IGood == LinkDates /\ GoodLinkOpens

LEMMA DatesInitial == Init => IGood
  BY DEF Init, IGood, LinkDates, GoodLinkOpens, NoViewer

\* A row that is marked keeps its dates.
LEMMA MarkedKeepsDates ==
  ASSUME NEW b \in Bundle, NEW x \in BOOLEAN, Dated(b)
  PROVE  Dated([b EXCEPT !.onChainTx = x]) /\ Dated([b EXCEPT !.revoked = TRUE])
<1>1. /\ [b EXCEPT !.onChainTx = x].told = b.told
      /\ [b EXCEPT !.onChainTx = x].expiresAtLedger = b.expiresAtLedger
      /\ [b EXCEPT !.revoked = TRUE].told = b.told
      /\ [b EXCEPT !.revoked = TRUE].expiresAtLedger = b.expiresAtLedger
  BY DEF Bundle
<1>. QED  BY <1>1 DEF Dated

\* Every row there is then keeps to the rule.
LEMMA RowsDated ==
  ASSUME IDisclosure, IGood, [Next]_vars
  PROVE  \A g \in Grants : bundles'[g] # None => Dated(bundles'[g])
<1>. DEFINE Goal == \A g \in Grants : bundles'[g] # None => Dated(bundles'[g])
<1>1. \A g \in Grants : bundles[g] # None => Dated(bundles[g]) /\ bundles[g] \in Bundle
  BY DEF IGood, LinkDates, IDisclosure, DisclosureTyped
<1>2. ASSUME UNCHANGED bundles PROVE Goal
  BY <1>1, <1>2
<1>3. ASSUME NEW h \in Grants, NEW claims, NEW expires, NEW told, NEW submitOnChain,
             createDisclosureGrant(h, claims, expires, told, submitOnChain),
             told # None => expires = told + Lifetime
      PROVE  Goal
  <2>. DEFINE b == [claims |-> claims, told |-> told, expiresAtLedger |-> expires,
                    onChainTx |-> FALSE, revoked |-> FALSE]
  <2>1. Dated(b)
    BY <1>3 DEF Dated
  <2>2. bundles' = [bundles EXCEPT ![h] = b]
    BY <1>3 DEF createDisclosureGrant
  <2>. HIDE DEF b
  <2>3. \A g \in Grants : bundles'[g] = IF g = h THEN b ELSE bundles[g]
    BY <2>2 DEF IDisclosure, DisclosureTyped
  <2>. QED  BY <1>1, <2>1, <2>3
<1>4. ASSUME create_answered \/ revoke_answered
      PROVE  Goal
  <2>1. PICK h, x : h = Head(queue).grantId /\ x = (Head(queue).at = "succeeded")
    OBVIOUS
  <2>2. h \in Grants /\ bundles[h] # None /\ x \in BOOLEAN
    <3>1. queue # <<>> /\ queue \in Seq(Call)
      BY <1>4 DEF create_answered, revoke_answered, IDisclosure, DisclosureTyped
    <3>2. Head(queue) \in Call /\ Head(queue) = queue[1] /\ 1 \in DOMAIN queue
      BY <3>1, QueueShrinks
    <3>3. x \in BOOLEAN
      BY <2>1
    <3>. QED  BY <2>1, <3>2, <3>3 DEF Call, IDisclosure, CallsKnown
  <2>3. /\ \A g \in Grants \ {h} : bundles'[g] = bundles[g]
        /\ bundles'[h] \in {[bundles[h] EXCEPT !.onChainTx = x], [bundles[h] EXCEPT !.revoked = TRUE]}
    <3>1. CASE create_answered
      <4>1. bundles' = [bundles EXCEPT ![h].onChainTx = x]
        BY <2>1, <3>1 DEF create_answered
      <4>. QED  BY <2>2, <4>1 DEF IDisclosure, DisclosureTyped
    <3>2. CASE revoke_answered
      <4>1. bundles' = [bundles EXCEPT ![h].revoked = TRUE]
        BY <2>1, <3>2 DEF revoke_answered, marked
      <4>. QED  BY <2>2, <4>1 DEF IDisclosure, DisclosureTyped
    <3>. QED  BY <1>4, <3>1, <3>2
  <2>4. Dated(bundles'[h])
    BY <1>1, <2>2, <2>3, MarkedKeepsDates
  <2>. QED  BY <1>1, <2>3, <2>4
<1>. HIDE DEF Goal
<1>5. ASSUME NEW g \in Grants, createDisclosure(g) PROVE Goal
  <2>1. createDisclosureGrant(g, observer.flow.positionId, expiresAtLedger,
                              observer.latestLedger, TRUE)
    BY <1>5 DEF createDisclosure
  <2>2. observer.latestLedger # None => expiresAtLedger = observer.latestLedger + Lifetime
    BY DEF expiresAtLedger
  <2>. QED  BY <1>3, <2>1, <2>2
<1>6. ASSUME NEW g \in Grants, NEW submitOnChain \in BOOLEAN, other_client_creates(g, submitOnChain)
      PROVE  Goal
  BY <1>3, <1>6 DEF other_client_creates
<1>7. ASSUME \/ CloseLedger \/ flow_goes_on \/ visit \/ demo_state_live \/ demo_state_cached
             \/ loadFlow \/ ViewerStep \/ operator_tx \/ operator_tx_fails \/ crash
             \/ \E g \in Grants : revokeDisclosureGrant(g)
             \/ \E c \in late : land_late(c) \/ expire(c)
             \/ UNCHANGED disclosureVars
      PROVE  Goal
  <2>1. UNCHANGED bundles
    BY <1>7 DEF CloseLedger, flow_goes_on, visit, demo_state_live, demo_state_cached, loadFlow,
       ViewerStep, open_link, read_bundle, verify, verify_fails, operator_tx, operator_tx_fails,
       crash, revokeDisclosureGrant, land_late, expire, disclosureVars
  <2>. QED  BY <1>2, <2>1
<1>8. Goal
  BY <1>4, <1>5, <1>6, <1>7 DEF Next, ObserverStep, ServiceStep, vars
<1>. QED  BY <1>8 DEF Goal

\* A page that has its answer is not asked again, and ledgers only go on.
LEMMA DatesStep ==
  ASSUME IDisclosure, IGood, [Next]_vars
  PROVE  IGood'
<1>1. \A g \in Grants : bundles'[g] # None => Dated(bundles'[g])
  BY RowsDated
<1>2. ledger \in Nat /\ ledger' \in Nat /\ ledger <= ledger'
  <2>1. ledger \in Nat
    BY DisclosureAssumption DEF IDisclosure, DisclosureTyped
  <2>2. CloseLedger => ledger' = ledger + 1
    BY DEF CloseLedger
  <2>3. ~CloseLedger => UNCHANGED ledger
    BY DEF Next, AuditingStep, flow_goes_on, ObserverStep, visit,
       demo_state_live, demo_state_cached, loadFlow, createDisclosure, ViewerStep, open_link,
       read_bundle, verify, verify_fails, ServiceStep, other_client_creates, revokeDisclosureGrant,
       operator_tx, operator_tx_fails, create_answered, revoke_answered, land_late, expire, crash,
       vars, disclosureVars
  <2>. QED  BY <2>1, <2>2, <2>3
<1>3. viewer \in ViewerPage
  BY DEF IDisclosure, DisclosureTyped
<1>4. ASSUME UNCHANGED viewer
      PROVE  IGood'
  <2>1. viewer.answered => viewer.bundle \in Bundle
    BY <1>3 DEF IGood, LinkDates, ViewerPage
  <2>2. viewer.answered /\ viewer.bundle.told # None => viewer.bundle.told + Lifetime \in Int
    BY <2>1, DisclosureAssumption DEF Bundle
  <2>. QED  BY <1>1, <1>2, <1>4, <2>2 DEF IGood, LinkDates, GoodLinkOpens, Dated
<1>5. CASE \E g \in links, rightKey \in BOOLEAN : open_link(g, rightKey)
  <2>1. ~viewer'.answered /\ viewer'.bundle = None
    BY <1>5 DEF open_link, NoViewer
  <2>. QED  BY <1>1, <2>1 DEF IGood, LinkDates, GoodLinkOpens
<1>6. CASE read_bundle
  <2>1. /\ viewer.grantId \in Grants /\ viewer.status = "checking" /\ ~viewer.answered
        /\ viewer' = [viewer EXCEPT !.bundle = bundles[viewer.grantId]]
    BY <1>3, <1>6 DEF read_bundle, ViewerPage, IGood, LinkDates
  <2>2. viewer'.bundle = bundles[viewer.grantId] /\ viewer'.status = "checking" /\ ~viewer'.answered
    BY <1>3, <2>1 DEF ViewerPage
  <2>. QED  BY <1>1, <2>1, <2>2 DEF IGood, LinkDates, GoodLinkOpens, Dated
<1>7. CASE verify
  <2>1. PICK latestLedger \in Latest \cup {None} :
          viewer' = [viewer EXCEPT !.answered = TRUE,
            !.status = IF verified(viewer.bundle, latestLedger) THEN "verified" ELSE "failed"]
    BY <1>7 DEF verify
  <2>2. viewer.bundle \in Bundle /\ viewer.bundle # None /\ Dated(viewer.bundle)
    BY <1>3, <1>7 DEF verify, ViewerPage, IGood, LinkDates
  <2>3. /\ viewer'.bundle = viewer.bundle /\ viewer'.answered /\ viewer'.rightKey = viewer.rightKey
        /\ viewer'.status = IF verified(viewer.bundle, latestLedger) THEN "verified" ELSE "failed"
    BY <1>3, <2>1 DEF ViewerPage
  <2>4. LinkDates'
    BY <1>1, <2>2, <2>3 DEF LinkDates
  <2>5. ASSUME viewer'.status = "failed", viewer'.rightKey, ~viewer.bundle.revoked,
               viewer.bundle.told # None
        PROVE  ledger' > viewer.bundle.told + Lifetime
    <3>1. latestLedger # None /\ ~(latestLedger <= viewer.bundle.expiresAtLedger)
      BY <2>3, <2>5 DEF verified
    <3>2. latestLedger \in Nat /\ latestLedger <= ledger
      <4>1. ledger \in 1 .. MaxLedger
        BY DEF IDisclosure, DisclosureTyped
      <4>. QED  BY <1>2, <3>1, <4>1, DisclosureAssumption DEF Latest
    <3>3. /\ viewer.bundle.expiresAtLedger \in Nat
          /\ viewer.bundle.expiresAtLedger = viewer.bundle.told + Lifetime
      BY <2>2, <2>5 DEF Bundle, Dated
    <3>. QED  BY <1>2, <3>1, <3>2, <3>3
  <2>6. GoodLinkOpens'
    BY <2>3, <2>5 DEF GoodLinkOpens
  <2>. QED  BY <2>4, <2>6 DEF IGood
<1>8. CASE verify_fails
  <2>1. /\ viewer.status = "checking" /\ viewer' = [viewer EXCEPT !.status = "failed"]
        /\ ~viewer.answered
    BY <1>8 DEF verify_fails, IGood, LinkDates
  <2>2. viewer'.bundle = viewer.bundle /\ ~viewer'.answered
    BY <1>3, <2>1 DEF ViewerPage
  <2>. QED  BY <1>1, <2>2 DEF IGood, LinkDates, GoodLinkOpens
<1>9. UNCHANGED viewer \/ ViewerStep
  BY DEF Next, AuditingStep, CloseLedger, flow_goes_on, ObserverStep, visit,
     demo_state_live, demo_state_cached, loadFlow, createDisclosure, ServiceStep,
     other_client_creates, revokeDisclosureGrant, operator_tx, operator_tx_fails, create_answered,
     revoke_answered, land_late, expire, crash, vars, disclosureVars
<1>. QED  BY <1>4, <1>5, <1>6, <1>7, <1>8, <1>9 DEF ViewerStep

-------------------------------------------------------------------------------
(* What a reader should know of.                                           *)

\* Rows, clients, grants, links and pages are what they are declared to be: calls
\* that are queued or late are of known grants, decryptions are of rows there are.
THEOREM DisclosureTypes == Spec => []TypeOK
<1>1. IInv => TypeOK
  BY DEF IInv, IAuditing, IDisclosure, DisclosureTyped, TypeOK
<1>. QED  BY <1>1, InvAlways, PTL

\* A row of evidence that was decrypted once tells what it holds ever after, given
\* the transfer's own data: parseDecryptRequest and hydrateEvidence write back the
\* row they read, with data a request may have brought, and lose neither what the
\* event nor what the auditor's payload told, for any clients that decrypt at any
\* time and any crash, unless two of them fetched for the row at once.
THEOREM SaltAlwaysKept == Spec => []SaltKept
<1>1. IInv => SaltKept
  BY DEF IInv, IAuditing, AuditingTypeOK, Salted, SaltKept, Tells
<1>. QED  BY <1>1, InvAlways, PTL

\* What a viewer's page shows as verified, of a link the observer page made, is
\* of a position whose history was verified on chain, however old the snapshot the
\* link was made from and whatever became of its grant, until a request to the demo
\* flow goes astray.  Of the flow it assumes FlowView, which DemoFlow implements
\* (FlowShownTruly).
THEOREM VerifiedLinksAreTrue == Spec => []VerifiedClaimsAreTrue
<1>1. IInv => VerifiedClaimsAreTrue
  BY DEF IInv, IDisclosure, ClaimsTrue, ClaimTrue, RevokedMarked, VerifiedClaimsAreTrue
<1>. QED  BY <1>1, InvAlways, PTL

\* A page opened after a revocation was answered never shows the fact, for any
\* fate of the revocation on chain: the row is marked before the answer.
THEOREM RevokedLinksFail == Spec => []RevokedNeverVerifies
<1>1. IInv => RevokedNeverVerifies
  BY DEF IInv, IDisclosure, RevokedMarked, RevokedNeverVerifies
<1>. QED  BY <1>1, InvAlways, PTL

\* Chain and table agree on a grant that nothing is in flight of, for any number of
\* grants, of revocations asked again and of other grants' transactions that fail,
\* are given up on, land late or die with the process: of a grant none of whose own
\* transactions did, the row knows whether it was granted, and is_valid answers
\* what the row says.
THEOREM ChainAndTableStayTogether == Spec => []ChainAndTableAgree
<1>1. IInv => IDisclosure
  BY DEF IInv
<1>. QED
  BY <1>1, AgreeInitial, AgreeStep, AgreeFollows, InitialInv, StepKeepsInv, PTL DEF Spec

\* A link that the observer page made, opened with its key, is only refused by an
\* answer once its time is over (or it was revoked), for any lifetime, counted from
\* the ledger the page had been told, and whichever of the latest ledgers the node
\* tells the verifier.
THEOREM GoodLinksOpen == Spec => []GoodLinkOpens
<1>1. IInv => IDisclosure
  BY DEF IInv
<1>2. IGood => GoodLinkOpens
  BY DEF IGood
<1>. QED
  BY <1>1, <1>2, DatesInitial, DatesStep, InitialInv, StepKeepsInv, PTL DEF Spec
================================================================================
