-------------------------- MODULE RepaymentHistoryProofs --------------------------
(***************************************************************************)
(* The registry of repayment histories for every set of positions, leaves  *)
(* and dates.                                                              *)
(*                                                                         *)
(* That a root never changes is not inductive by itself: deriving it again *)
(* gives the same root only because no leaf can have been added since.  So *)
(* the invariant says that a root IS the position's list of leaves, and    *)
(* that the list is full.  With the two stores of leaves in agreement, a   *)
(* verified claim about a root is one about the leaves on record.          *)
(*                                                                         *)
(* And the registry is an instance of HistoryRecord: leaves, then a root of *)
(* all of them, then a proof against it, none twice.                       *)
(***************************************************************************)
EXTENDS RepaymentHistory, FunctionTheorems, FiniteSetTheorems, TLAPS

ListsTyped == positionLeaves \in [PositionIds -> Seq(Leaves)]
RootTyped  == root \in [PositionIds -> Seq(Leaves) \cup {None}]

RootIsFullList ==
  \A p \in PositionIds :
    root[p] # None => /\ root[p] = positionLeaves[p]
                      /\ Len(positionLeaves[p]) = LeavesPerPosition

IRoot == ListsTyped /\ RootTyped /\ RootIsFullList

\* The registry starts with no leaf and no root.
LEMMA RootInit == Init => IRoot
  BY DEF Init, IRoot, ListsTyped, RootTyped, RootIsFullList

\* A leaf is only added to a list that is not full, so to one without a root.
LEMMA SeedKeepsRoot ==
  ASSUME IRoot, NEW p \in PositionIds, NEW l \in Leaves, NEW d \in Dates,
         seed_leaf(p, l, d[1], d[2])
  PROVE  IRoot'
<1>1. root' = root /\ Len(positionLeaves[p]) < LeavesPerPosition
  BY DEF seed_leaf
<1>2. positionLeaves' = [positionLeaves EXCEPT ![p] = Append(@, l)]
  BY DEF seed_leaf
<1>3. positionLeaves[p] \in Seq(Leaves)
  BY DEF IRoot, ListsTyped
<1>4. Append(positionLeaves[p], l) \in Seq(Leaves)
  BY <1>3
<1>5. ListsTyped'
  BY <1>2, <1>4 DEF IRoot, ListsTyped
<1>6. root[p] = None
  <2>1. Len(positionLeaves[p]) # LeavesPerPosition
    BY <1>1, <1>3 DEF LeavesPerPosition
  <2>2. root[p] # None => Len(positionLeaves[p]) = LeavesPerPosition
    BY DEF IRoot, RootIsFullList
  <2>. QED  BY <2>1, <2>2
<1>7. \A q \in PositionIds \ {p} : positionLeaves'[q] = positionLeaves[q]
  BY <1>2 DEF IRoot, ListsTyped
<1>8. RootIsFullList'
  BY <1>1, <1>6, <1>7 DEF IRoot, RootIsFullList
<1>. QED  BY <1>1, <1>5, <1>8 DEF IRoot, RootTyped

\* Deriving a root reads the full list.
LEMMA FinalizeKeepsRoot ==
  ASSUME IRoot, NEW p \in PositionIds, finalize_history_root(p)
  PROVE  IRoot'
<1>1. /\ positionLeaves' = positionLeaves
      /\ Len(positionLeaves[p]) = LeavesPerPosition
      /\ root' = [root EXCEPT ![p] = positionLeaves[p]]
  BY DEF finalize_history_root
<1>2. positionLeaves[p] \in Seq(Leaves)
  BY DEF IRoot, ListsTyped
<1>3. RootTyped'
  BY <1>1, <1>2 DEF IRoot, RootTyped
<1>4. RootIsFullList'
  BY <1>1, <1>2 DEF IRoot, RootTyped, RootIsFullList
<1>. QED  BY <1>1, <1>3, <1>4 DEF IRoot, ListsTyped

\* A verification changes neither lists nor roots.
LEMMA VerifyKeepsRoot ==
  ASSUME IRoot, NEW p \in PositionIds, NEW threshold, NEW s,
         verify_history(p, threshold, s)
  PROVE  IRoot'
  BY DEF verify_history, IRoot, ListsTyped, RootTyped, RootIsFullList

\* Every step of the registry preserves the invariant.
LEMMA RootStep == IRoot /\ [Next]_vars => IRoot'
<1>. SUFFICES ASSUME IRoot, [Next]_vars PROVE IRoot'
  OBVIOUS
<1>1. CASE UNCHANGED vars
  BY <1>1 DEF vars, IRoot, ListsTyped, RootTyped, RootIsFullList
<1>2. CASE Next
  <2>. PICK p \in PositionIds :
         \/ \E l \in Leaves, d \in Dates : seed_leaf(p, l, d[1], d[2])
         \/ finalize_history_root(p)
         \/ \E threshold \in 0 .. LeavesPerPosition + 1, s \in ProofSecrets :
              verify_history(p, threshold, s)
    BY <1>2 DEF Next
  <2>1. CASE \E l \in Leaves, d \in Dates : seed_leaf(p, l, d[1], d[2])
    BY <2>1, SeedKeepsRoot
  <2>2. CASE finalize_history_root(p)
    BY <2>2, FinalizeKeepsRoot
  <2>3. CASE \E threshold \in 0 .. LeavesPerPosition + 1, s \in ProofSecrets :
               verify_history(p, threshold, s)
    BY <2>3, VerifyKeepsRoot
  <2>. QED  BY <2>1, <2>2, <2>3
<1>. QED  BY <1>1, <1>2

\* A step from a state of the invariant changes no root that is set.
LEMMA RootStepStable ==
  ASSUME IRoot, [Next]_vars
  PROVE  \A p \in PositionIds : root[p] # None => root'[p] = root[p]
<1>. SUFFICES ASSUME NEW q \in PositionIds, root[q] # None PROVE root'[q] = root[q]
  OBVIOUS
<1>1. CASE UNCHANGED vars
  BY <1>1 DEF vars
<1>2. CASE Next
  <2>1. CASE root' = root
    BY <2>1
  <2>2. CASE \E p \in PositionIds : finalize_history_root(p)
    BY <2>2 DEF finalize_history_root, IRoot, RootTyped, RootIsFullList
  <2>. QED  BY <1>2, <2>1, <2>2 DEF Next, seed_leaf, verify_history
<1>. QED  BY <1>1, <1>2

\* The root of a position, once set, never changes, whatever is seeded and
\* however often it is derived (repayment-history-registry lib.rs:158-199).
THEOREM RootNeverChanges == Spec => RootStable
<1>1. Spec => []IRoot
  BY RootInit, RootStep, PTL DEF Spec
<1>2. IRoot /\ [Next]_vars => 
        [\A p \in PositionIds : root[p] # None => root'[p] = root[p]]_vars
  BY RootStepStable
<1>. QED  BY <1>1, <1>2, PTL DEF Spec, RootStable

-------------------------------------------------------------------------------
(* The two stores of leaves agree.                                         *)

LeafTyped == leaf \in [Leaves -> RepaymentLeaf \cup {None}]

FiledUnder(l, p) == leaf[l] # None /\ leaf[l].position_id = p

Lists(p, l) == \E i \in DOMAIN positionLeaves[p] : positionLeaves[p][i] = l

\* LeavesFiledOnce without the counting: what a list names is on record under
\* its position, what is on record is named, and no list names a leaf twice.
StoresAgree ==
  \A p \in PositionIds :
    /\ \A l \in Leaves : FiledUnder(l, p) <=> Lists(p, l)
    /\ \A i, j \in DOMAIN positionLeaves[p] :
         positionLeaves[p][i] = positionLeaves[p][j] => i = j

IFiled == LeafTyped /\ ListsTyped /\ StoresAgree

LEMMA FiledInit == Init => IFiled
  BY DEF Init, IFiled, LeafTyped, ListsTyped, StoresAgree, FiledUnder, Lists

\* Only a leaf on no record is seeded, so one no list names.
LEMMA SeedKeepsFiled ==
  ASSUME IFiled, NEW p \in PositionIds, NEW l \in Leaves, NEW d \in Dates,
         seed_leaf(p, l, d[1], d[2])
  PROVE  IFiled'
<1> DEFINE entry == [position_id |-> p, paid_ledger |-> d[1], due_ledger |-> d[2],
                     on_time |-> d[1] <= d[2]]
<1>1. entry \in RepaymentLeaf /\ entry # None
  <2>1. d[1] \in Nat /\ d[2] \in Nat
    BY HistoryAssumption
  <2>2. (d[1] <= d[2]) \in BOOLEAN
    OBVIOUS
  <2>3. entry \in RepaymentLeaf
    BY <2>1, <2>2 DEF RepaymentLeaf
  <2> QED
    BY <2>3, HistoryAssumption
<1>2. /\ leaf[l] = None /\ leaf' = [leaf EXCEPT ![l] = entry]
      /\ positionLeaves' = [positionLeaves EXCEPT ![p] = Append(@, l)]
  BY DEF seed_leaf
<1>3. /\ leaf'[l] = entry /\ \A k \in Leaves \ {l} : leaf'[k] = leaf[k]
      /\ LeafTyped'
  BY <1>1, <1>2 DEF IFiled, LeafTyped
<1>4. positionLeaves[p] \in Seq(Leaves)
  BY DEF IFiled, ListsTyped
<1>5. /\ positionLeaves'[p] = Append(positionLeaves[p], l)
      /\ \A q \in PositionIds \ {p} : positionLeaves'[q] = positionLeaves[q]
      /\ ListsTyped'
  BY <1>2, <1>4 DEF IFiled, ListsTyped
<1>6. \A q \in PositionIds : ~Lists(q, l)
  BY <1>2 DEF IFiled, StoresAgree, FiledUnder
<1>7. ASSUME NEW q \in PositionIds \ {p}
      PROVE  /\ \A k \in Leaves : FiledUnder(k, q)' <=> Lists(q, k)'
             /\ \A i, j \in DOMAIN positionLeaves'[q] :
                  positionLeaves'[q][i] = positionLeaves'[q][j] => i = j
  <2>1. \A k \in Leaves : Lists(q, k)' <=> Lists(q, k)
    BY <1>5 DEF Lists
  <2>2. ~FiledUnder(l, q)' /\ \A k \in Leaves \ {l} : FiledUnder(k, q)' <=> FiledUnder(k, q)
    BY <1>3 DEF FiledUnder
  <2> QED
    BY <1>5, <1>6, <2>1, <2>2 DEF IFiled, StoresAgree
<1>8. \A k \in Leaves : FiledUnder(k, p)' <=> Lists(p, k)'
  <2>1. FiledUnder(l, p)' /\ \A k \in Leaves \ {l} : FiledUnder(k, p)' <=> FiledUnder(k, p)
    BY <1>1, <1>3 DEF FiledUnder
  <2>2. Lists(p, l)' /\ \A k \in Leaves \ {l} : Lists(p, k)' <=> Lists(p, k)
    BY <1>4, <1>5 DEF Lists
  <2> QED
    BY <2>1, <2>2 DEF IFiled, StoresAgree
<1>9. \A i, j \in DOMAIN positionLeaves'[p] :
        positionLeaves'[p][i] = positionLeaves'[p][j] => i = j
  <2>1. \A i \in DOMAIN positionLeaves[p] : positionLeaves[p][i] # l
    BY <1>6 DEF Lists
  <2> QED
    BY <1>4, <1>5, <2>1 DEF IFiled, StoresAgree
<1> QED
  BY <1>3, <1>5, <1>7, <1>8, <1>9 DEF IFiled, StoresAgree

LEMMA FiledStep == IFiled /\ [Next]_vars => IFiled'
<1> SUFFICES ASSUME IFiled, [Next]_vars
             PROVE  IFiled'
  OBVIOUS
<1>1. CASE UNCHANGED <<leaf, positionLeaves>>
  BY <1>1 DEF IFiled, LeafTyped, ListsTyped, StoresAgree, FiledUnder, Lists
<1>2. \/ \E p \in PositionIds, l \in Leaves, d \in Dates : seed_leaf(p, l, d[1], d[2])
      \/ UNCHANGED <<leaf, positionLeaves>>
  BY DEF Next, finalize_history_root, verify_history, vars
<1> QED
  BY <1>1, <1>2, SeedKeepsFiled

LEMMA FiledAlways == Spec => []IFiled
<1> QED
  BY FiledInit, FiledStep, PTL DEF Spec

\* seed_leaf's refusal of a leaf on record: a leaf counts for one position and counts
\* once there, whatever order the leaves are seeded in.
THEOREM LeafFiledOnce == Spec => []LeavesFiledOnce
<1>1. IFiled => LeavesFiledOnce
  <2> SUFFICES ASSUME IFiled, NEW p \in PositionIds, NEW l \in Leaves
               PROVE  Cardinality({i \in DOMAIN positionLeaves[p] : positionLeaves[p][i] = l}) =
                        IF leaf[l] # None /\ leaf[l].position_id = p THEN 1 ELSE 0
    BY DEF LeavesFiledOnce
  <2>1. CASE FiledUnder(l, p)
    <3>1. PICK i \in DOMAIN positionLeaves[p] : positionLeaves[p][i] = l
      BY <2>1 DEF IFiled, StoresAgree, Lists
    <3>2. {k \in DOMAIN positionLeaves[p] : positionLeaves[p][k] = l} = {i}
      BY <3>1 DEF IFiled, StoresAgree
    <3> QED
      BY <2>1, <3>2, FS_Singleton DEF FiledUnder
  <2>2. CASE ~FiledUnder(l, p)
    <3>1. {k \in DOMAIN positionLeaves[p] : positionLeaves[p][k] = l} = {}
      BY <2>2 DEF IFiled, StoresAgree, Lists
    <3> QED
      BY <2>2, <3>1, FS_EmptySet DEF FiledUnder
  <2> QED
    BY <2>1, <2>2
<1> QED
  BY <1>1, FiledAlways, PTL

-------------------------------------------------------------------------------
(* What a verified claim says.                                             *)

\* The inductive invariant: every claim verified is one the circuit proves of
\* the position's present root.
ClaimsProven ==
  \A c \in verified :
    /\ c.position_id \in PositionIds
    /\ root[c.position_id] # None
    /\ proves(c.position_id, root[c.position_id], c.threshold)

LEMMA ClaimsProvenStep ==
  ASSUME IRoot, ClaimsProven, [Next]_vars
  PROVE  ClaimsProven'
<1>1. \A p \in PositionIds : root[p] # None => root'[p] = root[p]
  BY RootStepStable
<1>2. CASE verified' = verified
  BY <1>1, <1>2 DEF ClaimsProven
<1>3. ASSUME NEW p \in PositionIds, NEW threshold \in 0 .. LeavesPerPosition + 1,
             NEW s \in ProofSecrets, verify_history(p, threshold, s)
      PROVE  ClaimsProven'
  <2> DEFINE new == [position_id |-> p, threshold |-> threshold]
  <2>1. /\ root[p] # None /\ proves(p, root[p], threshold) /\ root' = root
        /\ verified' = verified \cup {new}
    BY <1>3 DEF verify_history
  <2>2. new.position_id = p /\ new.threshold = threshold
    OBVIOUS
  <2> HIDE DEF new
  <2> QED
    BY <2>1, <2>2 DEF ClaimsProven
<1>4. \/ verified' = verified
      \/ \E p \in PositionIds, threshold \in 0 .. LeavesPerPosition + 1, s \in ProofSecrets :
           verify_history(p, threshold, s)
  BY DEF Next, seed_leaf, finalize_history_root, vars
<1> QED
  BY <1>2, <1>3, <1>4

\* The on-time leaves of a history without repetition are as many as the places
\* that hold one.
LEMMA OnTimeCount ==
  ASSUME NEW history \in Seq(Leaves),
         \A i, j \in DOMAIN history : history[i] = history[j] => i = j
  PROVE  Cardinality({l \in {history[i] : i \in DOMAIN history} : on_time(l)}) =
           Cardinality({i \in DOMAIN history : on_time(history[i])})
<1> DEFINE places == {i \in DOMAIN history : on_time(history[i])}
           leaves == {l \in {history[i] : i \in DOMAIN history} : on_time(l)}
           at == [i \in places |-> history[i]]
<1>1. IsFiniteSet(places)
  <2>1. DOMAIN history = 1 .. Len(history) /\ Len(history) \in Nat
    OBVIOUS
  <2>2. IsFiniteSet(DOMAIN history)
    BY <2>1, FS_Interval
  <2> QED
    BY <2>2, FS_Subset
<1>2. at \in [places -> leaves]
  OBVIOUS
<1>3. \A i, j \in places : at[i] = at[j] => i = j
  OBVIOUS
<1>4. \A l \in leaves : \E i \in places : at[i] = l
  OBVIOUS
<1>5. at \in Bijection(places, leaves)
  <2> HIDE DEF places, leaves, at
  <2> QED
    BY <1>2, <1>3, <1>4, Fun_IsBij
<1>6. ExistsBijection(places, leaves)
  BY <1>5 DEF ExistsBijection
<1> HIDE DEF places, leaves
<1>7. Cardinality(leaves) = Cardinality(places)
  BY <1>1, <1>6, FS_Bijection
<1> QED
  BY <1>7 DEF places, leaves

\* verify_history checks the proof against the stored root, finalize_history_root
\* derives that root from the seeded leaves: every RepaymentHistoryVerified event
\* is for good true of the leaves on record under its position.
THEOREM VerifiedIsTrue == Spec => []VerifiedClaimsHold
<1>1. Init => ClaimsProven
  BY DEF Init, ClaimsProven
<1>2. Spec => []IRoot
  BY RootInit, RootStep, PTL DEF Spec
<1>3. Spec => []ClaimsProven
  BY <1>1, <1>2, ClaimsProvenStep, PTL DEF Spec
<1>4. IRoot /\ IFiled /\ ClaimsProven => VerifiedClaimsHold
  <2> SUFFICES ASSUME IRoot, IFiled, ClaimsProven, NEW c \in verified
               PROVE  LET seeded == {l \in Leaves : leaf[l] # None /\ leaf[l].position_id = c.position_id} IN
                      /\ \A l \in seeded : l.position_id = c.position_id /\ l.repayment_amount > 0
                      /\ Cardinality({l \in seeded : on_time(l)}) >= c.threshold
    BY DEF VerifiedClaimsHold
  <2> DEFINE p == c.position_id
             history == positionLeaves[p]
             seeded == {l \in Leaves : leaf[l] # None /\ leaf[l].position_id = p}
  <2>1. p \in PositionIds /\ proves(p, history, c.threshold)
    BY DEF ClaimsProven, IRoot, RootIsFullList
  <2>2. history \in Seq(Leaves)
    BY <2>1 DEF IRoot, ListsTyped
  <2>3. \A i, j \in DOMAIN history : history[i] = history[j] => i = j
    BY <2>1 DEF IFiled, StoresAgree
  <2>4. seeded = {history[i] : i \in DOMAIN history}
    <3>1. \A l \in Leaves : l \in seeded <=> Lists(p, l)
      BY <2>1 DEF IFiled, StoresAgree, FiledUnder
    <3>2. \A i \in DOMAIN history : history[i] \in Leaves
      BY <2>2
    <3> QED
      BY <3>1, <3>2 DEF Lists
  <2>5. Cardinality({i \in DOMAIN history : on_time(history[i])}) >= c.threshold
    BY <2>1 DEF proves
  <2>6. \A i \in DOMAIN history : history[i].position_id = p /\ history[i].repayment_amount > 0
    BY <2>1 DEF proves
  <2> HIDE DEF p, history, seeded
  <2>7. Cardinality({l \in seeded : on_time(l)}) >= c.threshold
    BY <2>2, <2>3, <2>4, <2>5, OnTimeCount
  <2>8. \A l \in seeded : l.position_id = p /\ l.repayment_amount > 0
    BY <2>4, <2>6
  <2> QED
    BY <2>7, <2>8 DEF p, seeded
<1> QED
  BY <1>2, <1>3, <1>4, FiledAlways, PTL

-------------------------------------------------------------------------------
(* What is on record comes in order.                                       *)

Filed == [p \in PositionIds |-> Len(positionLeaves[p])]
Rooted == {p \in PositionIds : root[p] # None}
Proven == {c.position_id : c \in verified}

\* A leaf is filed for a position that has no root yet, because a root is of the
\* full list (IRoot).
LEMMA SeedFiles ==
  ASSUME IRoot, NEW p \in PositionIds, NEW l \in Leaves, NEW d \in Dates,
         seed_leaf(p, l, d[1], d[2])
  PROVE  Record!File(p)
<1>1. /\ Len(positionLeaves[p]) < LeavesPerPosition
      /\ positionLeaves' = [positionLeaves EXCEPT ![p] = Append(@, l)]
      /\ UNCHANGED <<root, verified>>
  BY DEF seed_leaf
<1>2. positionLeaves \in [PositionIds -> Seq(Leaves)]
  BY DEF IRoot, ListsTyped
<1>3. Filed[p] < LeavesPerPosition
  BY <1>1 DEF Filed
<1>4. Filed' = [Filed EXCEPT ![p] = Filed[p] + 1]
  <2>1. /\ positionLeaves'[p] = Append(positionLeaves[p], l)
        /\ \A q \in PositionIds \ {p} : positionLeaves'[q] = positionLeaves[q]
    BY <1>1, <1>2
  <2>2. Len(positionLeaves'[p]) = Len(positionLeaves[p]) + 1
    BY <1>2, <2>1
  <2>. QED  BY <2>1, <2>2 DEF Filed
<1>5. p \notin Rooted
  <2>1. Len(positionLeaves[p]) # LeavesPerPosition
    BY <1>1, <1>2 DEF LeavesPerPosition
  <2>. QED  BY <2>1 DEF Rooted, IRoot, RootIsFullList
<1>6. UNCHANGED <<Rooted, Proven>>
  BY <1>1 DEF Rooted, Proven
<1>. QED  BY <1>3, <1>4, <1>5, <1>6 DEF Record!File, Filed, Rooted, Proven

\* Deriving a root, for the first time or again, is of a full list.
LEMMA FinalizeRoots ==
  ASSUME IRoot, NEW p \in PositionIds, finalize_history_root(p)
  PROVE  Record!Root(p)
<1>1. /\ Len(positionLeaves[p]) = LeavesPerPosition
      /\ root' = [root EXCEPT ![p] = positionLeaves[p]]
      /\ UNCHANGED <<positionLeaves, verified>>
  BY DEF finalize_history_root
<1>2. positionLeaves[p] # None
  BY HistoryAssumption DEF IRoot, ListsTyped
<1>3. Rooted' = Rooted \cup {p}
  BY <1>1, <1>2 DEF Rooted, IRoot, RootTyped
<1>4. Filed[p] = LeavesPerPosition /\ UNCHANGED <<Filed, Proven>>
  BY <1>1 DEF Filed, Proven
<1>. QED  BY <1>3, <1>4 DEF Record!Root, Filed, Rooted, Proven

LEMMA VerifyProves ==
  ASSUME NEW p \in PositionIds, NEW threshold, NEW s, verify_history(p, threshold, s)
  PROVE  Record!Prove(p)
<1>1. /\ root[p] # None /\ UNCHANGED <<positionLeaves, root>>
      /\ verified' = verified \cup {[position_id |-> p, threshold |-> threshold]}
  BY DEF verify_history
<1>2. Proven' = Proven \cup {p}
  <2>. PICK claim : claim = [position_id |-> p, threshold |-> threshold]
    OBVIOUS
  <2>1. verified' = verified \cup {claim} /\ claim.position_id = p
    BY <1>1
  <2>2. \A q : q \in Proven' <=> q \in Proven \/ q = p
    BY <2>1 DEF Proven
  <2>. QED  BY <2>2
<1>3. p \in Rooted /\ UNCHANGED <<Filed, Rooted>>
  BY <1>1 DEF Filed, Rooted
<1>. QED  BY <1>2, <1>3 DEF Record!Prove, Filed, Rooted, Proven

LEMMA RecordStep == IRoot /\ [Next]_vars => [Record!Next]_(Record!recordVars)
<1>. SUFFICES ASSUME IRoot, [Next]_vars
              PROVE  Record!Next \/ UNCHANGED Record!recordVars
  OBVIOUS
<1>1. CASE UNCHANGED vars
  BY <1>1 DEF vars, Record!recordVars
<1>2. CASE Next
  BY <1>2, SeedFiles, FinalizeRoots, VerifyProves DEF Next, Record!Next
<1>. QED  BY <1>1, <1>2

\* The registry implements HistoryRecord: leaves of a position are filed up to
\* their number and never after its root, and only what has a root is proven.
THEOREM RecordKeptInOrder == Spec => Record!Spec
<1>1. Init => Record!Init
  BY DEF Init, Record!Init
<1>. QED  BY <1>1, RootInit, RootStep, RecordStep, PTL DEF Spec, Record!Spec
=================================================================================
