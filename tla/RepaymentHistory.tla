---------------------------- MODULE RepaymentHistory ----------------------------
(***************************************************************************)
(* RepaymentHistoryRegistry and the repayment_history circuit.             *)
(*                                                                         *)
(* The operator seeds three repayment leaves for a position, the contract  *)
(* derives the position's history root from exactly these three, and an    *)
(* anchor then proves, against the root and without showing the leaves,    *)
(* that at least `threshold` of its repayments were on time.               *)
(*                                                                         *)
(* A Poseidon hash is represented by what it hashes (it has no collisions):*)
(* a leaf by its repayment and its secret, a root by its leaves, a         *)
(* nullifier by the claim and the secret it was derived from.  One         *)
(* repayment with two secrets is two leaves, for contract and circuit.     *)
(***************************************************************************)
EXTENDS Integers, Sequences, FiniteSets

CONSTANTS
  PositionIds,   \* position ids the operator files leaves under
  Leaves,        \* repayments, each with a leaf_secret, whose hashes may be seeded
  Dates,         \* <<paid, due>> pairs the operator may record with a leaf
  ProofSecrets,  \* secrets a proof nullifier is derived from
  None

LeavesPerPosition == 3

RepaymentLeaf == [position_id : PositionIds, paid_ledger : Nat, due_ledger : Nat,
                  on_time : BOOLEAN]

ASSUME HistoryAssumption ==
  /\ \A l \in Leaves :
       l.position_id \in PositionIds /\ l.repayment_amount \in Nat
                /\ l.paid_ledger \in Nat /\ l.due_ledger \in Nat
  /\ Dates \subseteq Nat \X Nat
  /\ None \notin RepaymentLeaf /\ None \notin Seq(Leaves)

VARIABLES
  leaf,            \* StorageKey::Leaf(leaf_nullifier) -> RepaymentLeaf
  positionLeaves,  \* StorageKey::PositionLeaves(position_id), in order of seeding
  root,            \* StorageKey::Root(position_id)
  proofNullifier,  \* the nullifiers with a StorageKey::ProofNullifier entry
  verified         \* history: the RepaymentHistoryVerified events, as claims

vars == <<leaf, positionLeaves, root, proofNullifier, verified>>

\* "At least `threshold` repayments of the history of `position_id` were on time."
Claim == [position_id : PositionIds, threshold : Nat]

TypeOK ==
  /\ leaf \in [Leaves -> RepaymentLeaf \cup {None}]
  /\ positionLeaves \in [PositionIds -> Seq(Leaves)]
  /\ root \in [PositionIds -> Seq(Leaves) \cup {None}]
  /\ verified \subseteq Claim

Init ==
  /\ leaf = [l \in Leaves |-> None]
  /\ positionLeaves = [p \in PositionIds |-> <<>>]
  /\ root = [p \in PositionIds |-> None]
  /\ proofNullifier = {}
  /\ verified = {}

-------------------------------------------------------------------------------
(* The circuit.                                                            *)

on_time(l) == l.paid_ledger <= l.due_ledger

\* Variant with a plausible bug: one late repayment too many is accepted.
mut_proves_one_less(p, history, threshold) ==
  /\ threshold \in 1 .. LeavesPerPosition
  /\ \A i \in DOMAIN history : history[i].position_id = p /\ history[i].repayment_amount > 0
  /\ Cardinality({i \in DOMAIN history : on_time(history[i])}) >= threshold - 1

\* There is a proof that the leaves under the root are three different leaves, all
\* of positive repayments of the position, at least `threshold` of them on time.
proves(p, history, threshold) ==
  /\ threshold \in 1 .. LeavesPerPosition
  /\ Len(history) = LeavesPerPosition
  /\ \A i \in DOMAIN history :
       /\ history[i].position_id = p
       /\ history[i].repayment_amount > 0
       /\ \A j \in DOMAIN history \ {i} : history[i] # history[j]
  /\ Cardinality({i \in DOMAIN history : on_time(history[i])}) >= threshold

-------------------------------------------------------------------------------
(* The contract.                                                           *)

\* Variant with a plausible bug: a leaf may be filed under two positions.
mut_seed_leaf_again(p, l, paid, due) ==
  /\ Len(positionLeaves[p]) < LeavesPerPosition
  /\ positionLeaves' = [positionLeaves EXCEPT ![p] = Append(@, l)]
  /\ leaf' = [leaf EXCEPT ![l] =
       [position_id |-> p, paid_ledger |-> paid, due_ledger |-> due,
        on_time |-> paid <= due]]
  /\ UNCHANGED <<root, proofNullifier, verified>>

\* seed_leaf(): the leaf is a hash the operator passes; the dates next to it
\* are separate arguments, which nothing compares with the hashed ones.
seed_leaf(p, l, paid, due) ==
  /\ leaf[l] = None
  /\ Len(positionLeaves[p]) < LeavesPerPosition
  /\ positionLeaves' = [positionLeaves EXCEPT ![p] = Append(@, l)]
  /\ leaf' = [leaf EXCEPT ![l] =
       [position_id |-> p, paid_ledger |-> paid, due_ledger |-> due,
        on_time |-> paid <= due]]
  /\ UNCHANGED <<root, proofNullifier, verified>>

\* Variant with a plausible bug: the root may be set before the last leaf.
mut_finalize_early(p) ==
  /\ Len(positionLeaves[p]) >= LeavesPerPosition - 1
  /\ root' = [root EXCEPT ![p] = positionLeaves[p]]
  /\ UNCHANGED <<leaf, positionLeaves, proofNullifier, verified>>

\* finalize_history_root(): may be called again, and derives the root again.
finalize_history_root(p) ==
  /\ Len(positionLeaves[p]) = LeavesPerPosition
  /\ root' = [root EXCEPT ![p] = positionLeaves[p]]
  /\ UNCHANGED <<leaf, positionLeaves, proofNullifier, verified>>

\* The nullifier a proof for this claim and secret exposes.
nullifier(p, threshold, secret) ==
  [position_id |-> p, history_root |-> root[p], threshold |-> threshold, secret |-> secret]

verify_history(p, threshold, secret) ==
  /\ root[p] # None
  /\ nullifier(p, threshold, secret) \notin proofNullifier
  /\ proves(p, root[p], threshold)
  /\ proofNullifier' = proofNullifier \cup {nullifier(p, threshold, secret)}
  /\ verified' = verified \cup {[position_id |-> p, threshold |-> threshold]}
  /\ UNCHANGED <<leaf, positionLeaves, root>>

Next ==
  \E p \in PositionIds :
    \/ \E l \in Leaves, d \in Dates : seed_leaf(p, l, d[1], d[2])
    \/ finalize_history_root(p)
    \/ \E threshold \in 0 .. LeavesPerPosition + 1, s \in ProofSecrets :
         verify_history(p, threshold, s)

Spec == Init /\ [][Next]_vars

-------------------------------------------------------------------------------
(* What makes the registry correct.                                        *)

\* The two stores agree: a leaf is recorded under a position exactly when the
\* position's list names it, and then once.  So a leaf counts for one position
\* only, whatever order the leaves are seeded in (a repayment may be two leaves).
LeavesFiledOnce ==
  \A p \in PositionIds, l \in Leaves :
    Cardinality({i \in DOMAIN positionLeaves[p] : positionLeaves[p][i] = l}) =
      IF leaf[l] # None /\ leaf[l].position_id = p THEN 1 ELSE 0

\* A root, once set, is the position's for good: deriving it again gives the
\* same, so no proof verified against it is ever about another history.
\* (seed_leaf refuses a fourth leaf, finalize_history_root fewer than three.)
RootStable ==
  [][\A p \in PositionIds : root[p] # None => root'[p] = root[p]]_vars

\* Every claim ever verified is true of the leaves seeded under its position:
\* all are of its own repayments and at least `threshold` of one on time.
VerifiedClaimsHold ==
  \A c \in verified :
    LET seeded == {l \in Leaves : leaf[l] # None /\ leaf[l].position_id = c.position_id} IN
    /\ \A l \in seeded : l.position_id = c.position_id /\ l.repayment_amount > 0
    /\ Cardinality({l \in seeded : on_time(l)}) >= c.threshold

\* Leaves, root and claims of a position come in this order only, and the root
\* ends the seeding: what HistoryRecord says, and the demo flow relies on.
Record == INSTANCE HistoryRecord WITH
  filed <- [p \in PositionIds |-> Len(positionLeaves[p])],
  rooted <- {p \in PositionIds : root[p] # None},
  proven <- {c.position_id : c \in verified}
=================================================================================
