------------------------------ MODULE MCProofQueue ------------------------------
(***************************************************************************)
(* Instances of the proof queue for TLC: the API container serves the      *)
(* requests, the prover-worker container runs one loop.                    *)
(***************************************************************************)
EXTENDS ProofQueue

CONSTANTS api, prover_worker, worker

MCHostOf == [t \in Tasks |-> IF t \in Workers THEN prover_worker ELSE api]
=================================================================================
