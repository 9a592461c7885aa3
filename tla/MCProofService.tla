--------------------------- MODULE MCProofService ---------------------------
(***************************************************************************)
(* Small instances of ProofService.  Two prove requests share the GPU      *)
(* gate: one can run, or be the orphan of a dropped handler, while the     *)
(* other waits at the gate or in the pool.  c1 is a CPU route.             *)
(***************************************************************************)
EXTENDS ProofService

CONSTANTS g1, g2, c1

MCProve == {g1, g2}
MCGpu == {g1, g2}
MCRequests == {g1, g2, c1}
=============================================================================
