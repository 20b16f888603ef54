----------------------------- MODULE MCChainGate -----------------------------
(***************************************************************************)
(* One circuit whose owner may move it from verifier v1 to v2, two proofs  *)
(* of the same inputs under v1 and one under v2.                           *)
(***************************************************************************)
EXTENDS ChainGate

CONSTANTS c1, v1, v2, k1, k2, x1, p1, p2, p3, V1

MCConfigs == {<<v1, k1>>, <<v2, k2>>}
MCAccepts == {<<v1, x1, p1>>, <<v1, x1, p2>>, <<v2, x1, p3>>}
MCSchema  == [i \in Impls |-> 1]
=============================================================================
