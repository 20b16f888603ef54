------------------------------ MODULE MCGatedApp ------------------------------
(***************************************************************************)
(* The registry with one circuit whose owner may move it from verifier v1  *)
(* to v2, two proofs of the same inputs under v1, one of them also under   *)
(* v2, and one proof of other inputs; over it the demo faucet: payout 1,   *)
(* anchors expire after one block, the contract may run out of ether.  The *)
(* implementations are those of the test suite: V1 and V2, which extends   *)
(* V1 and reports schema 2.                                                *)
(***************************************************************************)
EXTENDS GatedApp

CONSTANTS c1, v1, v2, k1, k2, x1, x2, p1, p2, V1, V2

MCConfigs == {<<v1, k1>>, <<v2, k2>>}
MCAccepts == {<<v1, x1, p1>>, <<v1, x1, p2>>, <<v2, x1, p2>>, <<v1, x2, p1>>}

MCSchemaConst    == [i \in Impls |-> 1]
MCSchemaReported == [i \in Impls |-> IF i = V1 THEN 1 ELSE 2]
=============================================================================
