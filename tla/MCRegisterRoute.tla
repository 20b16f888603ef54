--------------------------- MODULE MCRegisterRoute ---------------------------
(***************************************************************************)
(* Three requests under one key: r1 and r2 carry the same submission, r3   *)
(* another one, which the contract would accept and the local engine does  *)
(* not.  The owner may pause, deactivate the circuit or revoke the anchor, *)
(* which makes a transaction that was fine when sent revert.               *)
(***************************************************************************)
EXTENDS RegisterRoute

CONSTANTS c1, v1, v2, k1, k2, x1, x2, p1, V1, key, r1, r2, r3

MCConfigs == {<<v1, k1>>}
MCAccepts == {<<v1, x1, p1>>, <<v1, x2, p1>>}
MCEngine  == {<<x1, p1>>}
MCSchema  == [i \in Impls |-> 1]
MCKeyOf   == [r \in Requests |-> key]
MCPayload == [r \in Requests |->
               [circuit |-> c1, inputs |-> IF r = r3 THEN x2 ELSE x1, proof |-> p1]]
=============================================================================
