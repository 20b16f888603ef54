------------------------------ MODULE MCKeyStore ------------------------------
(* Two processes share a key file; keys are interchangeable, those that    *)
(* can only verify among themselves.                                       *)
EXTENDS KeyStore, TLC

Symmetry == Permutations(Keys \ Verifying) \cup Permutations(Verifying) \cup Permutations(Procs)
=============================================================================
