------------------------------ MODULE MCJobQueue ------------------------------
(***************************************************************************)
(* Tenant t1 submits twice under one key, and t1 (or t2) once without a    *)
(* key; several callers dispatch.                                          *)
(***************************************************************************)
EXTENDS JobQueue, TLC

CONSTANTS a, b, c, t1, t2, k

MCTenantOf    == [r \in Requests |-> IF r = c THEN t2 ELSE t1]
MCOneTenantOf == [r \in Requests |-> t1]
MCKeyOf       == [r \in Requests |-> IF r = c THEN NoKey ELSE k]
DispatcherSymmetry == Permutations(Dispatchers)

MCNoKeyOf     == [r \in Requests |-> NoKey]
=============================================================================
