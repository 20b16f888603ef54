--------------------------------- MODULE MCCli ---------------------------------
(***************************************************************************)
(* Two zk processes over one profile, two APIs, two proofs of one input,   *)
(* and both saves within one millisecond or not.                           *)
(***************************************************************************)
EXTENDS Cli, TLC

CONSTANTS p1, p2, q1, q2, d1, d2, u1, u2, s1, s2

MCCredentials == {[url |-> u1, secret |-> s1], [url |-> u2, secret |-> s2]}

\* The two APIs are exchanged together with their secrets.
Accounts == {u1 :> u1, u1 :> u2 @@ u2 :> u1 @@ s1 :> s2 @@ s2 :> s1}
Symmetry == {a @@ b @@ c @@ d : a \in Accounts, b \in Permutations(Procs),
             c \in Permutations(ProofIds), d \in Permutations(Deployments)}
=============================================================================
