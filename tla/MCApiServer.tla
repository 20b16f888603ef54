----------------------------- MODULE MCApiServer -----------------------------
(***************************************************************************)
(* Two clients, three requests.  The calls include a repeated nonce, a     *)
(* fast clock, a missing role, a wrong secret, and a body that validation  *)
(* rewrites.  A "general" bucket fills in exactly two windows, so that no  *)
(* drop of one may give its client anything, and the refill of "verify"    *)
(* does not divide a token.                                                *)
(***************************************************************************)
EXTENDS ApiServer, TLC

CONSTANTS alice, bob, n1, n2

Call(op, key, secret, nonce, skew, body) ==
  [op |-> op, key |-> key, secret |-> secret, nonce |-> nonce, skew |-> skew,
   headers |-> TRUE, body |-> body]

MCCalls ==
  { Call("status", alice, alice, n1, 0, "canonical"),
    Call("verify", bob, bob, n1, 0, "canonical"),
    Call("verify", bob, bob, n2, 2, "canonical"),
    Call("circuits", bob, bob, n2, 0, "canonical"),
    Call("verify", alice, bob, n1, 0, "coerced") }

Entry(client, roles) == [client |-> client, roles |-> roles]
Env(keys, rpc, proxy) == [keys |-> keys, rpc |-> rpc, proxy |-> proxy]

MCEnvironments ==
  { Env(<<Entry(alice, {"read", "audit"}), Entry(bob, {"submit"})>>, "url", "address"),
    Env(<<Entry(alice, {"read"}), Entry(alice, {"audit"})>>, "", ""),
    Env(<<Entry(alice, {"admin"})>>, "url", ""),
    Env(<<Entry(alice, {"read"})>>, "url", "malformed") }

MCLimit == [k \in Kinds |-> IF k = "general" THEN [capacity |-> 2, refill |-> 1]
                            ELSE [capacity |-> 1, refill |-> 3]]

MCSymmetry == Permutations(Requests)
=============================================================================
