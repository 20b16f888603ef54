------------------------------ MODULE ChainGate ------------------------------
(***************************************************************************)
(* checkChain() of packages/cli/scripts/gatekeeper-lib.mjs over the        *)
(* registry: four eth_calls at "latest", each of which may see a later     *)
(* block than the one before it, or fail.  The node serves one chain that  *)
(* only grows.                                                             *)
(***************************************************************************)
EXTENDS ZKVerifierRegistry

CONSTANTS MaxAges     \* values of --max-age

ASSUME ChainGateAssumption == MaxAges \subseteq Nat

VARIABLES
  check,     \* pc, the leaf of the envelope, maxAge; ok: no check failed so far
  \* History of the blocks since the check began:
  some,      \* in one of them every fact the gate asks for held
  all,       \* in each of them they did
  rpcError   \* an eth_call failed

gateHistory == <<some, all, rpcError>>
chainVars   == <<vars, check, gateHistory>>

\* What the four calls are to establish.
Holds(leaf, maxAge) ==
  /\ Registered(leaf.circuit) /\ circuits[leaf.circuit].active
  /\ circuits[leaf.circuit].vkHash = leaf.vkHash
  /\ leaf \in proofLeaves
  /\ RequireProved(AnchorOf(leaf), maxAge)

ChainInit ==
  /\ Init
  /\ check \in [pc : {"new"}, leaf : Leaves, maxAge : MaxAges, ok : {TRUE}]
  /\ some = FALSE /\ all = TRUE /\ rpcError = FALSE

Running == check.pc \notin {"new", "verified", "blocked"}

Begin ==
  /\ check.pc = "new"
  /\ check' = [check EXCEPT !.pc = "circuits"]
  /\ some' = Holds(check.leaf, check.maxAge)
  /\ all'  = Holds(check.leaf, check.maxAge)
  /\ UNCHANGED <<vars, rpcError>>

Then(pc, holds) ==
  /\ check' = [check EXCEPT !.pc = pc, !.ok = check.ok /\ holds]
  /\ UNCHANGED <<vars, gateHistory>>

\* circuits(circuitId); an error returns what there is.
ReadCircuits ==
  LET cfg == circuits[check.leaf.circuit] IN
  /\ check.pc = "circuits"
  /\ Then("status", cfg.verifier # NoVerifier /\ cfg.active /\ cfg.vkHash = check.leaf.vkHash)

\* getProofStatus(circuitId, publicInputHash); an error returns what there is.
ReadStatus ==
  /\ check.pc = "status"
  /\ Then("leaf", proofStatus[AnchorOf(check.leaf)].status = "Proved")

ReadLeafOfInputs ==    \* mutant: any proof of these inputs will do
  /\ check.pc = "leaf"
  /\ Then("proved", \E l \in proofLeaves : AnchorOf(l) = AnchorOf(check.leaf))

\* proofLeaves(proofHash), the anchor of this very proof object
ReadLeaf ==
  /\ check.pc = "leaf"
  /\ Then("proved", check.leaf \in proofLeaves)

ReadProvedAged ==    \* mutant: without a maximum age a proof expires at once
  LET entry == proofStatus[AnchorOf(check.leaf)]
      ok    == check.ok /\ entry.status = "Proved" /\ now <= entry.provedAt + check.maxAge
  IN
  /\ check.pc = "proved"
  /\ check' = [check EXCEPT !.pc = IF ok THEN "verified" ELSE "blocked", !.ok = ok]
  /\ UNCHANGED <<vars, gateHistory>>

\* requireProved(circuitId, publicInputHash, maxAge), and runGate()'s verdict
ReadProved ==
  LET ok == check.ok /\ RequireProved(AnchorOf(check.leaf), check.maxAge) IN
  /\ check.pc = "proved"
  /\ check' = [check EXCEPT !.pc = IF ok THEN "verified" ELSE "blocked", !.ok = ok]
  /\ UNCHANGED <<vars, gateHistory>>

\* The gate is fail-closed: whether the check goes on after an error or not,
\* the verdict is the same.
CallFails ==
  /\ Running
  /\ check' = [check EXCEPT !.pc = "blocked", !.ok = FALSE]
  /\ rpcError' = TRUE
  /\ UNCHANGED <<vars, some, all>>

\* A block of the chain.
Block ==
  /\ Next
  /\ UNCHANGED <<check, rpcError>>
  /\ some' = (some \/ (Running /\ Holds(check.leaf, check.maxAge)'))
  /\ all'  = (all /\ (Running => Holds(check.leaf, check.maxAge)'))

ChainNext == Begin \/ ReadCircuits \/ ReadStatus \/ ReadLeaf \/ ReadProved \/ CallFails \/ Block

ChainSpec == ChainInit /\ [][ChainNext]_chainVars

-----------------------------------------------------------------------------
\* Though the four calls read four different blocks, between which proofs are
\* registered and revoked and circuits replaced and deactivated, a verified
\* report is true of one block since the check began: there all of it held.
VerifiedInOneBlock == check.pc = "verified" => some

\* A proof is blocked only for a reason: a call failed, or in some block since
\* the check began not everything held.
BlockedForReason == check.pc = "blocked" => rpcError \/ ~all
=============================================================================
