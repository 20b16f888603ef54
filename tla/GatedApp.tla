------------------------------ MODULE GatedApp ------------------------------
(***************************************************************************)
(* contracts/src/GatedApp.sol over contracts/src/ProofGatekeeper.sol: a    *)
(* consumer that pays once per public-input hash that the registry calls   *)
(* proved.  Its transactions interleave with the registry's.               *)
(***************************************************************************)
EXTENDS ZKVerifierRegistry

CONSTANTS
  GatedCircuit,   \* GatedApp.CIRCUIT_ID
  Payout,         \* immutable payout
  ProofMaxAge,    \* immutable proofMaxAge, 0 for no expiry
  MaxFunding      \* bound: ether ever sent to the contract

ASSUME GatedAssumption ==
  /\ GatedCircuit \in Circuits
  /\ Payout \in Nat
  /\ ProofMaxAge \in Nat
  /\ MaxFunding \in Nat

VARIABLES
  paid,       \* public-input hashes already paid
  totalPaid,
  balance,    \* the contract's ether
  funded,     \* ether received so far
  paidAt      \* block of the payout of each hash, 0 before it

appVars   == <<paid, totalPaid, balance, funded, paidAt>>
gatedVars == <<vars, appVars>>

GatedInit ==
  /\ Init
  /\ paid = {}
  /\ totalPaid = 0
  /\ balance = 0
  /\ funded = 0
  /\ paidAt = [x \in Inputs |-> 0]

\* modifier onlyProved(CIRCUIT_ID, publicInputHash)
OnlyProved(x) == RequireProved(<<GatedCircuit, x>>, ProofMaxAge)

PayOut(x) ==
  /\ paid' = paid \cup {x}
  /\ totalPaid' = totalPaid + Payout
  /\ balance' = balance - Payout
  /\ paidAt' = [paidAt EXCEPT ![x] = now]
  /\ UNCHANGED <<vars, funded>>

ClaimUngated(x) ==     \* mutant: onlyProved dropped
  /\ x \notin paid
  /\ Payout <= balance
  /\ PayOut(x)

ClaimTwice(x) ==       \* mutant: AlreadyPaid check dropped
  /\ OnlyProved(x)
  /\ Payout <= balance
  /\ PayOut(x)

\* claim(x, recipient): the transfer of more than the balance reverts it all.
Claim(x) ==
  /\ OnlyProved(x)
  /\ x \notin paid
  /\ Payout <= balance
  /\ PayOut(x)

\* receive(): ether arrives.
Receive(amount) ==
  /\ funded + amount <= MaxFunding
  /\ balance' = balance + amount
  /\ funded' = funded + amount
  /\ UNCHANGED <<vars, paid, totalPaid, paidAt>>

GatedNext ==
  \/ Next /\ UNCHANGED appVars
  \/ \E x \in Inputs : Claim(x)
  \/ \E amount \in 1 .. MaxFunding : Receive(amount)

GatedSpec == GatedInit /\ [][GatedNext]_gatedVars

-----------------------------------------------------------------------------
GatedTypeOK ==
  /\ TypeOK
  /\ paid \subseteq Inputs
  /\ totalPaid \in Nat
  /\ balance \in Nat
  /\ funded \in Nat
  /\ paidAt \in [Inputs -> Nat]

\* The books balance: what was paid is one payout per paid hash, and it came
\* out of what was received, whatever transfers were refused for want of ether.
Solvent ==
  /\ totalPaid = Payout * Cardinality(paid)
  /\ balance + totalPaid = funded

\* Every payout rests on a proof: its hash has a leaf that a verifier the owner
\* registered for the circuit accepted, and was paid inside the leaf's lifetime,
\* though the owner may since have revoked it or replaced the verifier.
PayoutHasVerifiedLeaf ==
  \A x \in paid :
    \E l \in proofLeaves :
      /\ AnchorOf(l) = <<GatedCircuit, x>>
      /\ \E e \in circuitLog :
           /\ e.circuit = GatedCircuit
           /\ <<e.verifier, x, l.proof>> \in Accepts
      /\ paidAt[x] >= proofStatus[AnchorOf(l)].provedAt
      /\ ProofMaxAge # 0 => paidAt[x] <= proofStatus[AnchorOf(l)].provedAt + ProofMaxAge

\* "ProofExpired: re-prove": a registration that the registry accepts and
\* announces opens the gate for its inputs.  (It does not when the anchor was
\* registered before: a second proof leaves provedAt as it was.)
ReproveRecovers ==
  [][\A l \in Leaves :
       l.circuit = GatedCircuit /\ proofLog'[l] > proofLog[l] => OnlyProved(l.inputs)']_gatedVars
=============================================================================
