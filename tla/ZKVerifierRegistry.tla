------------------------- MODULE ZKVerifierRegistry -------------------------
(***************************************************************************)
(* contracts/src/ZKVerifierRegistry.sol: the append-only ledger of Groth16 *)
(* proofs.  A transaction is atomic: one action per external function, its *)
(* guard the conjunction of the function's reverts.  A call that reverts   *)
(* changes nothing and is not a step.  keccak256 is taken to be injective: *)
(* an anchor <<circuitId, publicInputHash>> is the pair of a circuit and a *)
(* vector of public inputs, and a proofHash is the tuple it hashes.        *)
(***************************************************************************)
EXTENDS Integers, FiniteSets

CONSTANTS
  Circuits,       \* circuit ids
  Verifiers,      \* deployed IZkVerifier adapters
  NoVerifier,     \* address(0)
  VkHashes,       \* vk hashes the owner may register or a caller may pass
  ZeroHash,       \* bytes32(0), the vkHash of an unregistered circuit
  Configs,        \* <<verifier, vkHash>> pairs the owner registers
  Inputs,         \* public-input vectors
  Proofs,         \* proof objects (a, b, c)
  Accepts,        \* <<verifier, inputs, proof>> for which verifyProof is true
  Impls,          \* deployed candidate implementations behind the UUPS proxy
  FirstImpl,      \* the implementation the proxy was initialized with
  SchemaConst,    \* SchemaConst[i]: SCHEMA_VERSION compiled into i
  SchemaReported, \* SchemaReported[i]: what i.getSchemaVersion() returns
  MaxTime,        \* bound: last block timestamp
  MaxEmits        \* bound: an announced proof is submitted again below this many events

ASSUME RegistryAssumption ==
  /\ NoVerifier \notin Verifiers
  /\ ZeroHash \notin VkHashes
  /\ Configs \subseteq Verifiers \X VkHashes
  /\ Accepts \subseteq Verifiers \X Inputs \X Proofs
  /\ FirstImpl \in Impls
  /\ SchemaConst \in [Impls -> Nat]
  /\ SchemaReported \in [Impls -> Nat]
  /\ SchemaReported[FirstImpl] = SchemaConst[FirstImpl]
  /\ MaxTime \in Nat \ {0}
  /\ MaxEmits \in Nat \ {0}

VARIABLES
  circuits,     \* circuitId => CircuitConfig
  proofLeaves,  \* registered proof hashes
  proofStatus,  \* anchor => ProofEntry
  totalProofs,
  paused,       \* PausableUpgradeable
  impl,         \* implementation the proxy delegates to
  now,          \* block.timestamp
  circuitLog,   \* CircuitRegistered events emitted so far
  proofLog      \* proofLog[h]: number of ProofRegistered events carrying h

ledgerVars == <<proofLeaves, proofStatus, totalProofs, proofLog>>
adminVars  == <<circuits, paused, impl, circuitLog>>
vars       == <<ledgerVars, adminVars, now>>

Anchors == Circuits \X Inputs
Leaves  == [circuit : Circuits, vkHash : VkHashes, inputs : Inputs, proof : Proofs]

AnchorOf(leaf) == <<leaf.circuit, leaf.inputs>>

CircuitConfig == [verifier : Verifiers \cup {NoVerifier},
                  vkHash   : VkHashes \cup {ZeroHash},
                  active   : BOOLEAN]
ProofEntry    == [status : {"None", "Proved", "Revoked"}, provedAt : Nat]

CircuitEvents == [circuit : Circuits, verifier : Verifiers, vkHash : VkHashes]

Registered(c) == circuits[c].verifier # NoVerifier

(***************************************************************************)
(* The proxy right after initialize(owner_): every mapping reads as zero.  *)
(***************************************************************************)
Init ==
  /\ circuits = [c \in Circuits |->
                   [verifier |-> NoVerifier, vkHash |-> ZeroHash, active |-> FALSE]]
  /\ proofLeaves = {}
  /\ proofStatus = [a \in Anchors |-> [status |-> "None", provedAt |-> 0]]
  /\ totalProofs = 0
  /\ paused = FALSE
  /\ impl = FirstImpl
  /\ now = 1
  /\ circuitLog = {}
  /\ proofLog = [l \in Leaves |-> 0]

-----------------------------------------------------------------------------
(* Owner functions (onlyOwner).                                            *)

RegisterCircuit(c, v, vk) ==
  /\ circuits'   = [circuits EXCEPT ![c] = [verifier |-> v, vkHash |-> vk, active |-> TRUE]]
  /\ circuitLog' = circuitLog \cup {[circuit |-> c, verifier |-> v, vkHash |-> vk]}
  /\ UNCHANGED <<ledgerVars, paused, impl, now>>

DeactivateCircuit(c) ==
  /\ Registered(c)
  /\ circuits' = [circuits EXCEPT ![c].active = FALSE]
  /\ UNCHANGED <<ledgerVars, paused, impl, circuitLog, now>>

Pause ==
  /\ ~paused
  /\ paused' = TRUE
  /\ UNCHANGED <<ledgerVars, circuits, impl, circuitLog, now>>

Unpause ==
  /\ paused
  /\ paused' = FALSE
  /\ UNCHANGED <<ledgerVars, circuits, impl, circuitLog, now>>

RevokeProofDeletes(a) ==   \* mutant: revocation clears the status
  /\ proofStatus[a].status = "Proved"
  /\ proofStatus' = [proofStatus EXCEPT ![a].status = "None"]
  /\ UNCHANGED <<proofLeaves, totalProofs, proofLog, adminVars, now>>

RevokeProof(a) ==
  /\ proofStatus[a].status = "Proved"
  /\ proofStatus' = [proofStatus EXCEPT ![a].status = "Revoked"]
  /\ UNCHANGED <<proofLeaves, totalProofs, proofLog, adminVars, now>>

\* _authorizeUpgrade runs in the current implementation and compares with its
\* own compile-time SCHEMA_VERSION.
Upgrade(i) ==
  /\ SchemaReported[i] \in SchemaConst[impl] .. SchemaConst[impl] + 1
  /\ impl' = i
  /\ UNCHANGED <<ledgerVars, circuits, paused, circuitLog, now>>

-----------------------------------------------------------------------------
(* registerProof, open to every caller.                                    *)

VerifierAccepts(leaf) ==
  <<circuits[leaf.circuit].verifier, leaf.inputs, leaf.proof>> \in Accepts

CanRegisterAnyVk(leaf) ==         \* mutant: vkHash not compared
  /\ ~paused
  /\ Registered(leaf.circuit)
  /\ circuits[leaf.circuit].active
  /\ VerifierAccepts(leaf)
  /\ proofStatus[AnchorOf(leaf)].status # "Revoked"

CanRegister(leaf) ==
  /\ ~paused
  /\ Registered(leaf.circuit)
  /\ circuits[leaf.circuit].active
  /\ circuits[leaf.circuit].vkHash = leaf.vkHash
  /\ VerifierAccepts(leaf)
  /\ proofStatus[AnchorOf(leaf)].status # "Revoked"

\* The transaction succeeds: it leaves the anchor's entry, the leaf set and the
\* count as given, and emits ProofRegistered.
Accept(leaf, entry, leafSet, count) ==
  /\ CanRegister(leaf)
  /\ proofStatus' = [proofStatus EXCEPT ![AnchorOf(leaf)] = entry]
  /\ proofLeaves' = leafSet
  /\ totalProofs' = count
  /\ proofLog' = [proofLog EXCEPT ![leaf] = @ + 1]
  /\ UNCHANGED <<adminVars, now>>

IsFresh(a) == proofStatus[a].status = "None"
ProvedNow  == [status |-> "Proved", provedAt |-> now]

RegisterProofRefreshes(leaf) ==       \* mutant: a replay rewrites provedAt
  IF IsFresh(AnchorOf(leaf))
  THEN Accept(leaf, ProvedNow, proofLeaves \cup {leaf}, totalProofs + 1)
  ELSE Accept(leaf, ProvedNow, proofLeaves, totalProofs)

RegisterProofRecounts(leaf) ==        \* mutant: a replay is counted again
  IF IsFresh(AnchorOf(leaf))
  THEN Accept(leaf, ProvedNow, proofLeaves \cup {leaf}, totalProofs + 1)
  ELSE Accept(leaf, proofStatus[AnchorOf(leaf)], proofLeaves, totalProofs + 1)

\* The first proof of an anchor writes its entry, its leaf and the count; any
\* later one, of whatever leaf, writes nothing; both emit.
RegisterProof(leaf) ==
  \/ /\ IsFresh(AnchorOf(leaf))
     /\ Accept(leaf, ProvedNow, proofLeaves \cup {leaf}, totalProofs + 1)
  \/ /\ ~IsFresh(AnchorOf(leaf))
     /\ Accept(leaf, proofStatus[AnchorOf(leaf)], proofLeaves, totalProofs)

\* A later block: block.timestamp grows.
Tick ==
  /\ now < MaxTime
  /\ now' = now + 1
  /\ UNCHANGED <<ledgerVars, adminVars>>

\* The view requireProved(circuitId, publicInputHash, maxAge) does not revert.
RequireProved(a, maxAge) ==
  /\ proofStatus[a].status = "Proved"
  /\ maxAge # 0 => now <= proofStatus[a].provedAt + maxAge

OwnerCall ==
  \/ \E c \in Circuits, cfg \in Configs : RegisterCircuit(c, cfg[1], cfg[2])
  \/ \E c \in Circuits : DeactivateCircuit(c)
  \/ Pause
  \/ Unpause
  \/ \E a \in Anchors : RevokeProof(a)
  \/ \E i \in Impls : Upgrade(i)

Next ==
  \/ OwnerCall
  \/ \E leaf \in Leaves : proofLog[leaf] < MaxEmits /\ RegisterProof(leaf)
  \/ Tick

Spec == Init /\ [][Next]_vars

-----------------------------------------------------------------------------
(* Properties.                                                             *)

TypeOK ==
  /\ circuits \in [Circuits -> CircuitConfig]
  /\ proofLeaves \subseteq Leaves
  /\ proofStatus \in [Anchors -> ProofEntry]
  /\ \A a \in Anchors : IF proofStatus[a].status = "None"
                         THEN proofStatus[a].provedAt = 0
                         ELSE proofStatus[a].provedAt \in 1 .. now
  /\ totalProofs \in Nat
  /\ paused \in BOOLEAN
  /\ impl \in Impls
  /\ now \in Nat \ {0}
  /\ circuitLog \subseteq CircuitEvents
  /\ proofLog \in [Leaves -> Nat]

\* Anchors and leaves stay in one-to-one correspondence however submissions,
\* duplicates, revocations and verifier upgrades interleave: an anchor leaves
\* None exactly when one leaf is written for it.
LeafPerAnchor ==
  /\ \A l \in proofLeaves : proofStatus[AnchorOf(l)].status # "None"
  /\ \A l, m \in proofLeaves : AnchorOf(l) = AnchorOf(m) => l = m
  /\ \A a \in Anchors : proofStatus[a].status # "None" =>
                          \E l \in proofLeaves : AnchorOf(l) = a

\* totalProofs counts the leaves: a duplicate, a second proof of the same
\* inputs or a proof under a new vk is not counted again.
TotalIsLeafCount == totalProofs = Cardinality(proofLeaves)

\* Every leaf was accepted by a verifier the owner had registered for that
\* circuit together with the leaf's vkHash, even after the circuit moved on.
LeafWasVerified ==
  \A l \in proofLeaves :
    \E e \in circuitLog :
      /\ e.circuit = l.circuit
      /\ e.vkHash = l.vkHash
      /\ <<e.verifier, l.inputs, l.proof>> \in Accepts

\* Statuses only move None -> Proved -> Revoked, and provedAt is written once.
StatusForward ==
  [][\A a \in Anchors :
       \/ proofStatus'[a] = proofStatus[a]
       \/ /\ proofStatus[a].status = "None"
          /\ proofStatus'[a] = [status |-> "Proved", provedAt |-> now]
       \/ /\ proofStatus[a].status = "Proved"
          /\ proofStatus'[a] = [proofStatus[a] EXCEPT !.status = "Revoked"]]_vars

\* The gate closes for good: once an anchor that was registered fails
\* requireProved for some maximum age, by expiry or by revocation, no later
\* transaction (a fresh proof, a new verifier, an upgrade) opens it again.  This
\* is what the contract does, not what its documents want of an expired proof:
\* ReproveRecovers of GatedApp states that, and it does not hold.
GateStaysClosed ==
  [][\A a \in Anchors, maxAge \in 0 .. MaxTime :
       proofStatus[a].status # "None" /\ ~RequireProved(a, maxAge)
         => ~RequireProved(a, maxAge)']_vars

\* While the registry is paused no anchor is added and no proof is announced;
\* revocation and the other owner tools still work.
PauseHaltsRegistration ==
  [][paused => UNCHANGED <<proofLeaves, totalProofs, proofLog>>]_vars
=============================================================================
