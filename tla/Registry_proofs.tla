---------------------------- MODULE Registry_proofs ----------------------------
(***************************************************************************)
(* Proofs about the registry, for every set of circuits, verifiers,        *)
(* inputs, proofs and implementations, and about what works on it: the     *)
(* gated consumer, whose steps are registry steps or leave the registry    *)
(* alone; the chain gate, for which four reads of a moving chain are as    *)
(* good as one read of a block; and the register route, for any requests,  *)
(* keys, submissions and number of restarts.                               *)
(***************************************************************************)
EXTENDS GatedApp, ChainGate, RegisterRoute, FiniteSetTheorems, TLAPS

-----------------------------------------------------------------------------
\* ZKVerifierRegistry.

\* A registered circuit's current configuration is one the owner announced:
\* what LeafWasVerified needs of the state before a leaf is written.
ConfigLogged ==
  \A c \in Circuits :
    Registered(c) => [circuit  |-> c,
                      verifier |-> circuits[c].verifier,
                      vkHash   |-> circuits[c].vkHash] \in circuitLog

LeavesFinite == IsFiniteSet(proofLeaves)

\* A step of the registry without the bound on repeated submissions.
AnyStep ==
  \/ OwnerCall
  \/ \E leaf \in Leaves : RegisterProof(leaf)
  \/ Tick

-----------------------------------------------------------------------------
LEMMA NextIsAnyStep == [Next]_vars => [AnyStep]_vars
<1> QED
  BY DEF Next, AnyStep

\* The type invariant holds in the state initialize() leaves.
LEMMA InitTypeOK == Init => TypeOK
<1> SUFFICES ASSUME Init PROVE TypeOK
  OBVIOUS
<1>1. circuits \in [Circuits -> CircuitConfig]
  BY DEF Init, CircuitConfig
<1>2. proofStatus \in [Anchors -> ProofEntry]
  BY DEF Init, ProofEntry
<1>3. \A a \in Anchors : proofStatus[a].status = "None" /\ proofStatus[a].provedAt = 0
  BY DEF Init
<1>4. proofLog \in [Leaves -> Nat]
  BY DEF Init
<1>5. proofLeaves = {} /\ circuitLog = {} /\ totalProofs = 0 /\ now = 1
  BY DEF Init
<1>7. paused \in BOOLEAN
  BY DEF Init
<1>6. impl \in Impls
  BY RegistryAssumption DEF Init, RegistryAssumption
<1> QED
  BY <1>1, <1>2, <1>3, <1>4, <1>5, <1>6, <1>7 DEF TypeOK

\* Every transaction keeps the type invariant.
LEMMA StepTypeOK == TypeOK /\ [AnyStep]_vars => TypeOK'
<1> SUFFICES ASSUME TypeOK, [AnyStep]_vars PROVE TypeOK'
  OBVIOUS
<1> USE DEF TypeOK
<1>1. ASSUME NEW c \in Circuits, NEW cfg \in Configs, RegisterCircuit(c, cfg[1], cfg[2])
      PROVE  TypeOK'
  <2>1. cfg[1] \in Verifiers /\ cfg[2] \in VkHashes
    BY RegistryAssumption DEF RegistryAssumption
  <2>2. circuits' \in [Circuits -> CircuitConfig]
    BY <1>1, <2>1 DEF RegisterCircuit, CircuitConfig
  <2>3. circuitLog' \subseteq CircuitEvents
    BY <1>1, <2>1 DEF RegisterCircuit, CircuitEvents
  <2> QED
    BY <1>1, <2>2, <2>3 DEF RegisterCircuit, ledgerVars
<1>2. ASSUME NEW c \in Circuits, DeactivateCircuit(c) PROVE TypeOK'
  <2>1. circuits' \in [Circuits -> CircuitConfig]
    BY <1>2 DEF DeactivateCircuit, CircuitConfig
  <2> QED
    BY <1>2, <2>1 DEF DeactivateCircuit, ledgerVars
<1>3. CASE Pause
  BY <1>3 DEF Pause, ledgerVars
<1>4. CASE Unpause
  BY <1>4 DEF Unpause, ledgerVars
<1>5. ASSUME NEW a \in Anchors, RevokeProof(a) PROVE TypeOK'
  <2>1. proofStatus' \in [Anchors -> ProofEntry]
    BY <1>5 DEF RevokeProof, ProofEntry
  <2>2. \A b \in Anchors : b # a => proofStatus'[b] = proofStatus[b]
    BY <1>5 DEF RevokeProof
  <2>3. /\ proofStatus'[a].status = "Revoked"
        /\ proofStatus'[a].provedAt = proofStatus[a].provedAt
        /\ proofStatus[a].provedAt \in 1 .. now
    BY <1>5 DEF RevokeProof, ProofEntry
  <2> QED
    BY <1>5, <2>1, <2>2, <2>3 DEF RevokeProof, adminVars
<1>6. ASSUME NEW i \in Impls, Upgrade(i) PROVE TypeOK'
  BY <1>6 DEF Upgrade, ledgerVars
<1>7. ASSUME NEW leaf \in Leaves, RegisterProof(leaf) PROVE TypeOK'
  <2>1. AnchorOf(leaf) \in Anchors
    BY DEF AnchorOf, Anchors, Leaves
  <2>2. proofLog' \in [Leaves -> Nat]
    BY <1>7 DEF RegisterProof, Accept
  <2>3. CASE IsFresh(AnchorOf(leaf))
    <3>1. /\ proofStatus' = [proofStatus EXCEPT ![AnchorOf(leaf)] = ProvedNow]
          /\ proofLeaves' = proofLeaves \cup {leaf}
          /\ totalProofs' = totalProofs + 1
          /\ UNCHANGED <<adminVars, now>>
      BY <1>7, <2>3 DEF RegisterProof, Accept
    <3>2. proofStatus' \in [Anchors -> ProofEntry]
      BY <2>1, <3>1 DEF ProvedNow, ProofEntry
    <3>3. \A b \in Anchors : b # AnchorOf(leaf) => proofStatus'[b] = proofStatus[b]
      BY <3>1
    <3>4. proofStatus'[AnchorOf(leaf)] = ProvedNow
      BY <2>1, <3>1
    <3> QED
      BY <2>2, <3>1, <3>2, <3>3, <3>4 DEF ProvedNow, adminVars
  <2>4. CASE ~IsFresh(AnchorOf(leaf))
    <3>1. /\ proofStatus' = proofStatus
          /\ UNCHANGED <<proofLeaves, totalProofs, adminVars, now>>
      BY <1>7, <2>1, <2>4 DEF RegisterProof, Accept
    <3> QED
      BY <2>2, <3>1 DEF adminVars
  <2> QED
    BY <2>3, <2>4
<1>8. CASE Tick
  BY <1>8 DEF Tick, ledgerVars, adminVars
<1>9. CASE UNCHANGED vars
  BY <1>9 DEF vars, ledgerVars, adminVars
<1> QED
  BY <1>1, <1>2, <1>3, <1>4, <1>5, <1>6, <1>7, <1>8, <1>9 DEF AnyStep, OwnerCall

\* The registry's state stays well typed, and provedAt is a past block
\* exactly for the anchors that left None.
THEOREM TypeCorrect == Spec => []TypeOK
<1> QED
  BY InitTypeOK, StepTypeOK, NextIsAnyStep, PTL DEF Spec

-----------------------------------------------------------------------------
\* What a transaction does to the ledger: nothing, one revocation, one first
\* registration, or a replay that only emits.
LEMMA LedgerStep ==
  ASSUME TypeOK, [AnyStep]_vars
  PROVE  \/ UNCHANGED <<proofLeaves, proofStatus, totalProofs>>
         \/ \E a \in Anchors :
              /\ proofStatus[a].status = "Proved"
              /\ proofStatus' = [proofStatus EXCEPT ![a].status = "Revoked"]
              /\ UNCHANGED <<proofLeaves, totalProofs, circuitLog, now>>
         \/ \E leaf \in Leaves :
              /\ CanRegister(leaf)
              /\ IsFresh(AnchorOf(leaf))
              /\ proofStatus' = [proofStatus EXCEPT ![AnchorOf(leaf)] = ProvedNow]
              /\ proofLeaves' = proofLeaves \cup {leaf}
              /\ totalProofs' = totalProofs + 1
              /\ UNCHANGED <<circuitLog, now>>
<1>1. ASSUME NEW c \in Circuits, NEW cfg \in Configs, RegisterCircuit(c, cfg[1], cfg[2])
      PROVE  UNCHANGED <<proofLeaves, proofStatus, totalProofs>>
  BY <1>1 DEF RegisterCircuit, ledgerVars
<1>2. ASSUME NEW c \in Circuits, DeactivateCircuit(c)
      PROVE  UNCHANGED <<proofLeaves, proofStatus, totalProofs>>
  BY <1>2 DEF DeactivateCircuit, ledgerVars
<1>3. ASSUME NEW i \in Impls, Upgrade(i)
      PROVE  UNCHANGED <<proofLeaves, proofStatus, totalProofs>>
  BY <1>3 DEF Upgrade, ledgerVars
<1>4. Pause \/ Unpause \/ Tick \/ UNCHANGED vars
        => UNCHANGED <<proofLeaves, proofStatus, totalProofs>>
  BY DEF Pause, Unpause, Tick, vars, ledgerVars
<1>5. ASSUME NEW a \in Anchors, RevokeProof(a)
      PROVE  /\ proofStatus[a].status = "Proved"
             /\ proofStatus' = [proofStatus EXCEPT ![a].status = "Revoked"]
             /\ UNCHANGED <<proofLeaves, totalProofs, circuitLog, now>>
  BY <1>5 DEF RevokeProof, adminVars
<1>6. ASSUME NEW leaf \in Leaves, RegisterProof(leaf)
      PROVE  \/ UNCHANGED <<proofLeaves, proofStatus, totalProofs>>
             \/ /\ CanRegister(leaf)
                /\ IsFresh(AnchorOf(leaf))
                /\ proofStatus' = [proofStatus EXCEPT ![AnchorOf(leaf)] = ProvedNow]
                /\ proofLeaves' = proofLeaves \cup {leaf}
                /\ totalProofs' = totalProofs + 1
                /\ UNCHANGED <<circuitLog, now>>
  <2>1. CASE IsFresh(AnchorOf(leaf))
    BY <1>6, <2>1 DEF RegisterProof, Accept, adminVars
  <2>2. CASE ~IsFresh(AnchorOf(leaf))
    <3>1. AnchorOf(leaf) \in Anchors
      BY DEF AnchorOf, Anchors, Leaves
    <3>2. /\ proofStatus' = [proofStatus EXCEPT ![AnchorOf(leaf)] = proofStatus[AnchorOf(leaf)]]
          /\ UNCHANGED <<proofLeaves, totalProofs>>
      BY <1>6, <2>2 DEF RegisterProof, Accept
    <3> QED
      BY <3>1, <3>2 DEF TypeOK
  <2> QED
    BY <2>1, <2>2
<1> QED
  BY <1>1, <1>2, <1>3, <1>4, <1>5, <1>6 DEF AnyStep, OwnerCall

-----------------------------------------------------------------------------
\* Leaves and anchors correspond one to one in every reachable state.
THEOREM LeafPerAnchorHolds == Spec => []LeafPerAnchor
<1>1. Init => LeafPerAnchor
  BY DEF Init, LeafPerAnchor
<1>2. TypeOK /\ LeafPerAnchor /\ [Next]_vars => LeafPerAnchor'
  <2> SUFFICES ASSUME TypeOK, LeafPerAnchor, [Next]_vars PROVE LeafPerAnchor'
    OBVIOUS
  <2>1. CASE UNCHANGED <<proofLeaves, proofStatus, totalProofs>>
    BY <2>1 DEF LeafPerAnchor
  <2>2. ASSUME NEW a \in Anchors,
               proofStatus[a].status = "Proved",
               proofStatus' = [proofStatus EXCEPT ![a].status = "Revoked"],
               proofLeaves' = proofLeaves
        PROVE  LeafPerAnchor'
    <3>1. \A b \in Anchors : proofStatus'[b].status = "None" <=> proofStatus[b].status = "None"
      BY <2>2 DEF TypeOK, ProofEntry
    <3>2. \A l \in proofLeaves : AnchorOf(l) \in Anchors
      BY DEF TypeOK, AnchorOf, Anchors, Leaves
    <3> QED
      BY <2>2, <3>1, <3>2 DEF LeafPerAnchor
  <2>3. ASSUME NEW leaf \in Leaves,
               IsFresh(AnchorOf(leaf)),
               proofStatus' = [proofStatus EXCEPT ![AnchorOf(leaf)] = ProvedNow],
               proofLeaves' = proofLeaves \cup {leaf}
        PROVE  LeafPerAnchor'
    <3>1. AnchorOf(leaf) \in Anchors
      BY DEF AnchorOf, Anchors, Leaves
    <3>2. \A l \in proofLeaves : AnchorOf(l) \in Anchors /\ AnchorOf(l) # AnchorOf(leaf)
      BY <2>3 DEF TypeOK, LeafPerAnchor, IsFresh, AnchorOf, Anchors, Leaves
    <3>3. /\ proofStatus'[AnchorOf(leaf)].status = "Proved"
          /\ \A b \in Anchors : b # AnchorOf(leaf) => proofStatus'[b] = proofStatus[b]
      BY <2>3, <3>1 DEF TypeOK, ProvedNow
    <3> QED
      BY <2>3, <3>1, <3>2, <3>3 DEF LeafPerAnchor
  <2> QED
    BY <2>1, <2>2, <2>3, LedgerStep, NextIsAnyStep
<1> QED
  BY <1>1, <1>2, TypeCorrect, PTL DEF Spec

\* totalProofs is the number of leaves, which stay finite.
THEOREM TotalIsLeafCountHolds == Spec => []TotalIsLeafCount
<1> DEFINE Count == LeavesFinite /\ TotalIsLeafCount
<1>1. Init => Count
  BY FS_EmptySet DEF Init, LeavesFinite, TotalIsLeafCount
<1>2. TypeOK /\ LeafPerAnchor /\ Count /\ [Next]_vars => Count'
  <2> SUFFICES ASSUME TypeOK, LeafPerAnchor, Count, [Next]_vars PROVE Count'
    OBVIOUS
  <2>1. CASE UNCHANGED <<proofLeaves, totalProofs>>
    BY <2>1 DEF LeavesFinite, TotalIsLeafCount
  <2>2. ASSUME NEW leaf \in Leaves,
               IsFresh(AnchorOf(leaf)),
               proofLeaves' = proofLeaves \cup {leaf},
               totalProofs' = totalProofs + 1
        PROVE  Count'
    <3>1. leaf \notin proofLeaves
      BY <2>2 DEF LeafPerAnchor, IsFresh
    <3>2. /\ IsFiniteSet(proofLeaves')
          /\ Cardinality(proofLeaves') = Cardinality(proofLeaves) + 1
      BY <2>2, <3>1, FS_AddElement DEF LeavesFinite
    <3> QED
      BY <2>2, <3>2 DEF LeavesFinite, TotalIsLeafCount
  <2> QED
    BY <2>1, <2>2, LedgerStep, NextIsAnyStep
<1> QED
  BY <1>1, <1>2, TypeCorrect, LeafPerAnchorHolds, PTL DEF Spec

-----------------------------------------------------------------------------
\* What the owner announced stays announced, and covers what is configured.
LEMMA ConfigLoggedStep ==
  ASSUME TypeOK, ConfigLogged, [Next]_vars
  PROVE  ConfigLogged' /\ circuitLog \subseteq circuitLog'
<1>1. ASSUME NEW c \in Circuits, NEW cfg \in Configs, RegisterCircuit(c, cfg[1], cfg[2])
      PROVE  ConfigLogged' /\ circuitLog \subseteq circuitLog'
  <2>1. /\ \A d \in Circuits : d # c => circuits'[d] = circuits[d]
        /\ circuits'[c] = [verifier |-> cfg[1], vkHash |-> cfg[2], active |-> TRUE]
    BY <1>1 DEF RegisterCircuit, TypeOK
  <2> QED
    BY <1>1, <2>1 DEF RegisterCircuit, ConfigLogged, Registered
<1>2. ASSUME NEW c \in Circuits, DeactivateCircuit(c)
      PROVE  ConfigLogged' /\ circuitLog \subseteq circuitLog'
  <2>1. \A d \in Circuits : /\ circuits'[d].verifier = circuits[d].verifier
                           /\ circuits'[d].vkHash = circuits[d].vkHash
    BY <1>2 DEF DeactivateCircuit, TypeOK, CircuitConfig
  <2> QED
    BY <1>2, <2>1 DEF DeactivateCircuit, ConfigLogged, Registered
<1>3. ASSUME UNCHANGED <<circuits, circuitLog>>
      PROVE  ConfigLogged' /\ circuitLog \subseteq circuitLog'
  BY <1>3 DEF ConfigLogged, Registered
<1>4. ASSUME NEW a \in Anchors, RevokeProof(a) PROVE UNCHANGED <<circuits, circuitLog>>
  BY <1>4 DEF RevokeProof, adminVars
<1>5. ASSUME NEW i \in Impls, Upgrade(i) PROVE UNCHANGED <<circuits, circuitLog>>
  BY <1>5 DEF Upgrade
<1>6. ASSUME NEW leaf \in Leaves, RegisterProof(leaf) PROVE UNCHANGED <<circuits, circuitLog>>
  BY <1>6 DEF RegisterProof, Accept, adminVars
<1>7. Pause \/ Unpause \/ Tick \/ UNCHANGED vars => UNCHANGED <<circuits, circuitLog>>
  BY DEF Pause, Unpause, Tick, vars, adminVars
<1> QED
  BY <1>1, <1>2, <1>3, <1>4, <1>5, <1>6, <1>7 DEF Next, OwnerCall

\* Every leaf was accepted by a verifier registered with the leaf's vkHash.
THEOREM LeafWasVerifiedHolds == Spec => []LeafWasVerified
<1>1. Init => ConfigLogged /\ LeafWasVerified
  BY DEF Init, ConfigLogged, Registered, LeafWasVerified
<1>2. TypeOK /\ ConfigLogged /\ LeafWasVerified /\ [Next]_vars
        => (ConfigLogged /\ LeafWasVerified)'
  <2> SUFFICES ASSUME TypeOK, ConfigLogged, LeafWasVerified, [Next]_vars
               PROVE  (ConfigLogged /\ LeafWasVerified)'
    OBVIOUS
  <2>1. ConfigLogged' /\ circuitLog \subseteq circuitLog'
    BY ConfigLoggedStep
  <2>2. CASE proofLeaves' = proofLeaves
    BY <2>1, <2>2 DEF LeafWasVerified
  <2>3. ASSUME NEW leaf \in Leaves, CanRegister(leaf), proofLeaves' = proofLeaves \cup {leaf}
        PROVE  LeafWasVerified'
    <3> DEFINE e == [circuit  |-> leaf.circuit,
                     verifier |-> circuits[leaf.circuit].verifier,
                     vkHash   |-> circuits[leaf.circuit].vkHash]
    <3>1. leaf.circuit \in Circuits
      BY DEF Leaves
    <3>2. e \in circuitLog'
      BY <2>1, <2>3, <3>1 DEF ConfigLogged, CanRegister
    <3>3. /\ e.circuit = leaf.circuit
          /\ e.vkHash = leaf.vkHash
          /\ <<e.verifier, leaf.inputs, leaf.proof>> \in Accepts
      BY <2>3 DEF CanRegister, VerifierAccepts
    <3> HIDE DEF e
    <3>4. \A l \in proofLeaves :
            \E f \in circuitLog' : /\ f.circuit = l.circuit
                                  /\ f.vkHash = l.vkHash
                                  /\ <<f.verifier, l.inputs, l.proof>> \in Accepts
      BY <2>1 DEF LeafWasVerified
    <3> QED
      BY <2>3, <3>2, <3>3, <3>4 DEF LeafWasVerified
  <2> QED
    BY <2>1, <2>2, <2>3, LedgerStep, NextIsAnyStep
<1> QED
  BY <1>1, <1>2, TypeCorrect, PTL DEF Spec

-----------------------------------------------------------------------------
\* Statuses only move None -> Proved -> Revoked and provedAt is written once.
THEOREM StatusForwardHolds == Spec => StatusForward
<1> DEFINE Forward ==
      \A a \in Anchors :
        \/ proofStatus'[a] = proofStatus[a]
        \/ /\ proofStatus[a].status = "None"
           /\ proofStatus'[a] = [status |-> "Proved", provedAt |-> now]
        \/ /\ proofStatus[a].status = "Proved"
           /\ proofStatus'[a] = [proofStatus[a] EXCEPT !.status = "Revoked"]
<1>1. TypeOK /\ [Next]_vars => Forward
  <2> SUFFICES ASSUME TypeOK, [Next]_vars PROVE Forward
    OBVIOUS
  <2>1. CASE proofStatus' = proofStatus
    BY <2>1
  <2>2. ASSUME NEW b \in Anchors,
               proofStatus[b].status = "Proved",
               proofStatus' = [proofStatus EXCEPT ![b].status = "Revoked"]
        PROVE  Forward
    BY <2>2 DEF TypeOK, ProofEntry
  <2>3. ASSUME NEW leaf \in Leaves,
               IsFresh(AnchorOf(leaf)),
               proofStatus' = [proofStatus EXCEPT ![AnchorOf(leaf)] = ProvedNow]
        PROVE  Forward
    BY <2>3 DEF TypeOK, IsFresh, ProvedNow
  <2> QED
    BY <2>1, <2>2, <2>3, LedgerStep, NextIsAnyStep
<1>2. TypeOK /\ [Next]_vars => [Forward]_vars
  BY <1>1
<1> QED
  BY <1>2, TypeCorrect, PTL DEF Spec, StatusForward

\* Block timestamps never go back.
LEMMA TimeForward == TypeOK /\ [Next]_vars => now' \in Nat /\ now \in Nat /\ now <= now'
<1> SUFFICES ASSUME TypeOK, [Next]_vars PROVE now' \in Nat /\ now \in Nat /\ now <= now'
  OBVIOUS
<1>1. now \in Nat
  BY DEF TypeOK
<1>2. now' = now \/ now' = now + 1
  <2>1. OwnerCall => now' = now
    BY DEF OwnerCall, RegisterCircuit, DeactivateCircuit, Pause, Unpause, RevokeProof, Upgrade
  <2>2. ASSUME NEW leaf \in Leaves, RegisterProof(leaf) PROVE now' = now
    BY <2>2 DEF RegisterProof, Accept
  <2>3. Tick => now' = now + 1
    BY DEF Tick
  <2> QED
    BY <2>1, <2>2, <2>3 DEF Next, vars
<1> QED
  BY <1>1, <1>2

\* The gate never reopens on an anchor it has turned away after registration.
THEOREM GateStaysClosedHolds == Spec => GateStaysClosed
<1> DEFINE Closed(a, maxAge) == proofStatus[a].status # "None" /\ ~RequireProved(a, maxAge)
           Stays == \A a \in Anchors, maxAge \in 0 .. MaxTime :
                      Closed(a, maxAge) => ~RequireProved(a, maxAge)'
<1>1. TypeOK /\ [Next]_vars => Stays
  <2> SUFFICES ASSUME TypeOK, [Next]_vars,
                      NEW a \in Anchors, NEW maxAge \in 0 .. MaxTime,
                      Closed(a, maxAge)
               PROVE  ~RequireProved(a, maxAge)'
    OBVIOUS
  <2>1. /\ maxAge \in Nat
        /\ proofStatus[a] \in ProofEntry
        /\ now' \in Nat /\ now \in Nat /\ now <= now'
    BY TimeForward DEF TypeOK
  <2>2. CASE proofStatus'[a] = proofStatus[a]
    BY <2>1, <2>2 DEF RequireProved, ProofEntry
  <2>3. CASE proofStatus'[a].status # "Proved"
    BY <2>3 DEF RequireProved
  <2>4. ASSUME NEW b \in Anchors,
               proofStatus[b].status = "Proved",
               proofStatus' = [proofStatus EXCEPT ![b].status = "Revoked"]
        PROVE  proofStatus'[a] = proofStatus[a] \/ proofStatus'[a].status # "Proved"
    BY <2>4 DEF TypeOK, ProofEntry
  <2>5. ASSUME NEW leaf \in Leaves,
               IsFresh(AnchorOf(leaf)),
               proofStatus' = [proofStatus EXCEPT ![AnchorOf(leaf)] = ProvedNow]
        PROVE  proofStatus'[a] = proofStatus[a]
    BY <2>5 DEF TypeOK, IsFresh
  <2> QED
    BY <2>2, <2>3, <2>4, <2>5, LedgerStep, NextIsAnyStep
<1>2. TypeOK /\ [Next]_vars => [Stays]_vars
  BY <1>1
<1> QED
  BY <1>2, TypeCorrect, PTL DEF Spec, GateStaysClosed

\* A paused registry announces no proof and adds no leaf.
THEOREM PauseHaltsRegistrationHolds == Spec => PauseHaltsRegistration
<1>1. [Next]_vars => [paused => UNCHANGED <<proofLeaves, totalProofs, proofLog>>]_vars
  <2> SUFFICES ASSUME Next, paused PROVE UNCHANGED <<proofLeaves, totalProofs, proofLog>>
    OBVIOUS
  <2>1. OwnerCall => UNCHANGED <<proofLeaves, totalProofs, proofLog>>
    BY DEF OwnerCall, RegisterCircuit, DeactivateCircuit, Pause, Unpause, RevokeProof, Upgrade,
           ledgerVars
  <2>2. Tick => UNCHANGED <<proofLeaves, totalProofs, proofLog>>
    BY DEF Tick, ledgerVars
  <2>3. ASSUME NEW leaf \in Leaves, RegisterProof(leaf) PROVE FALSE
    BY <2>3 DEF RegisterProof, Accept, CanRegister
  <2> QED
    BY <2>1, <2>2, <2>3 DEF Next
<1> QED
  BY <1>1, PTL DEF Spec, PauseHaltsRegistration

-----------------------------------------------------------------------------
\* GatedApp.

\* The registry inside a gated behaviour is a registry behaviour.
LEMMA RegistryInside == GatedSpec => Spec
<1>1. GatedInit => Init
  BY DEF GatedInit
<1>2. [GatedNext]_gatedVars => [Next]_vars
  BY DEF GatedNext, gatedVars, Claim, PayOut, Receive
<1> QED
  BY <1>1, <1>2, PTL DEF GatedSpec, Spec

\* The consumer's state stays well typed; its balance never goes below zero.
THEOREM GatedTypeCorrect == GatedSpec => []GatedTypeOK
<1> DEFINE AppTypeOK == /\ paid \subseteq Inputs
                        /\ totalPaid \in Nat
                        /\ balance \in Nat
                        /\ funded \in Nat
                        /\ paidAt \in [Inputs -> Nat]
<1>1. GatedInit => AppTypeOK
  BY DEF GatedInit
<1>2. TypeOK /\ AppTypeOK /\ [GatedNext]_gatedVars => AppTypeOK'
  <2> SUFFICES ASSUME TypeOK, AppTypeOK, [GatedNext]_gatedVars PROVE AppTypeOK'
    OBVIOUS
  <2>1. CASE UNCHANGED appVars
    BY <2>1 DEF appVars
  <2>2. ASSUME NEW x \in Inputs, Claim(x) PROVE AppTypeOK'
    BY <2>2, GatedAssumption DEF Claim, PayOut, TypeOK, GatedAssumption
  <2>3. ASSUME NEW amount \in 1 .. MaxFunding, Receive(amount) PROVE AppTypeOK'
    BY <2>3, GatedAssumption DEF Receive, GatedAssumption
  <2> QED
    BY <2>1, <2>2, <2>3 DEF GatedNext, gatedVars, appVars
<1>3. TypeOK /\ AppTypeOK => GatedTypeOK
  BY DEF GatedTypeOK
<1> QED
  BY <1>1, <1>2, <1>3, RegistryInside, TypeCorrect, PTL DEF GatedSpec

\* The consumer's books balance.
THEOREM SolventHolds == GatedSpec => []Solvent
<1> DEFINE Books == IsFiniteSet(paid) /\ Solvent
<1>1. GatedInit => Books
  BY FS_EmptySet, GatedAssumption DEF GatedInit, Solvent, GatedAssumption
<1>2. GatedTypeOK /\ Books /\ [GatedNext]_gatedVars => Books'
  <2> SUFFICES ASSUME GatedTypeOK, Books, [GatedNext]_gatedVars PROVE Books'
    OBVIOUS
  <2>1. CASE UNCHANGED appVars
    BY <2>1 DEF appVars, Solvent
  <2>2. ASSUME NEW x \in Inputs, Claim(x) PROVE Books'
    <3>1. /\ x \notin paid
          /\ paid' = paid \cup {x}
          /\ totalPaid' = totalPaid + Payout
          /\ balance' = balance - Payout
          /\ funded' = funded
      BY <2>2 DEF Claim, PayOut
    <3>2. /\ IsFiniteSet(paid')
          /\ Cardinality(paid') = Cardinality(paid) + 1
          /\ Cardinality(paid) \in Nat
      BY <3>1, FS_AddElement, FS_CardinalityType
    <3>3. totalPaid' = Payout * Cardinality(paid')
      BY <3>1, <3>2, GatedAssumption DEF Solvent, GatedAssumption
    <3>4. balance' + totalPaid' = funded'
      BY <3>1, GatedAssumption DEF Solvent, GatedTypeOK, GatedAssumption
    <3> QED
      BY <3>2, <3>3, <3>4 DEF Solvent
  <2>3. ASSUME NEW amount \in 1 .. MaxFunding, Receive(amount) PROVE Books'
    BY <2>3, GatedAssumption DEF Receive, Solvent, GatedTypeOK, GatedAssumption
  <2> QED
    BY <2>1, <2>2, <2>3 DEF GatedNext, gatedVars, appVars
<1> QED
  BY <1>1, <1>2, GatedTypeCorrect, PTL DEF GatedSpec

\* Every payout rests on a leaf a registered verifier accepted, inside its
\* lifetime.  Leaves, announced configurations and the provedAt of an anchor
\* that left None never change, so what held at the claim holds for good.
THEOREM PayoutHasVerifiedLeafHolds == GatedSpec => []PayoutHasVerifiedLeaf
<1> DEFINE Backed(x, l) ==
             /\ AnchorOf(l) = <<GatedCircuit, x>>
             /\ \E e \in circuitLog : /\ e.circuit = GatedCircuit
                                     /\ <<e.verifier, x, l.proof>> \in Accepts
             /\ paidAt[x] >= proofStatus[AnchorOf(l)].provedAt
             /\ ProofMaxAge # 0 => paidAt[x] <= proofStatus[AnchorOf(l)].provedAt + ProofMaxAge
<1>0. PayoutHasVerifiedLeaf <=> \A x \in paid : \E l \in proofLeaves : Backed(x, l)
  BY DEF PayoutHasVerifiedLeaf
<1>1. GatedInit => PayoutHasVerifiedLeaf
  BY DEF GatedInit, PayoutHasVerifiedLeaf
<1>2. GatedTypeOK /\ LeafPerAnchor /\ LeafWasVerified /\ ConfigLogged
        /\ PayoutHasVerifiedLeaf /\ [GatedNext]_gatedVars
          => PayoutHasVerifiedLeaf'
  <2> SUFFICES ASSUME GatedTypeOK, LeafPerAnchor, LeafWasVerified, ConfigLogged,
                      PayoutHasVerifiedLeaf, [GatedNext]_gatedVars
               PROVE  PayoutHasVerifiedLeaf'
    OBVIOUS
  <2>1. [Next]_vars
    BY DEF GatedNext, gatedVars, Claim, PayOut, Receive
  <2>2. TypeOK
    BY DEF GatedTypeOK
  <2>3. circuitLog \subseteq circuitLog'
    BY <2>1, <2>2, ConfigLoggedStep
  <2>4. proofLeaves \subseteq proofLeaves'
    BY <2>1, <2>2, LedgerStep, NextIsAnyStep
  <2>5. \A l \in proofLeaves : proofStatus'[AnchorOf(l)].provedAt = proofStatus[AnchorOf(l)].provedAt
    <3> SUFFICES ASSUME NEW l \in proofLeaves
                 PROVE  proofStatus'[AnchorOf(l)].provedAt = proofStatus[AnchorOf(l)].provedAt
      OBVIOUS
    <3>1. proofStatus[AnchorOf(l)].status # "None" /\ AnchorOf(l) \in Anchors
      BY <2>2 DEF LeafPerAnchor, TypeOK, AnchorOf, Anchors, Leaves
    <3>2. ASSUME NEW a \in Anchors, proofStatus' = [proofStatus EXCEPT ![a].status = "Revoked"]
          PROVE  proofStatus'[AnchorOf(l)].provedAt = proofStatus[AnchorOf(l)].provedAt
      BY <3>1, <3>2, <2>2 DEF TypeOK, ProofEntry
    <3>3. ASSUME NEW leaf \in Leaves, IsFresh(AnchorOf(leaf)),
                 proofStatus' = [proofStatus EXCEPT ![AnchorOf(leaf)] = ProvedNow]
          PROVE  proofStatus'[AnchorOf(l)].provedAt = proofStatus[AnchorOf(l)].provedAt
      BY <3>1, <3>3, <2>2 DEF TypeOK, IsFresh
    <3> QED
      BY <2>1, <2>2, <3>2, <3>3, LedgerStep, NextIsAnyStep
  <2>6. ASSUME NEW x \in paid, paidAt'[x] = paidAt[x]
        PROVE  \E l \in proofLeaves' : Backed(x, l)'
    <3>1. PICK l \in proofLeaves : Backed(x, l)
      BY <1>0
    <3>2. PICK e \in circuitLog : /\ e.circuit = GatedCircuit
                                 /\ <<e.verifier, x, l.proof>> \in Accepts
      BY <3>1
    <3>3. Backed(x, l)'
      BY <2>3, <2>5, <2>6, <3>1, <3>2 DEF AnchorOf
    <3> QED
      BY <2>4, <3>3
  <2>7. ASSUME NEW x \in Inputs, Claim(x)
        PROVE  PayoutHasVerifiedLeaf'
    <3>1. /\ RequireProved(<<GatedCircuit, x>>, ProofMaxAge)
          /\ x \notin paid
          /\ paid' = paid \cup {x}
          /\ paidAt' = [paidAt EXCEPT ![x] = now]
          /\ UNCHANGED <<proofStatus, circuitLog, proofLeaves>>
      BY <2>7 DEF Claim, OnlyProved, PayOut, vars, ledgerVars, adminVars
    <3>2. <<GatedCircuit, x>> \in Anchors
      BY GatedAssumption DEF GatedAssumption, Anchors
    <3>3. PICK l \in proofLeaves : AnchorOf(l) = <<GatedCircuit, x>>
      BY <3>1, <3>2 DEF RequireProved, LeafPerAnchor
    <3>4. l.circuit = GatedCircuit /\ l.inputs = x
      BY <3>3 DEF AnchorOf
    <3>5. PICK e \in circuitLog : /\ e.circuit = l.circuit
                                 /\ <<e.verifier, l.inputs, l.proof>> \in Accepts
      BY DEF LeafWasVerified
    <3>6. paidAt'[x] = now
      BY <3>1 DEF GatedTypeOK
    <3>7. /\ proofStatus[<<GatedCircuit, x>>].provedAt \in 1 .. now
          /\ now \in Nat
          /\ ProofMaxAge # 0 => now <= proofStatus[<<GatedCircuit, x>>].provedAt + ProofMaxAge
      BY <2>2, <3>1, <3>2 DEF TypeOK, RequireProved
    <3>8. Backed(x, l)'
      <4>1. /\ AnchorOf(l)' = <<GatedCircuit, x>>
            /\ proofStatus'[AnchorOf(l)'] = proofStatus[<<GatedCircuit, x>>]
        BY <3>1, <3>3 DEF AnchorOf
      <4>2. e \in circuitLog' /\ e.circuit = GatedCircuit /\ <<e.verifier, x, l.proof>> \in Accepts
        BY <3>1, <3>4, <3>5
      <4>3. paidAt'[x] >= proofStatus[<<GatedCircuit, x>>].provedAt
        BY <3>6, <3>7
      <4> QED
        BY <3>6, <3>7, <4>1, <4>2, <4>3
    <3>9. \A y \in paid : paidAt'[y] = paidAt[y]
      BY <3>1 DEF GatedTypeOK
    <3>10. \A y \in paid' : \E m \in proofLeaves' : Backed(y, m)'
      BY <2>6, <3>1, <3>8, <3>9
    <3> QED
      BY <3>10 DEF PayoutHasVerifiedLeaf
  <2>8. CASE UNCHANGED <<paid, paidAt>>
    <3>1. \A y \in paid' : \E m \in proofLeaves' : Backed(y, m)'
      BY <2>6, <2>8
    <3> QED
      BY <3>1 DEF PayoutHasVerifiedLeaf
  <2> QED
    BY <2>7, <2>8 DEF GatedNext, gatedVars, appVars, Receive
<1>3. Init => ConfigLogged
  BY DEF Init, ConfigLogged, Registered
<1>4. TypeOK /\ ConfigLogged /\ [Next]_vars => ConfigLogged'
  BY ConfigLoggedStep
<1>5. Spec => []ConfigLogged
  BY <1>3, <1>4, TypeCorrect, PTL DEF Spec
<1> QED
  BY <1>1, <1>2, <1>5, RegistryInside, GatedTypeCorrect, LeafPerAnchorHolds,
     LeafWasVerifiedHolds, PTL DEF GatedSpec

-----------------------------------------------------------------------------
\* ChainGate.

CheckTypeOK ==
  /\ check \in [pc     : {"new", "circuits", "status", "leaf", "proved", "verified", "blocked"},
                leaf   : Leaves,
                maxAge : MaxAges,
                ok     : BOOLEAN]
  /\ some \in BOOLEAN
  /\ check.pc = "new" => check.ok

Gate == RequireProved(AnchorOf(check.leaf), check.maxAge)

\* Why the reads may be spread over blocks: once the circuit was seen as it
\* should be, the first block in which the leaf exists and the gate is open
\* is one in which everything holds; a leaf stays, and a closed gate too.
Spread ==
  /\ Running /\ Holds(check.leaf, check.maxAge) => some
  /\ check.pc \in {"status", "leaf", "proved"} /\ check.ok
       => some \/ check.leaf \notin proofLeaves \/ ~Gate
  /\ check.pc = "proved" /\ check.ok => check.leaf \in proofLeaves

\* While everything held in every block so far, no check failed.
NoneFailed == Running /\ all => check.ok /\ Holds(check.leaf, check.maxAge)

ChainInv == CheckTypeOK /\ Spread /\ VerifiedInOneBlock /\ NoneFailed /\ BlockedForReason

-----------------------------------------------------------------------------
\* The registry under the gate is the registry.
LEMMA ChainRegistryInside == ChainSpec => Spec
<1>1. ChainInit => Init
  BY DEF ChainInit
<1>2. [ChainNext]_chainVars => [Next]_vars
  BY DEF ChainNext, chainVars, Begin, ReadCircuits, ReadStatus, ReadLeaf, ReadProved, CallFails,
         Block, Then
<1> QED
  BY <1>1, <1>2, PTL DEF ChainSpec, Spec

\* A leaf that a transaction writes makes its anchor hold in the same block.
LEMMA NewLeafHolds ==
  ASSUME TypeOK, [Next]_vars, NEW leaf \in Leaves, NEW maxAge \in Nat,
         leaf \notin proofLeaves, leaf \in proofLeaves'
  PROVE  Holds(leaf, maxAge)'
<1>1. /\ CanRegister(leaf)
      /\ proofStatus' = [proofStatus EXCEPT ![AnchorOf(leaf)] = ProvedNow]
      /\ UNCHANGED <<circuits, now>>
  <2>1. OwnerCall \/ Tick \/ UNCHANGED vars => proofLeaves' = proofLeaves
    BY DEF OwnerCall, RegisterCircuit, DeactivateCircuit, Pause, Unpause, RevokeProof, Upgrade,
           Tick, ledgerVars, vars
  <2>2. PICK l \in Leaves : RegisterProof(l)
    BY <2>1 DEF Next
  <2>3. /\ IsFresh(AnchorOf(l))
        /\ Accept(l, ProvedNow, proofLeaves \cup {l}, totalProofs + 1)
    BY <2>2 DEF RegisterProof, Accept
  <2>4. l = leaf
    BY <2>3 DEF Accept
  <2> QED
    BY <2>3, <2>4 DEF Accept, adminVars
<1>2. AnchorOf(leaf) \in Anchors
  BY DEF AnchorOf, Anchors, Leaves
<1>3. proofStatus'[AnchorOf(leaf)] = [status |-> "Proved", provedAt |-> now]
  BY <1>1, <1>2 DEF TypeOK, ProvedNow
<1>4. now \in Nat
  BY DEF TypeOK
<1>5. RequireProved(AnchorOf(leaf), maxAge)'
  BY <1>1, <1>3, <1>4 DEF RequireProved
<1> QED
  BY <1>1, <1>5 DEF Holds, CanRegister, Registered

\* What a block can do to the gate of a leaf that is written: not open it.
LEMMA ClosedStays ==
  ASSUME TypeOK, LeafPerAnchor, [Next]_vars, NEW leaf \in Leaves, NEW maxAge \in Nat,
         leaf \in proofLeaves, ~RequireProved(AnchorOf(leaf), maxAge)
  PROVE  ~RequireProved(AnchorOf(leaf), maxAge)'
<1> DEFINE a == AnchorOf(leaf)
<1>1. a \in Anchors /\ proofStatus[a].status # "None"
  BY DEF LeafPerAnchor, AnchorOf, Anchors, Leaves
<1>2. /\ proofStatus[a] \in ProofEntry
      /\ now' \in Nat /\ now \in Nat /\ now <= now'
  BY <1>1, TimeForward DEF TypeOK
<1> HIDE DEF a
<1>3. CASE proofStatus'[a] = proofStatus[a]
  <2>1. ~RequireProved(a, maxAge)
    BY DEF a
  <2>2. ~RequireProved(a, maxAge)'
    BY <1>2, <1>3, <2>1 DEF RequireProved, ProofEntry
  <2> QED
    BY <2>2 DEF a
<1>4. CASE proofStatus'[a].status # "Proved"
  BY <1>4 DEF RequireProved, a
<1>5. ASSUME NEW b \in Anchors,
             proofStatus[b].status = "Proved",
             proofStatus' = [proofStatus EXCEPT ![b].status = "Revoked"]
      PROVE  proofStatus'[a] = proofStatus[a] \/ proofStatus'[a].status # "Proved"
  BY <1>1, <1>5 DEF TypeOK, ProofEntry
<1>6. ASSUME NEW l \in Leaves,
             IsFresh(AnchorOf(l)),
             proofStatus' = [proofStatus EXCEPT ![AnchorOf(l)] = ProvedNow]
      PROVE  proofStatus'[a] = proofStatus[a]
  BY <1>1, <1>6 DEF TypeOK, IsFresh
<1> QED
  BY <1>3, <1>4, <1>5, <1>6, LedgerStep, NextIsAnyStep

\* No transaction removes a leaf.
LEMMA LeavesStay == TypeOK /\ [Next]_vars => proofLeaves \subseteq proofLeaves'
<1> QED
  BY LedgerStep, NextIsAnyStep

-----------------------------------------------------------------------------
LEMMA ChainInitInv == ChainInit => ChainInv
<1> QED
  BY DEF ChainInit, ChainInv, CheckTypeOK, Spread, NoneFailed, VerifiedInOneBlock,
         BlockedForReason, Running

\* A block: the check is as it was, the chain moves.
LEMMA BlockKeepsInv ==
  ASSUME TypeOK, LeafPerAnchor, ChainInv, Block
  PROVE  ChainInv'
<1>1. PICK leaf \in Leaves, maxAge \in Nat : leaf = check.leaf /\ maxAge = check.maxAge
  BY ChainGateAssumption DEF ChainInv, CheckTypeOK, ChainGateAssumption
<1>0. [Next]_vars /\ check'.leaf = leaf /\ check'.maxAge = maxAge
  BY <1>1 DEF Block
<1>2. CheckTypeOK'
  BY DEF ChainInv, CheckTypeOK, Block, Running
<1>3. Running' /\ Holds(check.leaf, check.maxAge)' => some'
  BY DEF Block, Running
<1>4. ASSUME (check.pc \in {"status", "leaf", "proved"} /\ check.ok)'
      PROVE  (some \/ check.leaf \notin proofLeaves \/ ~Gate)'
  <2>1. some \/ leaf \notin proofLeaves \/ ~RequireProved(AnchorOf(leaf), maxAge)
    BY <1>1, <1>4 DEF Block, ChainInv, Spread, Gate
  <2>2. CASE some
    BY <2>2 DEF Block
  <2>3. CASE leaf \notin proofLeaves
    <3>1. leaf \in proofLeaves' => Holds(leaf, maxAge)'
      BY <1>0, <2>3, NewLeafHolds DEF ChainInv
    <3>2. Running
      BY <1>4 DEF Block, Running
    <3>3. Holds(leaf, maxAge)' => some'
      BY <1>1, <3>2 DEF Block
    <3> QED
      BY <1>0, <3>1, <3>3
  <2>4. CASE leaf \in proofLeaves /\ ~RequireProved(AnchorOf(leaf), maxAge)
    <3>1. ~RequireProved(AnchorOf(leaf), maxAge)'
      BY <1>0, <2>4, ClosedStays
    <3> QED
      BY <1>0, <3>1 DEF Gate
  <2> QED
    BY <2>1, <2>2, <2>3, <2>4
<1>5. (check.pc = "proved" /\ check.ok => check.leaf \in proofLeaves)'
  BY <1>0, LeavesStay DEF Block, ChainInv, Spread
<1>6. VerifiedInOneBlock' /\ BlockedForReason' /\ NoneFailed'
  BY DEF Block, ChainInv, VerifiedInOneBlock, BlockedForReason, NoneFailed, Running
<1> QED
  BY <1>2, <1>3, <1>4, <1>5, <1>6 DEF ChainInv, Spread

\* A step of the gate: the chain stands still.
LEMMA ReadKeepsInv ==
  ASSUME ChainInv,
         Begin \/ ReadCircuits \/ ReadStatus \/ ReadLeaf \/ ReadProved \/ CallFails
  PROVE  ChainInv'
<1> DEFINE held == Holds(check.leaf, check.maxAge)
<1>0. UNCHANGED vars
  BY DEF Begin, ReadCircuits, ReadStatus, ReadLeaf, ReadProved, CallFails, Then
<1>1. check'.leaf = check.leaf /\ check'.maxAge = check.maxAge
  BY DEF ChainInv, CheckTypeOK, Begin, ReadCircuits, ReadStatus, ReadLeaf, ReadProved, CallFails,
         Then
<1>2. /\ Holds(check.leaf, check.maxAge)' <=> held
      /\ Gate' <=> Gate
      /\ check'.leaf \in proofLeaves' <=> check.leaf \in proofLeaves
  BY <1>0, <1>1 DEF vars, ledgerVars, adminVars, Holds, Gate, RequireProved, Registered
<1>3. held => /\ Registered(check.leaf.circuit) /\ circuits[check.leaf.circuit].active
              /\ circuits[check.leaf.circuit].vkHash = check.leaf.vkHash
              /\ check.leaf \in proofLeaves
              /\ Gate
              /\ proofStatus[AnchorOf(check.leaf)].status = "Proved"
  BY DEF Holds, Gate, RequireProved
<1>4. CASE Begin
  <2>1. /\ check'.pc = "circuits" /\ check'.ok = TRUE
        /\ check' \in [pc     : {"new", "circuits", "status", "leaf", "proved", "verified", "blocked"},
                       leaf   : Leaves,
                       maxAge : MaxAges,
                       ok     : BOOLEAN]
    BY <1>4 DEF Begin, ChainInv, CheckTypeOK
  <2>2. (some' <=> held) /\ (all' <=> held) /\ some' \in BOOLEAN
    BY <1>4 DEF Begin, Holds
  <2> HIDE DEF held
  <2> QED
    BY <1>2, <2>1, <2>2 DEF ChainInv, CheckTypeOK, Spread, NoneFailed, VerifiedInOneBlock,
                           BlockedForReason, Running
<1>5. CASE ReadCircuits
  <2>1. /\ check.pc = "circuits" /\ check'.pc = "status" /\ UNCHANGED gateHistory
        /\ check'.ok => check.ok /\ Registered(check.leaf.circuit)
                        /\ circuits[check.leaf.circuit].active
                        /\ circuits[check.leaf.circuit].vkHash = check.leaf.vkHash
        /\ held /\ check.ok => check'.ok
        /\ CheckTypeOK'
    BY <1>3, <1>5 DEF ReadCircuits, Then, ChainInv, CheckTypeOK, Registered, gateHistory
  <2>2. check'.ok => held \/ check.leaf \notin proofLeaves \/ ~Gate
    BY <2>1 DEF Holds, Gate
  <2> QED
    BY <1>2, <2>1, <2>2 DEF ChainInv, Spread, NoneFailed, VerifiedInOneBlock, BlockedForReason,
                           Running, gateHistory
<1>6. CASE ReadStatus
  <2>1. /\ check.pc = "status" /\ check'.pc = "leaf" /\ UNCHANGED gateHistory
        /\ check'.ok => check.ok
        /\ held /\ check.ok => check'.ok
        /\ CheckTypeOK'
    BY <1>3, <1>6 DEF ReadStatus, Then, ChainInv, CheckTypeOK, gateHistory
  <2> QED
    BY <1>2, <2>1 DEF ChainInv, Spread, NoneFailed, VerifiedInOneBlock, BlockedForReason,
                     Running, gateHistory
<1>7. CASE ReadLeaf
  <2>1. /\ check.pc = "leaf" /\ check'.pc = "proved" /\ UNCHANGED gateHistory
        /\ check'.ok => check.ok /\ check.leaf \in proofLeaves
        /\ held /\ check.ok => check'.ok
        /\ CheckTypeOK'
    BY <1>3, <1>7 DEF ReadLeaf, Then, ChainInv, CheckTypeOK, gateHistory
  <2> QED
    BY <1>2, <2>1 DEF ChainInv, Spread, NoneFailed, VerifiedInOneBlock, BlockedForReason,
                     Running, gateHistory
<1>8. CASE ReadProved
  <2>1. /\ check.pc = "proved" /\ UNCHANGED gateHistory
        /\ check'.pc = "verified" => check.ok /\ Gate
        /\ check'.pc \in {"verified", "blocked"}
        /\ held /\ check.ok => check'.pc = "verified"
        /\ CheckTypeOK'
    BY <1>3, <1>8 DEF ReadProved, ChainInv, CheckTypeOK, gateHistory, Gate
  <2> QED
    BY <1>2, <2>1 DEF ChainInv, Spread, NoneFailed, VerifiedInOneBlock, BlockedForReason,
                     Running, gateHistory
<1>9. CASE CallFails
  BY <1>9 DEF CallFails, ChainInv, CheckTypeOK, Spread, NoneFailed, VerifiedInOneBlock,
              BlockedForReason, Running
<1> QED
  BY <1>4, <1>5, <1>6, <1>7, <1>8, <1>9

\* The strengthened invariant holds in every state of the chain and the gate.
LEMMA ChainInvHolds == ChainSpec => []ChainInv
<1>1. TypeOK /\ LeafPerAnchor /\ ChainInv /\ [ChainNext]_chainVars => ChainInv'
  <2>1. UNCHANGED chainVars /\ ChainInv => ChainInv'
    BY DEF chainVars, vars, ledgerVars, adminVars, gateHistory, ChainInv, CheckTypeOK, Spread,
           NoneFailed, VerifiedInOneBlock, BlockedForReason, Running, Gate, Holds, RequireProved,
           Registered
  <2> QED
    BY <2>1, BlockKeepsInv, ReadKeepsInv DEF ChainNext
<1> QED
  BY <1>1, ChainInitInv, ChainRegistryInside, TypeCorrect, LeafPerAnchorHolds, PTL DEF ChainSpec

\* A verified report is true of one block since the check began.
THEOREM VerifiedInOneBlockHolds == ChainSpec => []VerifiedInOneBlock
<1> QED
  BY ChainInvHolds, PTL DEF ChainInv

\* A block without a failed call is never the gate's own doing.
THEOREM BlockedForReasonHolds == ChainSpec => []BlockedForReason
<1> QED
  BY ChainInvHolds, PTL DEF ChainInv

-----------------------------------------------------------------------------
\* RegisterRoute.

\* A registered circuit has one of the vk hashes: what makes the leaf that the
\* adapter submits a leaf.
ConfiguredVk == \A c \in Circuits : Registered(c) => circuits[c].vkHash \in VkHashes

RouteTypes ==
  /\ phase \in [Requests -> {"new"} \cup Awaiting \cup Answered]
  /\ readVk \in [Requests -> VkHashes \cup {ZeroHash}]
  /\ tx \in [Requests -> {"none", "pending", "mined", "reverted"}]
  /\ answer \in [Requests -> Requests \cup {None}]
  /\ records \in [IdemKeys -> {None} \cup
                    [payload : [circuit : Circuits, inputs : Inputs, proof : Proofs],
                     result  : Requests]]
  /\ crashes \in 0 .. MaxCrashes

\* A handler sends at most once, and only with a vkHash it read.
SentOnce ==
  \A r \in Requests :
    /\ phase[r] \in {"new", "circuit", "engine", "vk", "send"} => tx[r] = "none"
    /\ phase[r] = "send" \/ tx[r] # "none" => readVk[r] \in VkHashes

\* A mined transaction leaves its anchor on the ledger for good.
MinedIsAnchored ==
  \A r \in Requests : tx[r] = "mined" => proofStatus[AnchorFor(r)].status # "None"

\* What the handler does after wait(), records and answers, rests on a mined
\* transaction of the same submission.
RestsOnMined ==
  /\ \A r \in Requests : phase[r] \in {"audit", "store"} => tx[r] = "mined"
  /\ \A k \in IdemKeys : records[k] # None =>
       tx[records[k].result] = "mined" /\ Payload(records[k].result) = records[k].payload
  /\ \A r \in Requests : phase[r] = "ok" =>
       /\ answer[r] \in Requests
       /\ tx[answer[r]] = "mined"
       /\ Payload(answer[r]) = Payload(r)

RouteIInv ==
  /\ TypeOK
  /\ ConfiguredVk
  /\ RouteTypes
  /\ SentOnce
  /\ MinedIsAnchored
  /\ RestsOnMined

-----------------------------------------------------------------------------
(* The registry underneath.                                                 *)

LEMMA RegistryStep ==
  ASSUME TypeOK, ConfiguredVk, [AnyStep]_vars
  PROVE  /\ TypeOK'
         /\ ConfiguredVk'
         /\ \A a \in Anchors : proofStatus[a].status # "None" => proofStatus'[a].status # "None"
<1>1. TypeOK'
  BY StepTypeOK
<1>2. ConfiguredVk'
  <2>1. ASSUME NEW c \in Circuits, NEW cfg \in Configs, RegisterCircuit(c, cfg[1], cfg[2])
        PROVE  ConfiguredVk'
    <3>1. cfg[2] \in VkHashes
      BY RegistryAssumption DEF RegistryAssumption
    <3> QED
      BY <2>1, <3>1 DEF RegisterCircuit, ConfiguredVk, Registered, TypeOK
  <2>2. ASSUME NEW c \in Circuits, DeactivateCircuit(c) PROVE ConfiguredVk'
    BY <2>2 DEF DeactivateCircuit, ConfiguredVk, Registered, TypeOK, CircuitConfig
  <2>3. CASE circuits' = circuits
    BY <2>3 DEF ConfiguredVk, Registered
  <2>4. ASSUME NEW leaf \in Leaves, RegisterProof(leaf) PROVE circuits' = circuits
    BY <2>4 DEF RegisterProof, Accept, adminVars
  <2>5. ASSUME NEW a \in Anchors, RevokeProof(a) PROVE circuits' = circuits
    BY <2>5 DEF RevokeProof, adminVars
  <2>6. ASSUME NEW i \in Impls, Upgrade(i) PROVE circuits' = circuits
    BY <2>6 DEF Upgrade
  <2>7. Pause \/ Unpause \/ Tick \/ UNCHANGED vars => circuits' = circuits
    BY DEF Pause, Unpause, Tick, vars, adminVars
  <2> QED
    BY <2>1, <2>2, <2>3, <2>4, <2>5, <2>6, <2>7 DEF AnyStep, OwnerCall
<1>3. ASSUME NEW a \in Anchors, proofStatus[a].status # "None"
      PROVE  proofStatus'[a].status # "None"
  <2>1. CASE proofStatus' = proofStatus
    BY <1>3, <2>1
  <2>2. ASSUME NEW b \in Anchors, proofStatus' = [proofStatus EXCEPT ![b].status = "Revoked"]
        PROVE  proofStatus'[a].status # "None"
    BY <1>3, <2>2 DEF TypeOK, ProofEntry
  <2>3. ASSUME NEW b \in Anchors, proofStatus' = [proofStatus EXCEPT ![b] = ProvedNow]
        PROVE  proofStatus'[a].status # "None"
    BY <1>3, <2>3 DEF TypeOK, ProvedNow
  <2>4. \A leaf \in Leaves : AnchorOf(leaf) \in Anchors
    BY DEF AnchorOf, Anchors, Leaves
  <2> QED
    BY <2>1, <2>2, <2>3, <2>4, LedgerStep
<1> QED
  BY <1>1, <1>2, <1>3

\* A registered leaf's anchor is on the ledger.
LEMMA RegisteredIsAnchored ==
  ASSUME TypeOK, NEW leaf \in Leaves, RegisterProof(leaf)
  PROVE  proofStatus'[AnchorOf(leaf)].status # "None"
<1>1. AnchorOf(leaf) \in Anchors
  BY DEF AnchorOf, Anchors, Leaves
<1> QED
  BY <1>1 DEF RegisterProof, Accept, ProvedNow, IsFresh, TypeOK

LEMMA AnchorForType ==
  ASSUME NEW r \in Requests
  PROVE  /\ Payload(r) \in [circuit : Circuits, inputs : Inputs, proof : Proofs]
         /\ AnchorFor(r) \in Anchors
         /\ readVk[r] \in VkHashes => LeafFor(r) \in Leaves
         /\ AnchorOf(LeafFor(r)) = AnchorFor(r)
<1>1. Payload(r) \in [circuit : Circuits, inputs : Inputs, proof : Proofs]
  BY RouteAssumption DEF RouteAssumption, Payload
<1> QED
  BY <1>1 DEF AnchorFor, Anchors, LeafFor, Leaves, AnchorOf

-----------------------------------------------------------------------------
(* The handler.                                                             *)

\* A step that only moves r, to an await or an answer it is entitled to.
LEMMA MovesStep ==
  ASSUME RouteIInv, NEW r \in Requests, NEW from, NEW next, Moves(r, from, next),
         next \in (Awaiting \cup Answered) \ {"ok", "send"},
         next \in {"circuit", "engine", "vk"} => from \in {"new", "circuit", "engine"},
         next \in {"audit", "store"} => tx[r] = "mined"
  PROVE  RouteIInv'
<1>1. /\ phase[r] = from
      /\ phase' = [phase EXCEPT ![r] = next]
      /\ UNCHANGED <<vars, readVk, tx, answer, records, crashes>>
  BY DEF Moves, Goto
<1>2. TypeOK'
  BY <1>1, StepTypeOK DEF RouteIInv
<1>3. ConfiguredVk'
  BY <1>1, RegistryStep DEF RouteIInv
<1>4. RouteTypes'
  BY <1>1 DEF RouteIInv, RouteTypes
<1>5. SentOnce'
  <2>1. next # "new" /\ next # "send"
    BY DEF Awaiting, Answered
  <2>2. phase'[r] = next /\ \A s \in Requests \ {r} : phase'[s] = phase[s]
    BY <1>1 DEF RouteIInv, RouteTypes
  <2>3. phase'[r] \in {"new", "circuit", "engine", "vk", "send"} => tx[r] = "none"
    BY <1>1, <2>1, <2>2 DEF RouteIInv, SentOnce
  <2>4. phase'[r] = "send" \/ tx[r] # "none" => readVk[r] \in VkHashes
    BY <2>1, <2>2 DEF RouteIInv, SentOnce
  <2> QED
    BY <1>1, <2>2, <2>3, <2>4 DEF RouteIInv, SentOnce
<1>6. MinedIsAnchored'
  BY <1>1 DEF RouteIInv, MinedIsAnchored, vars, ledgerVars, AnchorFor, Payload
<1>7. RestsOnMined'
  BY <1>1 DEF RouteIInv, RouteTypes, RestsOnMined, Payload
<1> QED
  BY <1>2, <1>3, <1>4, <1>5, <1>6, <1>7 DEF RouteIInv

LEMMA RejectsStep ==
  ASSUME RouteIInv, NEW r \in Requests, NEW from, Rejects(r, from)
  PROVE  RouteIInv'
<1>1. Moves(r, from, "failed")
  BY DEF Rejects
<1> QED
  BY <1>1, MovesStep DEF Answered, Awaiting

LEMMA ReplayStep ==
  ASSUME RouteIInv, NEW r \in Requests, Replay(r)
  PROVE  RouteIInv'
<1>1. CASE Moves(r, "new", "circuit")
  BY <1>1, MovesStep DEF Answered, Awaiting
<1>2. CASE Moves(r, "new", "conflict")
  BY <1>2, MovesStep DEF Answered, Awaiting
<1>3. ASSUME records[KeyOf[r]] # None, records[KeyOf[r]].payload = Payload(r),
             AnswerFrom(r, records[KeyOf[r]])
      PROVE  RouteIInv'
  <2> DEFINE s == records[KeyOf[r]].result
  <2>1. /\ phase' = [phase EXCEPT ![r] = "ok"]
        /\ answer' = [answer EXCEPT ![r] = s]
        /\ UNCHANGED <<vars, readVk, tx, records, crashes>>
    BY <1>3 DEF AnswerFrom, Goto
  <2>2. KeyOf[r] \in IdemKeys
    BY RouteAssumption DEF RouteAssumption
  <2>3. s \in Requests /\ tx[s] = "mined" /\ Payload(s) = Payload(r)
    BY <1>3, <2>2 DEF RouteIInv, RouteTypes, RestsOnMined
  <2> HIDE DEF s
  <2>4. TypeOK'
    BY <2>1, StepTypeOK DEF RouteIInv
  <2>5. ConfiguredVk'
    BY <2>1, RegistryStep DEF RouteIInv
  <2>6. RouteTypes'
    BY <2>1, <2>3 DEF RouteIInv, RouteTypes, Answered
  <2>7. SentOnce'
    BY <2>1 DEF RouteIInv, RouteTypes, SentOnce
  <2>8. MinedIsAnchored'
    BY <2>1 DEF RouteIInv, MinedIsAnchored, vars, ledgerVars, AnchorFor, Payload
  <2>9. RestsOnMined'
    BY <2>1, <2>3 DEF RouteIInv, RouteTypes, RestsOnMined, Payload
  <2> QED
    BY <2>4, <2>5, <2>6, <2>7, <2>8, <2>9 DEF RouteIInv
<1>4. CASE Rejects(r, "new")
  BY <1>4, RejectsStep
<1> QED
  BY <1>1, <1>2, <1>3, <1>4 DEF Replay

LEMMA GetCircuitStep ==
  ASSUME RouteIInv, NEW r \in Requests, GetCircuit(r)
  PROVE  RouteIInv'
<1>1. Moves(r, "circuit", "engine") \/ Moves(r, "circuit", "notFound") \/ Rejects(r, "circuit")
  BY DEF GetCircuit
<1> QED
  BY <1>1, MovesStep, RejectsStep DEF Answered, Awaiting

LEMMA EngineVerifyStep ==
  ASSUME RouteIInv, NEW r \in Requests, EngineVerify(r)
  PROVE  RouteIInv'
<1>1. Moves(r, "engine", "vk") \/ Moves(r, "engine", "unverified") \/ Rejects(r, "engine")
  BY DEF EngineVerify
<1> QED
  BY <1>1, MovesStep, RejectsStep DEF Answered, Awaiting

LEMMA ReadVkHashStep ==
  ASSUME RouteIInv, NEW r \in Requests, ReadVkHash(r)
  PROVE  RouteIInv'
<1>1. CASE Rejects(r, "vk")
  BY <1>1, RejectsStep
<1>2. ASSUME phase[r] = "vk", Registered(Payload(r).circuit),
             readVk' = [readVk EXCEPT ![r] = circuits[Payload(r).circuit].vkHash],
             Goto(r, "send"), UNCHANGED <<vars, tx, answer, records, crashes>>
      PROVE  RouteIInv'
  <2> DEFINE vk == circuits[Payload(r).circuit].vkHash
  <2>1. vk \in VkHashes
    BY <1>2, AnchorForType DEF RouteIInv, ConfiguredVk
  <2>2. /\ phase' = [phase EXCEPT ![r] = "send"]
        /\ readVk' = [readVk EXCEPT ![r] = vk]
        /\ UNCHANGED <<vars, tx, answer, records, crashes>>
    BY <1>2 DEF Goto
  <2> HIDE DEF vk
  <2>3. TypeOK'
    BY <2>2, StepTypeOK DEF RouteIInv
  <2>4. ConfiguredVk'
    BY <2>2, RegistryStep DEF RouteIInv
  <2>5. RouteTypes'
    BY <2>1, <2>2 DEF RouteIInv, RouteTypes, Awaiting
  <2>6. SentOnce'
    BY <1>2, <2>1, <2>2 DEF RouteIInv, RouteTypes, SentOnce
  <2>7. MinedIsAnchored'
    BY <2>2 DEF RouteIInv, MinedIsAnchored, vars, ledgerVars, AnchorFor, Payload
  <2>8. RestsOnMined'
    BY <2>2 DEF RouteIInv, RouteTypes, RestsOnMined, Payload
  <2> QED
    BY <2>3, <2>4, <2>5, <2>6, <2>7, <2>8 DEF RouteIInv
<1> QED
  BY <1>1, <1>2 DEF ReadVkHash

LEMMA SendStep ==
  ASSUME RouteIInv, NEW r \in Requests, Send(r)
  PROVE  RouteIInv'
<1>1. CASE Rejects(r, "send")
  BY <1>1, RejectsStep
<1>2. CASE Moves(r, "send", "failed")
  BY <1>2, MovesStep DEF Answered, Awaiting
<1>3. ASSUME phase[r] = "send", NEW next \in {"wait", "failed"}, Goto(r, next),
             tx' = [tx EXCEPT ![r] = "pending"],
             UNCHANGED <<vars, readVk, answer, records, crashes>>
      PROVE  RouteIInv'
  <2>1. /\ phase' = [phase EXCEPT ![r] = next]
        /\ tx[r] = "none"
        /\ readVk[r] \in VkHashes
    BY <1>3 DEF Goto, RouteIInv, SentOnce
  <2>2. \A s \in Requests : /\ tx[s] = "mined" => s # r /\ tx'[s] = "mined"
                            /\ tx'[s] = "mined" => tx[s] = "mined"
    BY <1>3, <2>1 DEF RouteIInv, RouteTypes
  <2>3. TypeOK'
    BY <1>3, StepTypeOK DEF RouteIInv
  <2>4. ConfiguredVk'
    BY <1>3, RegistryStep DEF RouteIInv
  <2>5. RouteTypes'
    BY <1>3, <2>1 DEF RouteIInv, RouteTypes, Awaiting, Answered
  <2>6. SentOnce'
    BY <1>3, <2>1 DEF RouteIInv, RouteTypes, SentOnce
  <2>7. MinedIsAnchored'
    BY <1>3, <2>2 DEF RouteIInv, MinedIsAnchored, vars, ledgerVars, AnchorFor, Payload
  <2>8. RestsOnMined'
    BY <1>3, <2>1, <2>2 DEF RouteIInv, RouteTypes, RestsOnMined, Payload
  <2> QED
    BY <2>3, <2>4, <2>5, <2>6, <2>7, <2>8 DEF RouteIInv
<1> QED
  BY <1>1, <1>2, <1>3 DEF Send

LEMMA WaitStep ==
  ASSUME RouteIInv, NEW r \in Requests, Wait(r)
  PROVE  RouteIInv'
<1>1. \/ tx[r] = "mined" /\ Moves(r, "wait", "audit")
      \/ Moves(r, "wait", "failed")
      \/ Rejects(r, "wait")
  BY DEF Wait
<1> QED
  BY <1>1, MovesStep, RejectsStep DEF Answered, Awaiting

LEMMA AuditAppendStep ==
  ASSUME RouteIInv, NEW r \in Requests, AuditAppend(r)
  PROVE  RouteIInv'
<1>1. Moves(r, "audit", "store") \/ Rejects(r, "audit")
  BY DEF AuditAppend
<1>2. phase[r] = "audit" => tx[r] = "mined"
  BY DEF RouteIInv, RestsOnMined
<1> QED
  BY <1>1, <1>2, MovesStep, RejectsStep DEF Answered, Awaiting, Moves

LEMMA StoreStep ==
  ASSUME RouteIInv, NEW r \in Requests, Store(r)
  PROVE  RouteIInv'
<1>1. CASE Rejects(r, "store")
  BY <1>1, RejectsStep
<1>2. ASSUME phase[r] = "store",
             records' = [records EXCEPT ![KeyOf[r]] = [payload |-> Payload(r), result |-> r]],
             \/ Goto(r, "ok") /\ answer' = [answer EXCEPT ![r] = r]
             \/ Goto(r, "failed") /\ UNCHANGED answer,
             UNCHANGED <<vars, readVk, tx, crashes>>
      PROVE  RouteIInv'
  <2>1. /\ KeyOf[r] \in IdemKeys
        /\ tx[r] = "mined"
        /\ Payload(r) \in [circuit : Circuits, inputs : Inputs, proof : Proofs]
    BY <1>2, RouteAssumption, AnchorForType DEF RouteAssumption, RouteIInv, RestsOnMined
  <2>2. \/ phase' = [phase EXCEPT ![r] = "ok"] /\ answer' = [answer EXCEPT ![r] = r]
        \/ phase' = [phase EXCEPT ![r] = "failed"] /\ answer' = answer
    BY <1>2 DEF Goto
  <2>3. TypeOK'
    BY <1>2, StepTypeOK DEF RouteIInv
  <2>4. ConfiguredVk'
    BY <1>2, RegistryStep DEF RouteIInv
  <2>5. RouteTypes'
    <3>1. phase' \in [Requests -> {"new"} \cup Awaiting \cup Answered]
      BY <2>2 DEF RouteIInv, RouteTypes, Answered
    <3>2. answer' \in [Requests -> Requests \cup {None}]
      BY <2>2 DEF RouteIInv, RouteTypes
    <3>3. records' \in [IdemKeys -> {None} \cup
                          [payload : [circuit : Circuits, inputs : Inputs, proof : Proofs],
                           result  : Requests]]
      BY <1>2, <2>1 DEF RouteIInv, RouteTypes
    <3> QED
      BY <1>2, <3>1, <3>2, <3>3 DEF RouteIInv, RouteTypes
  <2>6. SentOnce'
    BY <1>2, <2>2 DEF RouteIInv, RouteTypes, SentOnce
  <2>7. MinedIsAnchored'
    BY <1>2 DEF RouteIInv, MinedIsAnchored, vars, ledgerVars, AnchorFor, Payload
  <2>8. RestsOnMined'
    <3>1. \A s \in Requests : phase'[s] \in {"audit", "store"} => tx'[s] = "mined"
      BY <1>2, <2>2 DEF RouteIInv, RouteTypes, RestsOnMined
    <3>2. \A k \in IdemKeys : records'[k] # None =>
            tx'[records'[k].result] = "mined" /\ Payload(records'[k].result) = records'[k].payload
      BY <1>2, <2>1 DEF RouteIInv, RouteTypes, RestsOnMined
    <3>3. \A s \in Requests : phase'[s] = "ok" =>
            answer'[s] \in Requests /\ tx'[answer'[s]] = "mined" /\ Payload(answer'[s]) = Payload(s)
      BY <1>2, <2>1, <2>2 DEF RouteIInv, RouteTypes, RestsOnMined
    <3> QED
      BY <3>1, <3>2, <3>3 DEF RestsOnMined, Payload
  <2> QED
    BY <2>3, <2>4, <2>5, <2>6, <2>7, <2>8 DEF RouteIInv
<1> QED
  BY <1>1, <1>2 DEF Store

-----------------------------------------------------------------------------
(* The chain, expiry and restarts.                                          *)

\* A registry step of the owner, another client or time.
LEMMA ChainStep ==
  ASSUME RouteIInv, [AnyStep]_vars, UNCHANGED routeVars
  PROVE  RouteIInv'
<1>0. UNCHANGED <<phase, readVk, tx, answer, records, crashes>>
  BY DEF routeVars
<1>1. /\ TypeOK'
      /\ ConfiguredVk'
      /\ \A a \in Anchors : proofStatus[a].status # "None" => proofStatus'[a].status # "None"
  BY RegistryStep DEF RouteIInv
<1>2. RouteTypes' /\ SentOnce' /\ RestsOnMined'
  BY <1>0 DEF RouteIInv, RouteTypes, SentOnce, RestsOnMined, Payload
<1>3. MinedIsAnchored'
  BY <1>0, <1>1, AnchorForType DEF RouteIInv, MinedIsAnchored, AnchorFor, Payload
<1> QED
  BY <1>1, <1>2, <1>3 DEF RouteIInv

LEMMA MineStep ==
  ASSUME RouteIInv, NEW r \in Requests, Mine(r)
  PROVE  RouteIInv'
<1>1. /\ tx[r] = "pending"
      /\ readVk[r] \in VkHashes
      /\ LeafFor(r) \in Leaves
      /\ AnchorFor(r) \in Anchors
      /\ AnchorOf(LeafFor(r)) = AnchorFor(r)
  BY AnchorForType DEF Mine, RouteIInv, SentOnce
<1>2. /\ \/ RegisterProof(LeafFor(r)) /\ tx' = [tx EXCEPT ![r] = "mined"]
         \/ UNCHANGED vars /\ tx' = [tx EXCEPT ![r] = "reverted"]
      /\ UNCHANGED <<phase, readVk, answer, records, crashes>>
  BY DEF Mine
<1>3. [AnyStep]_vars
  BY <1>1, <1>2 DEF AnyStep
<1>4. /\ TypeOK'
      /\ ConfiguredVk'
      /\ \A a \in Anchors : proofStatus[a].status # "None" => proofStatus'[a].status # "None"
  BY <1>3, RegistryStep DEF RouteIInv
<1>5. tx'[r] = "mined" => proofStatus'[AnchorFor(r)].status # "None"
  BY <1>1, <1>2, RegisteredIsAnchored DEF RouteIInv, RouteTypes
<1>6. \A s \in Requests : s # r => tx'[s] = tx[s]
  BY <1>2 DEF RouteIInv, RouteTypes
<1>7. \A s \in Requests : tx[s] = "mined" => s # r /\ tx'[s] = "mined"
  BY <1>1, <1>6
<1>8. RouteTypes'
  BY <1>2 DEF RouteIInv, RouteTypes
<1>9. SentOnce'
  <2>1. phase[r] \notin {"new", "circuit", "engine", "vk", "send"}
    BY <1>1 DEF RouteIInv, SentOnce
  <2> QED
    BY <1>1, <1>2, <1>6, <2>1 DEF RouteIInv, SentOnce
<1>10. MinedIsAnchored'
  BY <1>2, <1>4, <1>5, <1>6, AnchorForType DEF RouteIInv, MinedIsAnchored, AnchorFor, Payload
<1>11. RestsOnMined'
  BY <1>2, <1>7 DEF RouteIInv, RouteTypes, RestsOnMined, Payload
<1> QED
  BY <1>4, <1>8, <1>9, <1>10, <1>11 DEF RouteIInv

LEMMA ForgetRecordsStep ==
  ASSUME RouteIInv,
         records' \in [IdemKeys -> {None} \cup
                         [payload : [circuit : Circuits, inputs : Inputs, proof : Proofs],
                          result  : Requests]],
         \A k \in IdemKeys : records'[k] \in {None, records[k]},
         phase' \in [Requests -> {"new"} \cup Awaiting \cup Answered],
         \A r \in Requests : phase'[r] \in {"dropped", phase[r]},
         crashes' \in 0 .. MaxCrashes,
         UNCHANGED <<vars, readVk, tx, answer>>
  PROVE  RouteIInv'
<1>1. TypeOK'
  BY StepTypeOK DEF RouteIInv
<1>2. ConfiguredVk'
  BY RegistryStep DEF RouteIInv
<1>3. RouteTypes'
  BY DEF RouteIInv, RouteTypes
<1>4. SentOnce'
  BY DEF RouteIInv, SentOnce
<1>5. MinedIsAnchored'
  BY DEF RouteIInv, MinedIsAnchored, vars, ledgerVars, AnchorFor, Payload
<1>6. RestsOnMined'
  <2>1. \A r \in Requests : phase'[r] \in {"audit", "store"} => tx'[r] = "mined"
    BY DEF RouteIInv, RestsOnMined
  <2>2. \A k \in IdemKeys : records'[k] # None =>
          tx'[records'[k].result] = "mined" /\ Payload(records'[k].result) = records'[k].payload
    BY DEF RouteIInv, RestsOnMined
  <2>3. \A r \in Requests : phase'[r] = "ok" =>
          answer'[r] \in Requests /\ tx'[answer'[r]] = "mined" /\ Payload(answer'[r]) = Payload(r)
    BY DEF RouteIInv, RestsOnMined
  <2> QED
    BY <2>1, <2>2, <2>3 DEF RestsOnMined, Payload
<1> QED
  BY <1>1, <1>2, <1>3, <1>4, <1>5, <1>6 DEF RouteIInv

LEMMA ExpireStep ==
  ASSUME RouteIInv, NEW k \in IdemKeys, Expire(k)
  PROVE  RouteIInv'
<1>1. /\ records' = [records EXCEPT ![k] = None]
      /\ UNCHANGED <<vars, phase, readVk, tx, answer, crashes>>
  BY DEF Expire
<1>2. \A j \in IdemKeys : records'[j] \in {None, records[j]}
  BY <1>1 DEF RouteIInv, RouteTypes
<1> QED
  BY <1>1, <1>2, ForgetRecordsStep DEF RouteIInv, RouteTypes

LEMMA CrashStep ==
  ASSUME RouteIInv, Crash
  PROVE  RouteIInv'
<1>1. /\ crashes < MaxCrashes
      /\ crashes' = crashes + 1
      /\ phase' = [r \in Requests |-> IF phase[r] \in Awaiting THEN "dropped" ELSE phase[r]]
      /\ records' = records \/ records' = [k \in IdemKeys |-> None]
      /\ UNCHANGED <<vars, readVk, tx, answer>>
  BY DEF Crash
<1>2. crashes' \in 0 .. MaxCrashes
  BY <1>1, RouteAssumption DEF RouteIInv, RouteTypes, RouteAssumption
<1>3. phase' \in [Requests -> {"new"} \cup Awaiting \cup Answered]
  BY <1>1 DEF RouteIInv, RouteTypes, Answered
<1>4. \A r \in Requests : phase'[r] \in {"dropped", phase[r]}
  BY <1>1
<1>5. /\ records' \in [IdemKeys -> {None} \cup
                         [payload : [circuit : Circuits, inputs : Inputs, proof : Proofs],
                          result  : Requests]]
      /\ \A k \in IdemKeys : records'[k] \in {None, records[k]}
  BY <1>1 DEF RouteIInv, RouteTypes
<1> QED
  BY <1>1, <1>2, <1>3, <1>4, <1>5, ForgetRecordsStep

-----------------------------------------------------------------------------
LEMMA InitRoute == RouteInit => RouteIInv
<1> SUFFICES ASSUME RouteInit PROVE RouteIInv
  OBVIOUS
<1>1. TypeOK
  BY InitTypeOK DEF RouteInit
<1>2. ConfiguredVk
  BY DEF RouteInit, Init, ConfiguredVk, Registered
<1>3. RouteTypes
  BY RouteAssumption DEF RouteInit, RouteTypes, RouteAssumption
<1>4. SentOnce /\ MinedIsAnchored /\ RestsOnMined
  BY DEF RouteInit, SentOnce, MinedIsAnchored, RestsOnMined
<1> QED
  BY <1>1, <1>2, <1>3, <1>4 DEF RouteIInv

LEMMA StepRoute == RouteIInv /\ [RouteNext]_allVars => RouteIInv'
<1> SUFFICES ASSUME RouteIInv, [RouteNext]_allVars PROVE RouteIInv'
  OBVIOUS
<1>1. ASSUME NEW r \in Requests, Handle(r) PROVE RouteIInv'
  BY <1>1, ReplayStep, GetCircuitStep, EngineVerifyStep, ReadVkHashStep, SendStep, WaitStep,
     AuditAppendStep, StoreStep DEF Handle
<1>2. ASSUME NEW r \in Requests, Mine(r) PROVE RouteIInv'
  BY <1>2, MineStep
<1>3. ASSUME NEW k \in IdemKeys, Expire(k) PROVE RouteIInv'
  BY <1>3, ExpireStep
<1>4. CASE Crash
  BY <1>4, CrashStep
<1>5. CASE Next /\ UNCHANGED routeVars
  BY <1>5, NextIsAnyStep, ChainStep
<1>6. CASE UNCHANGED allVars
  BY <1>6, ChainStep DEF allVars
<1> QED
  BY <1>1, <1>2, <1>3, <1>4, <1>5, <1>6 DEF RouteNext

LEMMA RouteInvariance == RouteSafety => []RouteIInv
<1> QED
  BY InitRoute, StepRoute, PTL DEF RouteSafety

\* The route's state is well typed: every record carries a result.
THEOREM RouteTypeCorrect == RouteSafety => []RouteTypeOK
<1>1. RouteIInv => RouteTypeOK
  BY DEF RouteIInv, RouteTypes, RouteTypeOK
<1> QED
  BY <1>1, RouteInvariance, PTL

\* Whatever requests, faults, restarts, expiry and the owner do, a 200 reports
\* a mined transaction of the same submission, whose anchor is on the ledger.
THEOREM SuccessIsAnchoredHolds == RouteSafety => []SuccessIsAnchored
<1>1. RouteIInv => SuccessIsAnchored
  <2> SUFFICES ASSUME RouteIInv, NEW r \in Requests, phase[r] = "ok"
               PROVE  /\ tx[answer[r]] = "mined"
                      /\ Payload(answer[r]) = Payload(r)
                      /\ proofStatus[AnchorFor(r)].status # "None"
    BY DEF SuccessIsAnchored
  <2>1. answer[r] \in Requests /\ tx[answer[r]] = "mined" /\ Payload(answer[r]) = Payload(r)
    BY DEF RouteIInv, RestsOnMined
  <2>2. AnchorFor(answer[r]) = AnchorFor(r)
    BY <2>1 DEF AnchorFor
  <2> QED
    BY <2>1, <2>2 DEF RouteIInv, MinedIsAnchored
<1> QED
  BY <1>1, RouteInvariance, PTL

-----------------------------------------------------------------------------
(* A retry.                                                                 *)

\* A proof of an anchor that is on the ledger writes nothing.
LEMMA RegisterAgain ==
  ASSUME TypeOK, NEW leaf \in Leaves, RegisterProof(leaf),
         proofStatus[AnchorOf(leaf)].status # "None"
  PROVE  UNCHANGED <<proofLeaves, proofStatus, totalProofs>>
<1>1. AnchorOf(leaf) \in Anchors
  BY DEF AnchorOf, Anchors, Leaves
<1>2. /\ proofStatus' = [proofStatus EXCEPT ![AnchorOf(leaf)] = proofStatus[AnchorOf(leaf)]]
      /\ proofLeaves' = proofLeaves
      /\ totalProofs' = totalProofs
  BY DEF RegisterProof, IsFresh, Accept
<1>3. proofStatus' = proofStatus
  BY <1>1, <1>2 DEF TypeOK
<1> QED
  BY <1>2, <1>3

\* Only a block that includes r's transaction makes it mined.
LEMMA OnlyMineMines ==
  ASSUME RouteTypes, NEW r \in Requests, [RouteNext]_allVars, tx[r] # tx'[r], tx'[r] = "mined"
  PROVE  Mine(r)
<1>1. ASSUME NEW s \in Requests, Handle(s) PROVE tx' = tx \/ tx' = [tx EXCEPT ![s] = "pending"]
  BY <1>1 DEF Handle, Replay, AnswerFrom, GetCircuit, EngineVerify, ReadVkHash, Send, Wait,
     AuditAppend, Store, Moves, Rejects
<1>2. ASSUME NEW s \in Requests, Mine(s), s # r PROVE FALSE
  BY <1>2 DEF Mine, RouteTypes
<1> QED
  BY <1>1, <1>2 DEF RouteNext, Expire, Crash, RouteTypes, allVars, routeVars

\* Whatever is lost, expires or restarts, and in whatever order the requests of
\* a retrying client run, the second of two mined transactions for one anchor
\* finds it on the ledger and writes nothing.
THEOREM RetryChangesNothingHolds == RouteSafety => RetryChangesNothing
<1>1. RouteIInv /\ [RouteNext]_allVars
        => [\A r, s \in Requests :
              tx[s] = "mined" /\ AnchorFor(r) = AnchorFor(s) /\ tx[r] # tx'[r] /\ tx'[r] = "mined"
                => UNCHANGED <<proofLeaves, proofStatus, totalProofs>>]_allVars
  <2> SUFFICES ASSUME RouteIInv, [RouteNext]_allVars, NEW r \in Requests, NEW s \in Requests,
                      tx[s] = "mined", AnchorFor(r) = AnchorFor(s), tx[r] # tx'[r], tx'[r] = "mined"
               PROVE  UNCHANGED <<proofLeaves, proofStatus, totalProofs>>
    OBVIOUS
  <2>1. Mine(r)
    BY OnlyMineMines DEF RouteIInv
  <2>2. /\ LeafFor(r) \in Leaves
        /\ AnchorOf(LeafFor(r)) = AnchorFor(r)
    BY <2>1, AnchorForType DEF Mine, RouteIInv, SentOnce
  <2>3. proofStatus[AnchorOf(LeafFor(r))].status # "None"
    BY <2>2 DEF RouteIInv, MinedIsAnchored
  <2>4. CASE RegisterProof(LeafFor(r))
    BY <2>2, <2>3, <2>4, RegisterAgain DEF RouteIInv
  <2>5. CASE UNCHANGED vars
    BY <2>5 DEF vars, ledgerVars
  <2> QED
    BY <2>1, <2>4, <2>5 DEF Mine
<1> QED
  BY <1>1, RouteInvariance, PTL DEF RouteSafety, RetryChangesNothing
================================================================================
