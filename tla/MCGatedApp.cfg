SPECIFICATION GatedSpec
CONSTANTS
  c1 = c1  v1 = v1  v2 = v2  k1 = k1  k2 = k2  x1 = x1  x2 = x2
  p1 = p1  p2 = p2  V1 = V1  V2 = V2
  Circuits = {c1}
  Verifiers = {v1, v2}
  NoVerifier = NoVerifier
  VkHashes = {k1, k2}
  ZeroHash = ZeroHash
  Configs <- MCConfigs
  Inputs = {x1, x2}
  Proofs = {p1, p2}
  Accepts <- MCAccepts
  Impls = {V1, V2}
  FirstImpl = V1
  SchemaConst <- MCSchemaConst
  SchemaReported <- MCSchemaReported
  MaxTime = 3
  MaxEmits = 2
  GatedCircuit = c1
  Payout = 1
  ProofMaxAge = 1
  MaxFunding = 2
INVARIANTS LeafWasVerified Solvent PayoutHasVerifiedLeaf
PROPERTIES StatusForward GateStaysClosed
