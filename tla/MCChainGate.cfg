SPECIFICATION ChainSpec
CONSTANTS
  c1 = c1  v1 = v1  v2 = v2  k1 = k1  k2 = k2  x1 = x1  p1 = p1  p2 = p2  p3 = p3  V1 = V1
  Circuits = {c1}
  Verifiers = {v1, v2}
  NoVerifier = NoVerifier
  VkHashes = {k1, k2}
  ZeroHash = ZeroHash
  Configs <- MCConfigs
  Inputs = {x1}
  Proofs = {p1, p2, p3}
  Accepts <- MCAccepts
  Impls = {V1}
  FirstImpl = V1
  SchemaConst <- MCSchema
  SchemaReported <- MCSchema
  MaxTime = 3
  MaxEmits = 1
  MaxAges = {0, 1}
CHECK_DEADLOCK FALSE
INVARIANTS VerifiedInOneBlock BlockedForReason
