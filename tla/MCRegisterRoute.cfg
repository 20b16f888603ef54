SPECIFICATION RouteSpec
CONSTANTS
  c1 = c1  v1 = v1  v2 = v2  k1 = k1  k2 = k2  x1 = x1  x2 = x2
  p1 = p1  V1 = V1  key = key  r1 = r1  r2 = r2  r3 = r3
  Circuits = {c1}
  Verifiers = {v1, v2}
  NoVerifier = NoVerifier
  VkHashes = {k1, k2}
  ZeroHash = ZeroHash
  Configs <- MCConfigs
  Inputs = {x1, x2}
  Proofs = {p1}
  Accepts <- MCAccepts
  Impls = {V1}
  FirstImpl = V1
  SchemaConst <- MCSchema
  SchemaReported <- MCSchema
  MaxTime = 1
  MaxEmits = 1
  Requests = {r1, r2, r3}
  IdemKeys = {key}
  KeyOf <- MCKeyOf
  PayloadOf <- MCPayload
  EngineAccepts <- MCEngine
  None = None
  Faults = TRUE
  Durable = FALSE
  Expiry = TRUE
  MaxCrashes = 1
INVARIANT SuccessIsAnchored
PROPERTIES RetryChangesNothing 
