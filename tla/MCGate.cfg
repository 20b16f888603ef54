SPECIFICATION GateSpec
CONSTANTS
  k1 = k1  k2 = k2
  None = None
  NoSignature = NoSignature
  MaxSource = 2
  MaxStops = 1
  Keys = {k1, k2}
  TrustedKey = k1
  RequireSigned = TRUE
CHECK_DEADLOCK FALSE
INVARIANTS CertifiedKeysMatch PassedEnvelopeIsBound PassedWasSigned
