SPECIFICATION Spec
CONSTANTS
  Keys = {k1, k2, k3}
  Verifying = {k3}
  NoKey = NoKey
  DefaultMax = 2
  Procs = {p1, p2}
  None = None
  Retentions = {1}
  MaxRotation = 3
SYMMETRY Symmetry
INVARIANTS ActiveIsStored RotationsDistinct
PROPERTIES SigningLostByChoice RecentKeysKept
