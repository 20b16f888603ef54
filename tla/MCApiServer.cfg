SPECIFICATION Spec
CONSTANTS
  alice = alice  bob = bob  n1 = n1  n2 = n2
  None = None
  Requests = {r1, r2, r3}
  Clients = {alice, bob}
  Nonces = {n1, n2}
  Calls <- MCCalls
  Environments <- MCEnvironments
  Limit <- MCLimit
  Window = 2
  MaxBuckets = 1
  Ttl = 2
  MaxEntries = 1
  RingCap = 1
  Faults = TRUE
  MaxTime = 5
  MaxStops = 1
  LastStop = 1
CHECK_DEADLOCK FALSE
SYMMETRY MCSymmetry
INVARIANTS NonceSingleUse GrantsBounded OthersCostNothing AnsweredIsAudited
PROPERTIES RetryAfterSuffices
