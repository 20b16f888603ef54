SPECIFICATION Safety
CONSTANTS
  a = a  b = b  c = c  t1 = t1  t2 = t2  k = k
  Requests = {a, b}
  Tenants = {t1, t2}
  TenantOf <- MCTenantOf
  Keys = {k}
  NoKey = NoKey
  KeyOf <- MCKeyOf
  Dispatchers = {d1, d2, d3}
  MaxGlobalWorkers = 2
  MaxWorkerPerTenant = 2
  MaxAttempts = 2
  None = None
SYMMETRY DispatcherSymmetry
INVARIANTS AttemptsBounded OneJobPerKey WorkersExact IdleTenantHasRoom
PROPERTIES StatusFollowsTransitions FailClosedIsFinal
