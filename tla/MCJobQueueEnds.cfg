SPECIFICATION Spec
CONSTANTS
  a = a  b = b  c = c  t1 = t1  t2 = t2  k = k
  Requests = {a, c}
  Tenants = {t1, t2}
  TenantOf <- MCOneTenantOf
  Keys = {k}
  NoKey = NoKey
  KeyOf <- MCNoKeyOf
  Dispatchers = {d1, d2}
  MaxGlobalWorkers = 2
  MaxWorkerPerTenant = 1
  MaxAttempts = 2
  None = None
PROPERTY JobsFinish
