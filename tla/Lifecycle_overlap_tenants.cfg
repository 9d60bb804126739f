SPECIFICATION Spec
CONSTANTS
  Cluster = {c1, c2}
  Tenant = {t1}
  Executor = {e1, e2}
  mgmtCluster = hub
  IdleWindow = 1
INVARIANT TenantsKeepALocation
