SPECIFICATION Spec
CONSTANTS
  Cluster = {hub, c1, c2}
  Tenant = {t1}
  Executor = {e1}
  mgmtCluster = hub
  IdleWindow = 2
INVARIANTS
  TypeOK
  StateTellsPools
  TenantsKeepALocation
  IdleSinceAwake
  Wakeable
