SPECIFICATION FairSpec
CONSTANTS
  Cluster = {hub, c1}
  Tenant = {t1}
  Executor = {e1, e2}
  mgmtCluster = hub
  IdleWindow = 1
INVARIANT ManagementServes
PROPERTY NeverStuck
