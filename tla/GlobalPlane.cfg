SPECIFICATION Spec
CONSTANTS
  NoCapacity = NoCapacity
  Unset = Unset
  None = None
  Backend = {1, 2, 3}
  Cluster = {1, 2, 3}
  Monitor = {m1, m2}
  MaxShift = 25
  MaxCycles = 2
  Profiles <- MCProfiles
  Policies <- MCPolicies
  InitRoutes <- MCRoutes
SYMMETRY Monitors
INVARIANTS
  TypeOK
  PlanIsShare
  TotalKept
  KeepsMinActive
PROPERTIES
  IncreaseChecked
  RollbackUndoes
CHECK_DEADLOCK FALSE
