SPECIFICATION Spec
CONSTANTS
  MaxReplicas = 3
  WithHPA = {TRUE, FALSE}
  NoHPA = NoHPA
  Watcher = {w1, w2}
  NoWatcher = NoWatcher
  CanaryOption = {TRUE, FALSE}
  MaxChange = {0, 50}
  None = None
SYMMETRY MCSymmetry
INVARIANTS
  TypeOK
  WatcherReachable
  AbortRestores
  DirectRollbackRestores
  ChangeBounded
