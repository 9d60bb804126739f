SPECIFICATION Spec
CONSTANTS
  MaxReplicas = 4
  WithHPA = {FALSE}
  NoHPA = NoHPA
  Watcher = {w1}
  NoWatcher = NoWatcher
  CanaryOption = {TRUE}
  MaxChange = {0}
  None = None
INVARIANT RollbackRestores
