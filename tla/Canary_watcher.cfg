SPECIFICATION Spec
CONSTANTS
  MaxReplicas = 4
  WithHPA = {FALSE}
  NoHPA = NoHPA
  Watcher = {w1, w2}
  NoWatcher = NoWatcher
  CanaryOption = {TRUE}
  MaxChange = {0}
  None = None
PROPERTY RollsBackOwnAction
