SPECIFICATION FeedbackSpec
CONSTANTS
  NoActuation = NoActuation
  Service = {s1}
  Objective = {o1}
  Namespace = {n1}
  TargetOf <- MCTargetOf
  NamespaceOf <- MCNamespaceOf
  Policy <- MCOnePolicy
  MaxStrikes = 3
  PauseDuration = 1
  Horizon = 2
INVARIANT DegradationOpensBreaker
