SPECIFICATION FairSpec
CONSTANTS
  NoActuation = NoActuation
  Service = {s1}
  Objective = {o1, o2}
  Namespace = {n1}
  TargetOf <- MCTargetOf
  NamespaceOf <- MCNamespaceOf
  Policy <- MCTwoPolicies
  MaxStrikes = 3
  PauseDuration = 2
  Horizon = 3
INVARIANTS TypeOK CooldownRespected FailuresSpaced StopHonoured
PROPERTY NeverLockedOut
