SPECIFICATION Spec
CONSTANTS
  SloSpecs <- MCSloSpecs
  Readings <- MCReadings
  Malformed = Malformed
  NoData = NoData
  Policy = {"p", "q"}
  PolicySpecs <- MCPolicySpecs
  NoPolicy = NoPolicy
  Loads <- MCLoads
  MinPoints = 2
  MaxChanges = 3
  Unreadable = Unreadable
  NoDecision = NoDecision
INVARIANTS
  ChosenIsSound
  KnownSLO
PROPERTIES
  PolicyApplies
CHECK_DEADLOCK FALSE
