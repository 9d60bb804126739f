SPECIFICATION Spec
CONSTANTS
  Tenant = {"t1", "t2"}
  TenantProfiles <- MCTenantProfiles
  Usage <- MCUsage
  Deltas <- MCDeltas
  NoProfile = NoProfile
  NoBudget = NoBudget
  NoNumber = NoNumber
  Watched = {"t1", "t2"}
  Cores <- MCCores
  Guarantee <- MCGuarantee
  Window = 1
  MaxHist = 2
  MaxAlert = 1
  NoFlag = NoFlag
  Inputs <- MCInputs
  IdleInputs <- MCIdleInputs
  clusterCores = 1000000
  Params <- MCParams
  MaxChange = 40
  Cooldown = 2
  Minimise = TRUE
  SLOs = {1, 2}
  MaxObs = 3
  NoParam = NoParam
  NoSLO = NoSLO
  NoDefault = NoDefault
  Key = {"a", "b"}
  Setting <- MCSetting
  Lower <- MCLower
  Upper <- MCUpper
  IdleData <- MCIdleData
  RestartOnTuning = TRUE
  Text = Text
  Unbounded = Unbounded
  Absent = Absent
  NoSnapshot = NoSnapshot
  NoJob = NoJob
  Caller = {"loop", "risk"}
  MaxErrors = 3
  ErrorWindow = 4
  Pause = 2
  Deviation = {10, 60}
  ZeroActual = ZeroActual
  Threshold = 30
  Sustain = 2
  WindowMax = 2
  NoTime = NoTime
  Asker = {"loop", "slo"}
  TTL = 2
  Timeout = 2
  NoAnswer = NoAnswer
  Idle = Idle
  Service = {"s1", "s2"}
  Ratio = {0, 100}
  OwnBudget = OwnBudget
  NoPool = NoPool
  NoReqs = NoReqs
  NoCall = NoCall
  NoHint = NoHint
INVARIANTS
  TypeOK
  QuotaSound
  FlagsFollowGrowth
  SharesSound
  MLGuarded
  CacheFresh
PROPERTIES
  TuningBounded
  PatchesUndone
CHECK_DEADLOCK FALSE
