SPECIFICATION SafeSpec
CONSTANTS
  Series = {s1}
  ForS = 1
  CooldownS = 2
  MayDelete = TRUE
  MaxFault = 2
  NoSeries = NoSeries
  Host = {1, 2}
  MaxTime = 4
  Cutoff = 2
  Lag = 1
  ChunkSize = 2
  MaxRuns = 2
  RsClients = {1, 2}
  RsData = {"data"}
  RsLocks = {"lock"}
  RsConfigs = {}
  RsSize <- MCSize
  RsContents = {"good", "bad"}
  RsGood = "good"
  RsQuotas = {0, 1}
  RsBackends = {"disk", "s3", "s3plain"}
  RsMaxPosts = 2
  RsMaxEvents = 1
  IPs = {"a", "s"}
  Private = {}
  ServerIP = "s"
  Policies <- MCPolicies
  Caps = {TRUE, FALSE}
  DNSFails = TRUE
  Faulty = {"setup", "active", "add", "remove", "flush", "replace"}
  MaxLocal = 1
  MaxVersion = 2
  MaxCmds = 1
  MaxFaults = 1
  MaxCrashes = 1
  BtPolicies <- TrackerPolicies
  FindDefault = 3
  BanDefault = 1
  EscalationWindow = 3
  BtMaxTime = 5
  MaxLog = 4
  SdDay = 2
  SdWeek = 3
  SdBackupAt = 1
  SdCheckDay = 1
  SdCheckAt = 1
  SdJitter = 1
  SdMaxNow = 15
  SdMaxFault = 2
INVARIANTS AlertInv ArchiveInv StoreInv KernelFollowsManager
PROPERTIES DecisionsMatchLog OccurrencesRunOnce StoreSteps
CHECK_DEADLOCK FALSE
