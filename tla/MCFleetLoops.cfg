SPECIFICATION LoopSpec
CONSTANTS
  Series = {s1, s2}
  ForS = 0
  CooldownS = 2
  MayDelete = FALSE
  MaxFault = 0
  NoSeries = NoSeries
  Poster = {"runner"}
  MaxInterval = 3
  MaxRestart = 1
  BwHosts = {"h1"}
  BwKeys = {1, 2}
  BwQueuedTTL = 0
  BwRunningTTL = 1
  BwResultTTL = 1
  BwGlobalCap = 2
  BwHostCap = 2
  BwMaxJobs = 3
  BwMaxFault = 1
  TpHosts = {1, 2}
  TpAddrs = {2, 3}
  TpMaxKey = 3
  TpMaxOps = 1
  TpMaxFault = 1
  BrRepos = {r1, r2}
  BrLive = 1
  BrResend = 2
  BrStale = 3
  BrMaxRuns = 2
  BrMaxFault = 2
  BrNone = BrNone
  BrBad = BrBad
INVARIANTS BrowseInv TunnelInv
PROPERTIES FileConverges ReportConverges AlertsClear RequestsAnswered TunnelHostsReconnect
CHECK_DEADLOCK FALSE
