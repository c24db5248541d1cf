SPECIFICATION AgentSpec
CONSTANTS
  IPs = {"a", "s"}
  Private = {"s"}
  ServerIP = "s"
  Policies <- EnforcePolicies
  Caps = {TRUE}
  DNSFails = FALSE
  Faulty = {"setup","add","remove","flush","replace"}
  MaxLocal = 1
  MaxVersion = 2
  MaxCmds = 1
  MaxFaults = 2
  MaxCrashes = 1
  UpMaxVersion = 2
  UpMinRemote = 1
  UpMaxFault = 1
  UpMaxOperator = 2
  BsTexts <- MCTexts
  BsYear = 3
  BsDay = 1
  BsSeedLines = 1
  BsMaxLines = 2
  BsMaxClock = 3
  BsMaxRotate = 1
  BsMaxFault = 1
PROPERTIES UpgradeIsSafe EveryLineOnce ReleasesTakeHold UpgradesConverge
CHECK_DEADLOCK FALSE
