SPECIFICATION IbSpec
CONSTANTS
  IPs = {"a", "s"}
  Private = {"s"}
  ServerIP = "s"
  Policies <- EnforcePolicies
  Caps = {TRUE}
  DNSFails = FALSE
  Faulty = {"setup","active","add","remove","flush","replace"}
  MaxLocal = 1
  MaxVersion = 3
  MaxCmds = 0
  MaxFaults = 1
  MaxCrashes = 0
INVARIANTS BansAreEnforced
