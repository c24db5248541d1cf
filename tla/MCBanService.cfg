SPECIFICATION SvFairSpec
CONSTANTS
  h1 = h1
  h2 = h2
  a = a
  z = z
  InitSettings <- Stored
  c1 = c1
  c2 = c2
  SvHost <- Hosts
  SvAddr = {a}
  AllowEntry = {a, z}
  Routable = {a}
  SvReport <- Reports
  SvCall <- Calls
  FleetMinHosts = 2
  FleetMinBans = 2
  SettingsPatch <- Patches
  HostPatch <- HostPatches
  MaxWork = 2
  MaxLost = 1
INVARIANTS PolicyInv
PROPERTIES FleetBansAreJustified ImplementsAuthority PolicyReachesAgents
