SPECIFICATION HostSpec
CONSTANTS
  NdUploads = {1}
  NdQuota = 2
  NdMaxSecret = 2
  NdMaxOps = 3
  NdMaxPosts = 1
  NdMaxFault = 1
  MgNames = {"a", "b"}
  MgMaxRow = 2
  MgMaxCred = 2
  MgMaxOps = 5
  MgMaxFault = 1
INVARIANTS NodeInv ManagedInv
PROPERTIES UsageArrives NodeFollowsServer ManagedConverges
CHECK_DEADLOCK FALSE
