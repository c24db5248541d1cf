SPECIFICATION FairSpec
CONSTANTS
  MaxBatch = 2
  MaxEvent = 2
  MaxNet = 2
  MaxCrash = 1
  EventCap = 1
  ReportCap = 1
  SpoolMax = 1
INVARIANTS DeliveryInv
PROPERTIES SpoolDrains
CHECK_DEADLOCK FALSE
