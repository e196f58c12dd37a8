CONSTANTS
  d1 = d1
  d2 = d2
  d3 = d3
  Devices <- ConstDevices
  MaxUrls = 2
  MaxClears = 1
  None = None
SPECIFICATION FairSpec
INVARIANTS
  WorkConserving
PROPERTIES
  Implements
  PendingSettles
CHECK_DEADLOCK FALSE
