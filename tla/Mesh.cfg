SPECIFICATION Spec

CONSTANTS
  a = a
  b = b
  Devices <- MCDevices
  Rank <- MCRank
  Skew <- MCSkew
  Home = a
  Fragile <- MCFragile
  Span = 20
  Lease = 1
  Beat = 0
  MaxTime = 5
  MaxAdvances = 1
  MaxExtras = 1

CHECK_DEADLOCK FALSE

INVARIANTS
  
  OneDriver
PROPERTIES
  AdvancesKept
