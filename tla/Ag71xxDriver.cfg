SPECIFICATION DriverSpec
CONSTANTS
  Orders = {o1, o2}
  Splits = {0, 512}
  MaxLen = 1540
  DsPerPkt = 4
  MinDma = 4
\* rtnl may be lost (RtnlLost says when).
CHECK_DEADLOCK FALSE
INVARIANTS
  RingForTraffic
  RtnlLost
  FreedAsAllocated
  SafeSegments
  EnoughDescs
PROPERTIES
  RtnlReleased
