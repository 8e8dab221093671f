SPECIFICATION RingsSpec
CONSTANTS
  RingSize = 8
  CounterMod = 16
  DsPerPkt = 2
  DescSplit = FALSE
  IsAr724x = TRUE
  FixedLink = FALSE
  Limit = 2
  RxAr724x = FALSE
  Payloads = {0, 1, 2, 3, 4, 5, 6, 7, 8, 9, 10, 11, 12, 13, 14, 15}
INVARIANTS
  RingInv
  DmaTarget
  NoLostWakeup
PROPERTIES
  ImplementsFifo
  Delivered
  RxRestarts
