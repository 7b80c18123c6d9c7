\* Every PUT is decided by the time its client hears about it.
CONSTANTS
  w1 = w1
  w2 = w2
  Writer = {w1, w2}
  MaxBatch = 2
  MaxStart = 2
  MaxFault = 2
  LateLanding = FALSE
  LandedReject = FALSE
  FreshIncarnation = TRUE
SPECIFICATION FairSpec
INVARIANT LandsOnce
PROPERTIES ImplementsTotalOrder AppendReturns
CHECK_DEADLOCK FALSE
