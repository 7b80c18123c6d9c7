\* One PUT is executed after its client saw the slot empty.
CONSTANTS
  w1 = w1
  w2 = w2
  Writer = {w1, w2}
  MaxBatch = 1
  MaxStart = 2
  MaxFault = 1
  LateLanding = TRUE
  LandedReject = FALSE
  FreshIncarnation = TRUE
SPECIFICATION Spec
SYMMETRY Symmetry
INVARIANT LandsOnce
CHECK_DEADLOCK FALSE
