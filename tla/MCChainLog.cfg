\* PUTs land late and 5xx answers lie: what holds whatever the bucket does.
CONSTANTS
  w1 = w1
  w2 = w2
  Writer = {w1, w2}
  MaxBatch = 2
  MaxStart = 3
  MaxFault = 1
  LateLanding = TRUE
  LandedReject = TRUE
  FreshIncarnation = TRUE
SPECIFICATION Spec
SYMMETRY Symmetry
INVARIANTS TypeOK LogHolds AckedDurable WriterOrder
CHECK_DEADLOCK FALSE
