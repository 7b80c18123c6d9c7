\* Two nodes that stall, restart and lose sight of their appends.
CONSTANTS
  n1 = n1
  n2 = n2
  u1 = u1
  Node = {n1, n2}
  Unit = {u1}
  Nobody = Nobody
  TTL = 2
  Slack = 0
  MaxLatency = 100
  Stalls = TRUE
  MaxClock = 5
  MaxLog = 3
SPECIFICATION Spec
SYMMETRY Symmetry
INVARIANTS TypeOK FenceIsTight ReadersAgree
CHECK_DEADLOCK FALSE
