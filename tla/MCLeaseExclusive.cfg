\* Disciplined nodes: live clocks, and appends no slower than the slack.
CONSTANTS
  n1 = n1
  n2 = n2
  u1 = u1
  Node = {n1, n2}
  Unit = {u1}
  Nobody = Nobody
  TTL = 4
  Slack = 1
  MaxLatency = 1
  Stalls = FALSE
  MaxClock = 8
  MaxLog = 3
SPECIFICATION Spec
SYMMETRY Symmetry
INVARIANT NeverWritesUnheld
PROPERTY TakesOnlyExpired
CHECK_DEADLOCK FALSE
