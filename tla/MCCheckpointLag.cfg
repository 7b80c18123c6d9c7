\* A handle sleeps through two checkpoints and the trim behind them.
CONSTANTS
  n1 = n1
  n2 = n2
  Node = {n1, n2}
  Interval = 2
  Payload <- MCPayload
  Prompt = FALSE
  MaxLen = 5
SPECIFICATION Spec
PROPERTY NoSlotReuse
CHECK_DEADLOCK FALSE
