\* A trim waits for every open handle.
CONSTANTS
  n1 = n1
  n2 = n2
  Node = {n1, n2}
  Interval = 2
  Payload <- MCPayload
  Prompt = TRUE
  MaxLen = 5
SPECIFICATION Spec
INVARIANTS TypeOK FoldIsHistory CheckpointsAgree Bootable
PROPERTY NoSlotReuse
CHECK_DEADLOCK FALSE
