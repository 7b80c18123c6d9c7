\* Two stores, both discovery paths, faulty writes and restarts.
CONSTANTS
  p1 = p1
  p2 = p2
  Store = {p1, p2}
  NoRoot = NoRoot
  Ckpts = {1, 2}
  MaxFault = 1
  MaxRestart = 1
SPECIFICATION FairSpec
INVARIANTS TypeOK RootsHold
PROPERTIES AnswersForward CallsReturn
CHECK_DEADLOCK FALSE
