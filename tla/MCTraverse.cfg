\* Every query of up to three terms and five postings over four documents, in blocks of two.
CONSTANTS
  Term = {t1, t2, t3}
  MaxDoc = 3
  MaxPosting = 5
  MaxImpact = 2
  Asked <- MCAsked
  BlockLen = 2
  InlineLen = 1
SPECIFICATION Spec
SYMMETRY Symmetry
INVARIANTS RankSafe NothingLost
CHECK_DEADLOCK FALSE
