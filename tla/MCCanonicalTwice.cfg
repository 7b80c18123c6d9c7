\* A parameter whose name decodes only after its stray percent sign is escaped.
CONSTANTS
  Urls <- MCUrls
  MaxSpellings = 1
SPECIFICATION Spec
INVARIANT Idempotent
CHECK_DEADLOCK FALSE
