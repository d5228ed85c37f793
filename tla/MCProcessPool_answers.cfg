\* Two calls; timers, exits and lines in any order.
CONSTANTS
  Call = {c1, c2}
  None = None
  Retries = 1
  MaxSpawns = 4
SPECIFICATION Spec
INVARIANT OwnAnswer
CHECK_DEADLOCK FALSE
