\* Two calls with one retry each and every process they may need, so that no bound
\* keeps a call from its retry.  No symmetry, as the property is temporal.
CONSTANTS
  Call = {c1, c2}
  None = None
  Retries = 1
  MaxSpawns = 4
SPECIFICATION FairSpec
PROPERTY CallsSettle
CHECK_DEADLOCK FALSE
