\* Two replies per 3 units; two initiations per 4 units, 2 units apart.
SPECIFICATION Spec
CONSTANTS
  ReplyLimit = 2
  ReplyWindow = 3
  InitMax = 2
  InitWindow = 4
  InitMinInterval = 2
  MaxTime = 6
  MaxRestarts = 1
INVARIANTS Rates RefusalIsDue
CHECK_DEADLOCK FALSE
