SPECIFICATION FairSpec
CONSTANTS
  Lines = {1}
  Savers = {s}
  Handlers = {1, 2}
  Sizes = {2}
  Mirror = TRUE
  MaxRows = 1
  MaxEvents = 1
  MaxUsed = 2
  MaxAttempts = 2
INVARIANTS
  OperatorOnce
  ShownOnce
  WaitingIsFree
PROPERTY
  DeletedLineReleases
CHECK_DEADLOCK FALSE
