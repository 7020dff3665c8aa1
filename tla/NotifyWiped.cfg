\* Is a NULL slot always a settled one?
SPECIFICATION Spec
CONSTANTS
  u1 = u1  u2 = u2
  NoRow = NoRow
  Recipient = {u1, u2}
  Teams <- Alone
  MaxAttempts = 2
  BatchSize = 2
  MaxMessages = 3
  MaxFaults = 0
INVARIANT NullMeansNothingToShow
CHECK_DEADLOCK FALSE
