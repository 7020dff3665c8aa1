\* A line whose responsible manager changes; two messages, one fault.
SPECIFICATION FairSpec
CONSTANTS
  u1 = u1  u2 = u2
  NoRow = NoRow
  Recipient = {u1, u2}
  Teams <- OneAtATime
  MaxAttempts = 2
  BatchSize = 2
  MaxMessages = 2
  MaxFaults = 1
INVARIANTS OneNoticeEach AnsweredIsCleared FirstContactIsShown
PROPERTY QueueDrains
CHECK_DEADLOCK FALSE
