\* Two dialogs, pages of one message, three moves of the manager or faults.
SPECIFICATION FairSpec
CONSTANTS
  Dialogs = {1, 2}
  History <- MCHistory
  PageSize = 1
  PollLimit = 1
  MaxRows = 3
  MaxMoves = 3
  MaxPolls = 1
INVARIANTS BubbleIsSending
PROPERTIES FeedsApart CatchesUp
CHECK_DEADLOCK FALSE
