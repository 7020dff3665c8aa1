SPECIFICATION Spec
CONSTANTS
  MaxTasks = 2
  MaxEdits = 2
  MaxFaults = 1
  MaxAttempts = 2
INVARIANTS
  CardsAreAccounted
  WrittenOnce
PROPERTIES
  DialogKeepsCard
CHECK_DEADLOCK FALSE
