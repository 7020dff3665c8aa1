SPECIFICATION SessionFairSpec
CONSTANTS
  Files = {f1, f2}
  MaxFaults = 2
INVARIANT ReadyIsHeard
PROPERTIES SessionReturns FileEnds
CHECK_DEADLOCK FALSE
