\* Two messages of the messenger, one fault, an initiation, messages of the panel.
SPECIFICATION FairSpec
CONSTANTS
  MaxWritten = 2
  MaxFaults = 1
  MaxClock = 1
  WorkTicks = {0}
  DedupTicks = 1
  EchoMax = 3
  MaxAttempts = 2
INVARIANTS StoredOnceInOrder RepliesApart
PROPERTIES ClientIsHeard InitiationEnds
CHECK_DEADLOCK FALSE
