\* A text and a media message of one account, with faults anywhere.
SPECIFICATION FairSpec
CONSTANTS
  m1 = m1  m2 = m2  a1 = a1
  NoItem = NoItem
  Item = {m1, m2}
  Account = {a1}
  AcctOf <- OneAccount
  Media = {m2}
  MaxAttempts = 2
  BatchSize = 1
  MaxFaults = 1
INVARIANTS
  StatusAgreement
  GiveUpIsEarned
  DuplicatesAreAccounted
  CrmTaskPerSent
PROPERTIES
  DeliverySpec
  EveryMessageSettles
CHECK_DEADLOCK FALSE
