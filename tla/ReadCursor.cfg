\* Telegram: two messages, receipts by cursor, one fault.
SPECIFICATION ReaderSpec
CONSTANTS
  m1 = m1  m2 = m2  a1 = a1
  NoItem = NoItem
  Item = {m1, m2}
  Account = {a1}
  AcctOf <- OneDialog
  Media = {}
  MaxAttempts = 1
  BatchSize = 2
  MaxFaults = 1
  Kinds = {"cursor", "exact"}
  Line = a1
  KnownMax = 1
  MaxQueue = 1
INVARIANTS HonestRead ReadPrefix
PROPERTY DeliverySpec
CHECK_DEADLOCK FALSE
