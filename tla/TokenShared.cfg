\* Three tasks of one manager, one fault, installations on two portals.
SPECIFICATION FairSpec
CONSTANTS
  t1 = t1  t2 = t2  t3 = t3  k1 = k1  k2 = k2  p1 = p1  p2 = p2
  NoTask = NoTask
  Task = {t1, t2, t3}
  Manager = {k1}
  ManagerOf <- SharedManager
  Portal = {p1, p2}
  MaxIssued = 3
  MaxFaults = 1
INVARIANTS SingleRefresh TokenNotLost
PROPERTY EveryCallReturns
CHECK_DEADLOCK FALSE
