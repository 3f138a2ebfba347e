\* Two overlapping requests of four kinds, three in all, over more than a day.
CONSTANTS
  q1 = q1
  q2 = q2
  free = free
  pro = pro
  Free = free
  None = None
  Asked <- FourKinds
  Requests <- TwoRequests
  Plans <- TwoPlans
  Cap <- SmallCaps
  Attempts = 2
  Providers = 2
  Day = 3
  Second = 2
  Minute = 2
  CacheLife = 3
  MaxStarted = 3
  MaxChanges = 1
  MaxErrors = 1
  MaxTime = 3
SPECIFICATION Spec
SYMMETRY Symmetry
PROPERTIES
  CapIsExact
  PaidOnce
\* The clock and the counters end: the model, not the system, stops there.
CHECK_DEADLOCK FALSE
