\* One endpoint with room for one request, two open requests, two tiers.
CONSTANTS
  upload = upload
  q1 = q1
  q2 = q2
  None = None
  Prefixes <- OneEndpoint
  Limit <- OneEach
  Requests <- TwoRequests
  Tiers <- TwoTiers
  Window = 4
  Second = 2
  Day = 5
  MaxServed = 2
  MaxFailures = 3
  MaxErrors = 1
  MaxTime = 5
SPECIFICATION Spec
SYMMETRY Symmetry
INVARIANTS
  WindowHolds
  ResetsAfterADay
  LockEndsAsTold
PROPERTIES
  RetryAfterIsEnough
\* The clock and the counters end: the model, not the system, stops there.
CHECK_DEADLOCK FALSE
