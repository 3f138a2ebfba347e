\* One endpoint, one subscribed event and the manual ping, two workers.
CONSTANTS
  e1 = e1
  v1 = v1
  ping = ping
  w1 = w1
  w2 = w2
  None = None
  Endpoints <- OneEndpoint
  Events <- TwoEvents
  Ping = ping
  Subscribed <- Everything
  Workers <- TwoWorkers
  MaxRetries = 1
  MinuteLimit = 1
  MaxMinutes = 1
  MaxManual = 1
  MaxCrashes = 1
  MaxFaults = 1
SPECIFICATION Spec
SYMMETRY Symmetry
INVARIANTS
  NoSilentLoss
  ReceiptsAreLogged
  AnsweredIsOver
  AttemptsAreBounded
  PacedPosts
\* Events, minutes and manual sends run out: the model, not the system, ends there.
CHECK_DEADLOCK FALSE
