\* Requests on one page, a Redis failure, and the TTLs.
CONSTANTS
  p1 = p1
  p2 = p2
  h1 = h1
  h2 = h2
  h3 = h3
  None = None
  Portfolios <- OnePage
  Handlers <- ThreeHandlers
  MaxEpoch = 3
  MaxRedisFaults = 1
SPECIFICATION FairSpec
INVARIANTS
  StaleNeedsARace
PROPERTIES
  HiddenPagesGoDark
  SettledPagesAreRight
\* All pages deleted and all requests answered: the model ends there.
CHECK_DEADLOCK FALSE
