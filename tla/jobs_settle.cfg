\* Three requests of a FREE user, two open at a time, and a worker that dies once; the
\* broker is slower than the commit.
CONSTANTS
  u1 = u1
  r1 = r1
  p1 = p1
  p2 = p2
  p3 = p3
  w1 = w1
  w2 = w2
  None = None
  Users <- OneUser
  FreeUsers <- OneUser
  Resumes <- OneResume
  ResumeOwner <- AllOfU1
  Portfolios <- ThreePortfolios
  Workers <- OneWorker
  MaxRetries = 1
  FreePortfolioLimit = 1
  MaxInFlight = 2
  PromptCommit = TRUE
  MaxCrashes = 1
  MaxFaults = 0
SPECIFICATION FairSpec
INVARIANTS
  FreePlanLimit
PROPERTIES
  EveryRequestSettles
\* All ids used, all work done: the model, not the system, ends there.
CHECK_DEADLOCK FALSE
