\* Two jobs whose requests overlap, two workers, a crash and a fault.
CONSTANTS
  u1 = u1
  r1 = r1
  p1 = p1
  p2 = p2
  p3 = p3
  w1 = w1
  w2 = w2
  None = None
  Users <- OneUser
  FreeUsers <- OneUser
  Resumes <- OneResume
  ResumeOwner <- AllOfU1
  Portfolios <- TwoPortfolios
  Workers <- TwoWorkers
  MaxRetries = 2
  FreePortfolioLimit = 1
  MaxInFlight = 2
  PromptCommit = FALSE
  MaxCrashes = 1
  MaxFaults = 1
SPECIFICATION Spec
SYMMETRY Symmetry
INVARIANTS
  NoForgottenJob
  OutcomeAnnounced
  DuplicatesNeedCrashes
PROPERTIES
  StatusAdvances
  ImplementsLifecycle
\* All ids used, all work done: the model, not the system, ends there.
CHECK_DEADLOCK FALSE
