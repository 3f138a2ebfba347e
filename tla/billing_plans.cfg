\* One user: two customers, two subscriptions, any order, duplicates, a fault.
CONSTANTS
  u1 = u1
  h1 = h1
  h2 = h2
  None = None
  Users <- OneUser
  Handlers <- TwoHandlers
  MaxCustomers = 2
  MaxSessions = 2
  MaxEvents = 3
  MaxMishaps = 1
SPECIFICATION Spec
SYMMETRY Symmetry
INVARIANTS
  PlanIsRight
  OrgMirrorsPlan
  OnceAtStripe
\* All events sent and answered: the model ends there.
CHECK_DEADLOCK FALSE
