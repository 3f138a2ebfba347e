\* Two accounts that may use one address after the other, two handlers.
CONSTANTS
  c1 = c1
  c2 = c2
  a1 = a1
  a2 = a2
  h1 = h1
  h2 = h2
  None = None
  ClerkIds <- TwoAccounts
  Emails <- TwoAddresses
  Handlers <- TwoHandlers
  MaxEvents = 3
  MaxRows = 2
  MaxDuplicates = 1
SPECIFICATION Spec
SYMMETRY Symmetry
INVARIANTS
  OneRowPerAccount
  InLockstep
\* Events and rows run out: the model, not the system, ends there.
CHECK_DEADLOCK FALSE
