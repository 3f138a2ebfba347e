\* Three users, two requests at a time.
CONSTANTS
  u1 = u1
  u2 = u2
  u3 = u3
  h1 = h1
  h2 = h2
  None = None
  Users <- ThreeUsers
  Handlers <- TwoHandlers
  Roles <- ThreeRoles
SPECIFICATION Spec
SYMMETRY Symmetry
PROPERTIES
  LastOwnerIsKept
  OwnerlessIsFinal
  ImplementsMembership
\* All accounts deleted: the model ends there.
CHECK_DEADLOCK FALSE
