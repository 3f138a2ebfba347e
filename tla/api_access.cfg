\* One app of another user; of two codes, two tokens and a key four are issued; one
\* call at a time.
CONSTANTS
  u1 = u1
  dev = dev
  a1 = a1
  read = read
  x1 = x1
  x2 = x2
  k1 = k1
  None = None
  Users <- UserAndDeveloper
  Grantors <- OneUser
  Apps <- OneApp
  OwnerOf <- DevelopedByDev
  Scopes <- OneScope
  Exchanges <- TwoExchanges
  Calls <- OneCall
  CodeTTL = 1
  TokenTTL = 1
  MaxCodes = 2
  MaxTokens = 2
  MaxKeys = 1
  MaxTime = 1
SPECIFICATION Spec
SYMMETRY Symmetry
CONSTRAINT FourIssued
INVARIANTS
  CodesAreOneTime
  EndedIsRefused
  WithdrawnIsOut
PROPERTIES
  ImplementsGrants
\* Codes, tokens, keys and time run out: the model, not the system, ends there.
CHECK_DEADLOCK FALSE
