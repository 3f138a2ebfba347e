\* Three users, one of them an author, two open requests, ratings 1 and 5, two Stripe accounts.
CONSTANTS
  u1 = u1
  u2 = u2
  u3 = u3
  q1 = q1
  q2 = q2
  None = None
  Users <- ThreeUsers
  Authors <- OneAuthor
  Ratings <- BadAndGood
  Requests <- TwoRequests
  MaxAccounts = 2
SPECIFICATION Spec
SYMMETRY Symmetry
INVARIANTS
  RatingIsRight
  OneAccountPerAuthor
PROPERTIES
  DecisionIsFinal
\* Once all users have gone, nothing happens.
CHECK_DEADLOCK FALSE
