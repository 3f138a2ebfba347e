---------------------------- MODULE MCRateLimits ----------------------------
(***************************************************************************)
(* Small instances of RateLimits for TLC.                                  *)
(***************************************************************************)
EXTENDS RateLimits, TLC

CONSTANTS upload, q1, q2

OneEndpoint == {upload}
OneEach     == upload :> 1
TwoRequests == {q1, q2}
TwoTiers    == {[fails |-> 2, ban |-> 2], [fails |-> 3, ban |-> 4]}

Symmetry == Permutations(Requests)

=============================================================================
