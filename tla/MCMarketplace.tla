---------------------------- MODULE MCMarketplace ----------------------------
(***************************************************************************)
(* Small instances of Marketplace for TLC.                                 *)
(***************************************************************************)
EXTENDS Marketplace, TLC

CONSTANTS u1, u2, u3, q1, q2

ThreeUsers  == {u1, u2, u3}
OneAuthor   == {u3}
TwoRequests == {q1, q2}
BadAndGood  == {1, 5}

Symmetry == Permutations(Users \ Authors) \cup Permutations(Requests)

=============================================================================
