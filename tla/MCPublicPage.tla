---------------------------- MODULE MCPublicPage ----------------------------
(***************************************************************************)
(* Small instances of PublicPage for TLC.                                  *)
(***************************************************************************)
EXTENDS PublicPage, TLC

CONSTANTS p1, p2, h1, h2, h3

OnePage       == {p1}
TwoPages      == {p1, p2}
TwoHandlers   == {h1, h2}
ThreeHandlers == {h1, h2, h3}

Symmetry == Permutations(Portfolios) \cup Permutations(Handlers)

=============================================================================
