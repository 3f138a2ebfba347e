--------------------------- MODULE MCOrganization ---------------------------
(***************************************************************************)
(* Small instances of Organization for TLC.                                *)
(***************************************************************************)
EXTENDS Organization, TLC

CONSTANTS u1, u2, u3, h1, h2

ThreeUsers  == {u1, u2, u3}
TwoHandlers == {h1, h2}
ThreeRoles  == {"viewer", "admin", "owner"}

Symmetry == Permutations(Users) \cup Permutations(Handlers)

=============================================================================
