----------------------------- MODULE MCUserMirror -----------------------------
(***************************************************************************)
(* Small instances of UserMirror for TLC.                                  *)
(***************************************************************************)
EXTENDS UserMirror, TLC

CONSTANTS c1, c2, a1, a2, h1, h2

TwoAccounts  == {c1, c2}
TwoAddresses == {a1, a2}
TwoHandlers  == {h1, h2}

Symmetry == Permutations(Handlers) \cup Permutations(Emails)

=============================================================================
