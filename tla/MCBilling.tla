------------------------------ MODULE MCBilling ------------------------------
(***************************************************************************)
(* Small instances of Billing for TLC.                                     *)
(***************************************************************************)
EXTENDS Billing, TLC

CONSTANTS u1, h1, h2

OneUser     == {u1}
TwoHandlers == {h1, h2}

Symmetry == Permutations(Handlers)

=============================================================================
