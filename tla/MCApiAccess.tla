----------------------------- MODULE MCApiAccess -----------------------------
(***************************************************************************)
(* Small instances of ApiAccess for TLC.                                   *)
(***************************************************************************)
EXTENDS ApiAccess, TLC

CONSTANTS u1, dev, a1, read, x1, x2, k1

UserAndDeveloper == {u1, dev}
OneUser          == {u1}
OneApp           == {a1}
DevelopedByDev   == a1 :> dev
OneScope         == {read}
TwoExchanges     == {x1, x2}
OneCall          == {k1}

\* Bound: four of the two codes, two tokens and one key.
FourIssued == issued.codes + issued.tokens + issued.keys <= 4

Symmetry == Permutations(Exchanges)

=============================================================================
