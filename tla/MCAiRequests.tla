---------------------------- MODULE MCAiRequests ----------------------------
(***************************************************************************)
(* Small instances of AiRequests for TLC.                                  *)
(***************************************************************************)
EXTENDS AiRequests, TLC

CONSTANTS q1, q2, free, pro

TwoRequests == {q1, q2}
TwoPlans    == {free, pro}
FourKinds   == {"parse", "build", "letter", "export"}
SmallCaps   == [b \in Buckets |-> free :> 1 @@ pro :> 2]
Symmetry    == Permutations(Requests)

=============================================================================
