------------------------------ MODULE MCResumes ------------------------------
(***************************************************************************)
(* Small instances of Resumes for TLC.                                     *)
(***************************************************************************)
EXTENDS Resumes, TLC

CONSTANTS r1, r2, e1, e2, c1, c2, h1, h2, w1, w2

OneResume   == {r1}
TwoResumes  == {r1, r2}
OneExport   == {e1}
TwoExports  == {e1, e2}
TwoContents == {c1, c2}
TwoHashes   == {h1, h2}
TwoWorkers  == {w1, w2}
Distinct    == c1 :> h1 @@ c2 :> h2
Alike       == c1 :> h1 @@ c2 :> h1

Symmetry == Permutations(Workers) \cup Permutations(Exports)

=============================================================================
