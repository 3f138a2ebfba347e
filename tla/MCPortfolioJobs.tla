--------------------------- MODULE MCPortfolioJobs ---------------------------
(***************************************************************************)
(* Small instances of PortfolioJobs for TLC.                               *)
(***************************************************************************)
EXTENDS PortfolioJobs, TLC

CONSTANTS u1, r1, p1, p2, p3, w1, w2

OneUser         == {u1}
OneResume       == {r1}
TwoPortfolios   == {p1, p2}
ThreePortfolios == {p1, p2, p3}
OneWorker       == {w1}
TwoWorkers      == {w1, w2}
AllOfU1         == [r \in Resumes |-> u1]

Symmetry == Permutations(Portfolios) \cup Permutations(Workers)

=============================================================================
