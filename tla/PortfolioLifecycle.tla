-------------------------- MODULE PortfolioLifecycle --------------------------
(***************************************************************************)
(* What POST /portfolio/generate promises its user about one portfolio:    *)
(* it is accepted, worked on, and ends published or failed; it may be      *)
(* deleted at any time and then never comes back.  Work on it is at least  *)
(* once: a portfolio that has an outcome may be worked on again, and a     *)
(* duplicate may replace the outcome, but it is never waiting again.       *)
(***************************************************************************)
CONSTANT Portfolios

VARIABLE stage   \* the stage of each portfolio

Stages   == {"none", "queued", "generating", "published", "failed", "deleted"}
Outcomes == {"published", "failed"}

TypeOK == stage \in [Portfolios -> Stages]

Init == stage = [p \in Portfolios |-> "none"]

Moves(p, from, to) ==
    /\ stage[p] \in from
    /\ stage' = [stage EXCEPT ![p] = to]

Accept(p) == Moves(p, {"none"}, "queued")
Begin(p)  == Moves(p, {"queued"} \cup Outcomes, "generating")
Finish(p) == \E o \in Outcomes : Moves(p, {"generating"} \cup Outcomes, o)
Delete(p) == Moves(p, {"queued", "generating"} \cup Outcomes, "deleted")

Next == \E p \in Portfolios : Accept(p) \/ Begin(p) \/ Finish(p) \/ Delete(p)

SafeSpec == Init /\ [][Next]_stage

Waiting(p) == stage[p] \in {"queued", "generating"}

\* No accepted portfolio waits for ever, and work on it stops.
Settles == \A p \in Portfolios : <>[](~Waiting(p))

Spec == SafeSpec /\ Settles

=============================================================================
