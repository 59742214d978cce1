-------------------------- MODULE MCPaperExperiment --------------------------
(***************************************************************************)
(* Instances of PaperExperiment for TLC: the markets, and which verdicts   *)
(* the gates that look at one row give.                                    *)
(***************************************************************************)
EXTENDS PaperExperiment

Kind(usable, policy, fresh, edge) ==
    [usable |-> usable, policy |-> policy, fresh |-> fresh, edge |-> edge]
Good == Kind(TRUE, Candidate, TRUE, TRUE)
StaleSources == Kind(TRUE, Candidate, FALSE, TRUE)
ForReview == Kind(TRUE, "MANUAL_REVIEW", TRUE, TRUE)
NoEdge == Kind(TRUE, Candidate, TRUE, FALSE)
NoBook == Kind(FALSE, Candidate, TRUE, TRUE)

GoodAndStale == {Good, StaleSources}
AllKinds == {Good, StaleSources, ForReview, NoEdge, NoBook}

\* The first market closes while the clock runs, the second opens late.
EarlyAndLate == [t \in Tickers |-> IF t = "early" THEN 4 ELSE 6]
=============================================================================
