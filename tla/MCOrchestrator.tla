--------------------------- MODULE MCOrchestrator ---------------------------
(* Model values and symmetry for TLC's runs of Orchestrator.                 *)
EXTENDS Orchestrator, TLC

CONSTANTS r1, r2, r3, r4

OneIssue == {1}
TwoIssues == {1, 2}
TwoRuns == {r1, r2}
ThreeRuns == {r1, r2, r3}
LimitOne == {1}
LimitTwo == {2}
LimitOneOrNone == {0, 1}   \* none: dispatch is paused
OpenOrClosed == {"eligible", "closed"}
WithPr == {"eligible", "pr_open", "closed"}
AlwaysEligible == {"eligible"}

(* Runs are compared for equality only.                                      *)
RunSymmetry == Permutations(Runs)
=============================================================================
