----------------------------- MODULE MCWorktree -----------------------------
(* Instances of Worktree for TLC.                                            *)
EXTENDS Worktree

CONSTANTS r1, r2, r3

TwoRuns == {r1, r2}
ThreeRuns == {r1, r2, r3}
=============================================================================
