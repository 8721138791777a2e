-------------------------- MODULE MCWorkflowReload --------------------------
(* Instances of WorkflowReload for TLC: a workflow that spells everything out *)
(* and one that leaves to the defaults what it can; one without a claim label,*)
(* one whose token is an empty variable, one with a blank repository.        *)
EXTENDS WorkflowReload

CONSTANT none

Full ==
  [fix_pr |-> TRUE,
   tracker |-> [repo |-> "repo", api_key |-> "$TOKEN", claim_label |-> "claimed",
                pr_open_label |-> "pr-open", pr_base_branch |-> "main"],
   runner |-> [command |-> "agent", type |-> "acp"],
   polling |-> [interval_ms |-> 1000],
   worktree |-> [root |-> "$UNSET", main_repo_path |-> "main"],
   agent |-> [max_concurrent_agents |-> 1]]
Terse == [Full EXCEPT !.fix_pr = none, !.polling = none, !.agent = none,
                      !.runner.type = none, !.worktree.root = "$EMPTY"]
Unclaimed == [Full EXCEPT !.tracker.claim_label = " "]
NoToken == [Full EXCEPT !.tracker.api_key = "$EMPTY"]
BlankRepo == [Full EXCEPT !.tracker.repo = " "]

SomeVersions == {"full", "terse", "unclaimed", "no token", "blank repo"}
FrontMatters == [v \in SomeVersions |->
  CASE v = "full" -> Full [] v = "terse" -> Terse [] v = "unclaimed" -> Unclaimed
    [] v = "no token" -> NoToken [] v = "blank repo" -> BlankRepo]
SetVariables == [v \in {"$TOKEN", "$EMPTY"} |-> IF v = "$TOKEN" THEN "token" ELSE ""]

=============================================================================
