--------------------------- MODULE Configuration ---------------------------
(***************************************************************************)
(* From the front matter of WORKFLOW.md to a ServiceConfig (build.rs and   *)
(* resolve.rs) and its validation (config.rs).  Pure operators.            *)
(*                                                                         *)
(* The front matter is a record of sections, a section a record of keys;   *)
(* either may be Absent.  A text matters as far as it is empty, or becomes *)
(* so when trimmed (Blank) or when its variables are resolved.             *)
(***************************************************************************)
EXTENDS Naturals

CONSTANTS
  Absent,       \* a key or section that is not there
  Empty, Blank, \* the empty text; one of white space only
  CurrentDir,   \* an absolute path
  Environment   \* what texts that name variables of the environment expand to

ASSUME ConfigurationAssumption ==
  Empty # Blank /\ Absent \notin {Empty, Blank} /\ CurrentDir # Empty

OrDefault(value, default) == IF value = Absent THEN default ELSE value
Trim(text) == IF text = Blank THEN Empty ELSE text

(* A variable that is not set stays in the text as it is.                     *)
ResolveVar(text) == IF text \in DOMAIN Environment THEN Environment[text] ELSE text

(* What is empty is relative, and so becomes the current directory.           *)
ResolveWorktreeRoot(text) ==
  IF Trim(ResolveVar(text)) = Empty THEN CurrentDir ELSE Trim(ResolveVar(text))

Given(text) == Trim(OrDefault(text, Empty)) # Empty

(* Content without front matter.                                             *)
NoFrontMatter == [fix_pr |-> Absent, tracker |-> Absent, runner |-> Absent,
                  polling |-> Absent, worktree |-> Absent, agent |-> Absent]

(* Required sections and keys are there; repo, api_key and command may be     *)
(* empty as far as this goes.                                                *)
Builds(raw) ==
  /\ raw.tracker # Absent /\ raw.runner # Absent /\ raw.worktree # Absent
  /\ Given(raw.tracker.claim_label) /\ Given(raw.tracker.pr_open_label)
  /\ Given(raw.tracker.pr_base_branch)
  /\ Given(raw.worktree.root) /\ Given(raw.worktree.main_repo_path)

(* The limits, delays and lists left out are given defaults in the same way.  *)
Build(raw) ==
  LET polling == OrDefault(raw.polling, [interval_ms |-> Absent])
      agent == OrDefault(raw.agent, [max_concurrent_agents |-> Absent])
      RunnerTypes == {"acp", "cli"}
  IN [fix_pr |-> OrDefault(raw.fix_pr, FALSE),
      repo |-> Trim(OrDefault(raw.tracker.repo, Empty)),
      api_key |-> Trim(ResolveVar(OrDefault(raw.tracker.api_key, Empty))),
      claim_label |-> Trim(raw.tracker.claim_label),
      pr_open_label |-> Trim(raw.tracker.pr_open_label),
      pr_base_branch |-> Trim(raw.tracker.pr_base_branch),
      command |-> Trim(ResolveVar(OrDefault(raw.runner.command, Empty))),
      runner_type |-> IF raw.runner.type \in RunnerTypes THEN raw.runner.type ELSE "codex",
      interval_ms |-> OrDefault(polling.interval_ms, 30000),
      root |-> ResolveWorktreeRoot(raw.worktree.root),
      main_repo_path |-> ResolveWorktreeRoot(raw.worktree.main_repo_path),
      max_concurrent_agents |-> OrDefault(agent.max_concurrent_agents, 10)]

ValidateDispatch(config) ==
  \A field \in {"repo", "api_key", "claim_label", "pr_open_label", "pr_base_branch",
                "command", "main_repo_path", "root"} : config[field] # Empty
=============================================================================
