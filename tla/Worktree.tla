------------------------------ MODULE Worktree ------------------------------
(***************************************************************************)
(* The worktree of one issue: its directory, git's record of it and its    *)
(* branch, the workers that set it up and use it (ensure_worktree_dir and  *)
(* run_worker_to_completion), and the cleanup at startup.                  *)
(*                                                                         *)
(* Aborting a worker, or the death of the program, stops none of the       *)
(* processes it started: git finishes, hooks and agents go on.  A hook or  *)
(* an agent that is attached to its task is implied by the task's stage;   *)
(* an after_create that goes on without its task counts as begun and not   *)
(* as done.  Both hooks are configured.  Runs identify worker tasks, as in *)
(* Orchestrator, which decides when they are spawned and aborted; here     *)
(* that may be at any time.                                                *)
(***************************************************************************)
EXTENDS Naturals, FiniteSets

CONSTANTS
  Runs,        \* worker tasks; one may be used again once its git has ended
  TasksAtOnce  \* bound: tasks of this issue that live at the same time

ASSUME WorktreeAssumption == IsFiniteSet(Runs) /\ TasksAtOnce \in Nat

VARIABLES
  issue,    \* open or closed at the tracker
  process,  \* symphony: down, in startup cleanup, or up
  task,     \* the await each worker task is at; none: no such task
  git,      \* how far the task's `git worktree add` has got, or its result
  dir,      \* absent; husk: no .git file; partial: .git file, not all files; complete
  record,   \* git's record of the worktree (.git/worktrees)
  branch,   \* the branch exists
  hook,     \* after_create in the present directory: unbegun, begun, done
  blame,    \* why the present directory may be unready (history)
  torn      \* a directory was removed, or git killed in making it (history)

disk == <<dir, record, branch>>
history == <<hook, blame, torn>>
vars == <<issue, process, task, git, disk, history>>

-----------------------------------------------------------------------------
Adding == {"add", "addExisting"}
InUse == {"after_create", "before_run", "agent"}
Setup == {"check", "fetch", "after_create", "before_run"} \cup Adding
GitRuns == {"branch", "path", "place", "checkout"}
GitMakes == {"place", "checkout"}
GitResults == {"ok", "exists", "error"}
Causes == {"hook", "abandoned", "killed", "removed", "overlap"}

Tasks == {r \in Runs : task[r] # "none"}
Making == {r \in Runs : task[r] \in Adding \cup {"after_create"}}
Idle(r) == git[r] \notin GitRuns

Goto(r, stage) == task' = [task EXCEPT ![r] = stage]
Exit(r) == Goto(r, "none")   \* release_claim_and_send_exit, or WorkerExit
GitGoes(r, stage) == git' = [git EXCEPT ![r] = stage]
Blame(cause) == blame' = blame \cup {cause}
BlameIf(condition, cause) == IF condition THEN Blame(cause) ELSE UNCHANGED blame

-----------------------------------------------------------------------------
(* git worktree add, as far as ensure_worktree_dir depends on it (git 2.39).  *)
(* With -b it makes the branch first, whatever comes of the rest.            *)
GitMakesBranch(r) ==
  /\ git[r] = "branch" /\ GitGoes(r, IF branch THEN "exists" ELSE "path")
  /\ branch' = TRUE
  /\ UNCHANGED <<issue, process, task, dir, record, history>>

(* The complaint about a path in the way reads like that about a branch; the  *)
(* one about a record without its directory does not.                        *)
GitChecksPath(r) ==
  /\ git[r] = "path"
  /\ GitGoes(r, IF dir # "absent" THEN "exists" ELSE IF record THEN "error" ELSE "place")
  /\ record' = (record \/ dir = "absent")
  /\ UNCHANGED <<issue, process, task, dir, branch, history>>

(* The .git file is there before the files.  Nobody will run after_create in  *)
(* what the git of an aborted task makes, and a task that lost an earlier     *)
(* directory here goes on in this one.                                       *)
GitPlaces(r) ==
  /\ git[r] = "place" /\ GitGoes(r, "checkout")
  /\ dir' = "partial" /\ hook' = "unbegun"
  /\ blame' = {c \in {"abandoned", "overlap"} :
                 \/ c = "abandoned" /\ task[r] \notin Adding
                 \/ c = "overlap" /\ \E o \in Runs : task[o] \in InUse}
  /\ UNCHANGED <<issue, process, task, record, branch, torn>>

GitChecksOut(r) ==
  /\ git[r] = "checkout"
  /\ \/ dir = "partial" /\ GitGoes(r, "ok") /\ dir' = "complete"
     \/ dir # "partial" /\ GitGoes(r, "error") /\ UNCHANGED dir
  /\ UNCHANGED <<issue, process, task, record, branch, history>>

(* A failing git takes back what it has made, except the branch.              *)
GitFails(r) ==
  /\ ~Idle(r) /\ GitGoes(r, "error")
  /\ IF git[r] \in GitMakes THEN dir' = "absent" /\ record' = FALSE
                            ELSE UNCHANGED <<dir, record>>
  /\ UNCHANGED <<issue, process, task, branch, history>>

GitIsKilled(r) ==
  /\ git[r] \in GitMakes /\ GitGoes(r, "error")
  /\ dir' \in {dir} \cup IF git[r] = "place" THEN {"husk"} ELSE {}
  /\ torn' = TRUE /\ Blame("killed")
  /\ UNCHANGED <<issue, process, task, record, branch, hook>>

Git(r) == GitMakesBranch(r) \/ GitChecksPath(r) \/ GitPlaces(r) \/ GitChecksOut(r)

-----------------------------------------------------------------------------
(* The worker task.                                                          *)
Spawn(r) ==
  /\ process = "up" /\ issue = "open"
  /\ task[r] = "none" /\ Idle(r) /\ Cardinality(Tasks) < TasksAtOnce
  /\ Goto(r, "check") /\ GitGoes(r, "none")
  /\ UNCHANGED <<issue, process, disk, history>>

IsGitWorktree == dir \in {"partial", "complete"}

(* Mutant: a directory that is there is reported as created.                  *)
ReusesAsCreated(r) ==
  /\ IsGitWorktree /\ Goto(r, "after_create") /\ hook' = "begun" /\ UNCHANGED <<blame, torn>>

(* What is there is taken as it is, although another task may be making it.   *)
Reuses(r) ==
  /\ IsGitWorktree /\ Goto(r, "before_run")
  /\ BlameIf(Making # {}, "overlap") /\ UNCHANGED <<hook, torn>>

(* ensure_worktree_dir up to its first process.                               *)
Check(r) ==
  /\ task[r] = "check"
  /\ \/ Reuses(r)
     \/ dir = "husk" /\ Exit(r) /\ UNCHANGED history   \* PathExistsNotWorktree
     \/ dir = "absent" /\ Goto(r, "fetch") /\ UNCHANGED history
  /\ UNCHANGED <<issue, process, git, disk>>

(* create_dir_all fails, or the main repository is missing.                   *)
MainRepoNotFound(r) ==
  /\ task[r] = "check" /\ dir = "absent" /\ Exit(r)
  /\ UNCHANGED <<issue, process, git, disk, history>>

(* fetch_origin is best effort.                                              *)
FetchOrigin(r) ==
  /\ task[r] = "fetch" /\ Goto(r, "add") /\ GitGoes(r, "branch")
  /\ UNCHANGED <<issue, process, disk, history>>

(* Mutant: an existing branch is an error like any other.                     *)
NeverExists(r) == FALSE

IsBranchAlreadyExists(r) == task[r] = "add" /\ git[r] = "exists"

(* Mutant: a directory made by the retry for an existing branch counts as     *)
(* found.                                                                    *)
CreatedOnlyWithB(r) ==
  IF task[r] = "add" THEN Goto(r, "after_create") /\ hook' = "begun"
                     ELSE Goto(r, "before_run") /\ UNCHANGED hook

(* (path, true): after_create is run.                                        *)
Created(r) == Goto(r, "after_create") /\ hook' = "begun"

(* Mutant: the arguments of the first attempt are used again, with -b.        *)
AddForExistingBranchWithB(r) == Goto(r, "addExisting") /\ GitGoes(r, "branch")

AddForExistingBranch(r) == Goto(r, "addExisting") /\ GitGoes(r, "path")

(* git has ended; it is tried once more without -b.                           *)
Added(r) ==
  /\ task[r] \in Adding /\ git[r] \in GitResults
  /\ \/ git[r] = "ok" /\ Created(r) /\ UNCHANGED <<git, blame, torn>>
     \/ IsBranchAlreadyExists(r) /\ AddForExistingBranch(r) /\ UNCHANGED history
     \/ /\ git[r] # "ok" /\ ~IsBranchAlreadyExists(r) /\ Exit(r)
        /\ UNCHANGED <<git, history>>
  /\ UNCHANGED <<issue, process, disk>>

(* run_hook: the shell ends, well or not, or is killed after timeout_ms, and  *)
(* what it started may stay.  A failing after_create is only logged.         *)
AfterCreateReturns(r, result) ==
  /\ task[r] = "after_create" /\ Goto(r, "before_run")
  /\ hook' = IF result = "success" THEN "done" ELSE hook
  /\ BlameIf(result # "success", "hook")
  /\ UNCHANGED <<issue, process, git, disk, torn>>

BeforeRunReturns(r, result) ==
  /\ task[r] = "before_run"
  /\ IF result = "success" THEN Goto(r, "agent") ELSE Exit(r)
  /\ UNCHANGED <<issue, process, git, disk, history>>

HookReturns(r, result) == AfterCreateReturns(r, result) \/ BeforeRunReturns(r, result)

(* Mutant: a hook is waited for without limit.                                *)
HookTimesOutNever(r) == FALSE /\ UNCHANGED vars

HookTimesOut(r) == HookReturns(r, "timeout")

AgentReturns(r) ==
  /\ task[r] = "agent" /\ Exit(r)
  /\ UNCHANGED <<issue, process, git, disk, history>>

(* Mutant: git is killed with the task that waits for it.                     *)
AbortKillsGit(r) ==
  /\ task[r] # "none" /\ Exit(r) /\ GitGoes(r, "none")
  /\ BlameIf(r \in Making, "abandoned")
  /\ UNCHANGED <<issue, process, disk, hook, torn>>

(* The task goes at its await, its processes stay.                            *)
Abort(r) ==
  /\ task[r] # "none" /\ Exit(r)
  /\ BlameIf(r \in Making, "abandoned")
  /\ UNCHANGED <<issue, process, git, disk, hook, torn>>

Works(r) == Check(r) \/ FetchOrigin(r) \/ Added(r) \/ HookTimesOut(r)

-----------------------------------------------------------------------------
(* The tracker and the program.                                              *)
IssueChanges ==
  /\ issue' \in {"open", "closed"} \ {issue}
  /\ UNCHANGED <<process, task, git, disk, history>>

ProcessDies ==
  /\ process # "down" /\ process' = "down"
  /\ task' = [r \in Runs |-> "none"] /\ BlameIf(Making # {}, "abandoned")
  /\ UNCHANGED <<issue, git, disk, hook, torn>>

Restart ==
  /\ process = "down" /\ process' = "cleanup"
  /\ UNCHANGED <<issue, task, git, disk, history>>

(* Mutant: cleanup is started and not waited for.                             *)
CleanupInBackground == process # "down"

InCleanup == process = "cleanup"

(* run_startup_cleanup: a closed issue's directory is removed, entirely or    *)
(* until something fails; git is not told.                                   *)
Cleanup ==
  /\ InCleanup /\ issue = "closed" /\ dir # "absent" /\ process' = "up"
  /\ dir' \in {"absent", "husk"} \cup IF IsGitWorktree THEN {"partial"} ELSE {}
  /\ torn' = TRUE /\ Blame("removed")
  /\ UNCHANGED <<issue, task, git, record, branch, hook>>

(* Nothing to remove, no terminal states configured, or the fetch failed.     *)
NoCleanup ==
  /\ process = "cleanup" /\ process' = "up"
  /\ UNCHANGED <<issue, task, git, disk, history>>

-----------------------------------------------------------------------------
Init ==
  /\ issue \in {"open", "closed"} /\ process = "cleanup"
  /\ task = [r \in Runs |-> "none"] /\ git = [r \in Runs |-> "none"]
  /\ dir = "absent" /\ record = FALSE /\ branch = FALSE
  /\ hook = "unbegun" /\ blame = {} /\ torn = FALSE

Fault ==
  \/ \E r \in Runs : GitFails(r) \/ GitIsKilled(r) \/ MainRepoNotFound(r) \/ Abort(r)
  \/ ProcessDies

Next ==
  \/ \E r \in Runs :
       \/ Git(r) \/ Spawn(r) \/ Works(r) \/ AgentReturns(r)
       \/ \E result \in {"success", "failure"} : HookReturns(r, result)
  \/ IssueChanges \/ Restart \/ Cleanup \/ NoCleanup
  \/ Fault

(* The task is polled and its timers fire; git and the fetch, which have no   *)
(* timeout, end; before_run succeeds now and then.  Nothing is assumed of     *)
(* agents, nor of the orchestrator: that the issue is dispatched again it     *)
(* does not guarantee (StallQueuesRetry in Orchestrator).                     *)
Fairness ==
  /\ \A r \in Runs : /\ WF_vars(Git(r)) /\ WF_vars(Works(r))
                     /\ SF_vars(BeforeRunReturns(r, "success"))
  /\ WF_vars(Cleanup \/ NoCleanup)

Spec == Init /\ [][Next]_vars
FairSpec == Spec /\ Fairness

-----------------------------------------------------------------------------
(* The shape of every variable; a task that waits for git has started it, and *)
(* the second attempt, for an existing branch, never makes a branch.         *)
TypeOK ==
  /\ issue \in {"open", "closed"} /\ process \in {"down", "cleanup", "up"}
  /\ task \in [Runs -> Setup \cup {"none", "agent"}]
  /\ git \in [Runs -> GitRuns \cup GitResults \cup {"none"}]
  /\ dir \in {"absent", "husk", "partial", "complete"}
  /\ record \in BOOLEAN /\ branch \in BOOLEAN
  /\ \A r \in Runs : /\ task[r] \in Adding => git[r] # "none"
                     /\ task[r] = "addExisting" => git[r] # "branch"
  /\ hook \in {"unbegun", "begun", "done"} /\ blame \subseteq Causes /\ torn \in BOOLEAN

(* docs/SPEC/16: after_create is started once for a directory, although git   *)
(* of other tasks, aborted or not, works on the same path.                    *)
OncePerCreation ==
  [][\A r \in Runs : task[r] # "after_create" /\ task'[r] = "after_create"
                     => hook = "unbegun" /\ dir = "complete"]_vars

(* An agent works in a directory git has finished and after_create succeeded  *)
(* in, unless a hook failed there, a task was cut short or overtaken in       *)
(* making it, or part of it was removed: failing attempts, existing branches, *)
(* restarts and reopenings alone never get it there.                         *)
UnreadyHasCause ==
  \A r \in Runs : task[r] = "agent" => (dir = "complete" /\ hook = "done") \/ blame # {}

(* No worker loses the directory it works in, except to a failing git that    *)
(* another task has left behind.                                             *)
WorkersDirectoryStays ==
  \A r \in Runs : task[r] \in InUse => IsGitWorktree \/ (blame \cap {"abandoned", "overlap"} # {})

(* The directory and git's record of it only disagree, which no later attempt *)
(* repairs, after startup cleanup or a git killed half-way: no abort, failure *)
(* or death of the program does that.                                        *)
Stuck == (\A r \in Runs : Idle(r)) /\ (dir = "husk" \/ (dir = "absent" /\ record))
StuckWasTorn == Stuck => torn

(* Setup ends, if git does: a hook that hangs does not keep the worker.       *)
SetupEnds == \A r \in Runs : task[r] \in Setup ~> task[r] \notin Setup

(* Once faults end and the issue stays open, being dispatched again and again *)
(* is enough for it to get its agent, whatever earlier attempts left behind,  *)
(* unless directory and record disagree.                                     *)
IssueIsServed ==
  /\ <>[](process = "up" /\ issue = "open") /\ <>[][~Fault]_vars
  /\ []<><<\E r \in Runs : Spawn(r)>>_vars
  => []<>(\E r \in Runs : task[r] = "agent") \/ <>[]Stuck
=============================================================================
