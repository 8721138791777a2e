# Symphony runner: a verification project

TLA+ models of rust-symphony, the TLC runs that check them and the theorems TLAPS
checks about them. Symphony polls GitHub for issues, gives each eligible issue a
worker with an agent process in its own git worktree, retries, and stops workers
whose issues close. Paths below are relative to `crates/` of the repository unless
they start with `docs/`; `loop_.rs` is `symphony-runner/src/loop_.rs`.

- [1. The system](#1-the-system)
- [2. Modules and how they correspond to the code](#2-modules-and-how-they-correspond-to-the-code)
- [3. What the runs check](#3-what-the-runs-check)
- [4. Fairness](#4-fairness)
- [5. Proofs](#5-proofs)
- [6. Where code and documentation disagree](#6-where-code-and-documentation-disagree)
- [7. Not modelled, and the plan](#7-not-modelled-and-the-plan)

## 1. The system

One process, one tokio runtime. The **orchestrator task** (`run_orchestrator`) owns
`OrchestratorState` and the table of worker handles and handles one message of an
unbounded channel at a time. Everything else only sends to that channel:

```
 timer task ──PollTick──▶┐                        ┌─ spawn ─▶ worker task ── spawn ─▶ agent process
 worker   ──WorkerExit──▶│ channel ─▶ orchestrator┤               │ update channel     (sh -lc ...)
 forwarder─AgentUpdate──▶│             │          └─ abort ─▶     ▼
 orchestrator itself ────┘             ▼                       forwarder task
   (TerminateWorker)            tracker (GitHub, awaited)
 reload task ── writes ─▶ workflow_state (RwLock) ◀── cloned once per tick
```

| component | state it keeps | operations | correct when |
|---|---|---|---|
| orchestrator loop, `loop_.rs:75-161` | `running`, `claimed`, `retry_attempts`; `worker_handles` | PollTick, WorkerExit, AgentUpdate, TerminateWorker | claims, retries, running entries and handles agree however late a message is; one worker per issue |
| poll tick, `loop_.rs:184-612` | the clone of the configuration, lists collected before a fetch | reconcile, stall check, due retries, fix-PR, candidates | slots are counted across its three dispatch loops; every due retry is resolved |
| worker, `loop_.rs:711-892` | where it is: setup, agent, sending its exit | worktree and hooks, prompt, agent run, exit | it sends exactly one exit unless aborted at an await |
| transitions, `symphony-orchestration/src/transitions.rs` | none | `can_dispatch`, `apply_worker_exit`, `apply_agent_update`, `release_claim`, `remove_retry_on_dispatch` | as above |
| process, `symphony-runner/src/main.rs` | exit code channel | select over signal, orchestrator task, exit code; restart | the exit code is what is documented; a restart forgets everything |
| reload, `reload.rs` | last modification time | poll the file every 5 s, install valid configurations | a tick uses one configuration throughout |
| agent protocols, `symphony-agent/src` | position in handshake and turn, two pipes, the child | codex, acp, cli: handshake, turn loop, reply to permission requests, reap | Normal means completed; the run ends, or it is known where it can hang |
| tracker client, `symphony-tracker/src/client.rs` | none | candidates, issues by label, states by id, pull request, checks, mentions | no issue missed or doubled unnoticed |
| label filters, `filter.rs`; scheduling, `scheduling.rs` | none | include and exclude, order, retry delay | filter for lists and for single issues agree; the order is total; no overflow |
| worktrees and hooks, `symphony-workspace/src` | directories, git's records | ensure, fetch, add, hook with timeout | a worktree handed to an agent is ready |
| startup cleanup, `symphony-runner/src/startup.rs` | none | removes the worktrees of closed issues before the first tick | nothing works in what it removes |
| configuration, `symphony-config/src`; workflow file, `symphony-workflow/src` | none | split off the front matter, build, resolve variables, validate | what is in use has passed validation |
| dry run, prompt, snapshot | none that matters later | | |

What makes it hard: the tick awaits the tracker many times while workers end, updates arrive
and the tracker changes; `abort` takes effect only at an await, so a message of an aborted
worker may still be on its way; messages name an issue and not a run; the state of an issue
is spread over four collections that several handlers change in part; nothing is persisted,
while agent and git processes outlive both their worker and the process (no `kill_on_drop`);
lists and answers of GitHub are put together from requests between which GitHub changes; the
workflow file is read while it is written. `PROJECT.json` lists each hazard at its line.

## 2. Modules and how they correspond to the code

| module | what it is |
|---|---|
| `Orchestrator` | orchestrator task, tick, worker tasks, channel, process; safety and liveness properties |
| `ClaimLifecycle` | the abstract specification: how the claim of one issue may move, and how many may run |
| `MCOrchestrator` | model values, sets and symmetry for TLC |
| `OrchestratorProofs` | type correctness, the inductive invariant, the concurrency limit, stability of runs |
| `OrchestratorRefinement` | `Orchestrator` implements `ClaimLifecycle` |
| `OrchestratorWorkers` | one worker per issue, none beyond control, none beyond the limit, until an issue is reopened |
| `AgentRun`, `MCAgentRun`, `AgentRunProofs` | one agent run of any of the three protocols, its process and the pipes |
| `Worktree`, `MCWorktree`, `WorktreeProofs` | the worktree of one issue: directory, git's record and branch, setup and hooks, startup cleanup |
| `Candidates` | pure operators: label filters, order of dispatch, retry delay |
| `IssueLists`, `IssueListsProofs` | lists and lookups of issues while GitHub changes; uses `Candidates`, about which the proofs are too |
| `FixPr`, `FixPrProofs` | the requests that decide whether a pull request gets a worker |
| `MCTracker` | `IssueLists` and `FixPr` for TLC, which run one after the other |
| `MCMention` | `FixPr` with a record of when the orchestrator last had its say about the pull request |
| `Configuration` | pure operators: front matter to configuration, and its validation |
| `WorkflowReload`, `MCWorkflowReload`, `WorkflowReloadProofs` | the workflow file and the task that reloads it; uses `Configuration` |

**Orchestrator.** `state`, `worker_handles`, `mailbox`, `workflow` and `config` are the
variables of the code with those names (`mailbox`: the mpsc channel; `config`: the clone
a tick works with). `workers` maps a run to the task `run_worker_to_completion`:
`setup` and `agent` stand for its awaits, `Normal` and `Failed` for having passed the
last one with that reason. A *run* identifies one spawned task. The code has no such
identity, and several properties are about what follows from that; an identity is
reused once no task and no running entry has it. `tracker` is what GitHub would answer,
`pc` and `todo` are the place in the tick and what its present loop has left. Agent
processes whose worker is gone are in `AgentRun` only.

Each action is one step between two awaits or one turn of a loop: `ReceivePollTick`,
`ReceiveWorkerExit`, `ReceiveAgentUpdate`, `ReceiveTerminateWorker` are the arms of the
`match`; `FetchRunning`, `TerminateClosed`, `FindStalled`, `TerminateStalled`,
`FetchDue`, `RetryDispatch`, `RetryRelease`, `FetchFixPr`, `FixPrDispatch`, `FixPrSkip`,
`FetchCandidates`, `DispatchCandidate`, `EndOfTick` are the tick in its order. Turns of
a loop without an await are separate steps, which only adds interleavings. The
operators named after functions of `transitions.rs` are those functions.

Abstractions: an issue is a number and the order of numbers is `sort_for_dispatch`; its
condition (`eligible`, `pr_open`, `filtered`, `closed`) is what states and labels amount
to; instants are flags (`due` of a retry, `quiet` of a running entry) that time sets
between ticks, which is when the tick reads the clock; token totals and session data are
left out; of the exit reasons only `Failed` and the rest are told apart, since only the
length of the delay depends on more. Both outcomes of every fetch, and lookups that miss
an issue, are choices of the step.

**AgentRun.** `at` is the await the run is at; `stdin` and `stdout` are pipes with room
for `Room` lines; the agent may write any line it could have reason to write (`Sayable`),
stay silent, stop reading, or exit with either status at any time. `Handshake` is the
sequence of writes and reads per protocol, `Accepted` what passes for an answer,
`Verdict` what a line decides about the turn, `Reap` and `CliGivesUp` the end. A timeout
may fire whenever no line is there. The shutdown of `stdin` after the turn is not
modelled as a signal to the agent: it may exit on it or not. `Reason` is the match in
`run_worker_to_completion`; the outcome of `AgentRun` is what `Orchestrator` chooses in
`AgentReturns`, and an abort is `AbortWorker` there.

**Worktree.** `task` is the await of `ensure_worktree_dir` and of the hooks each worker task
is at, `git` how far its `git worktree add` has got. `dir`, `record` and `branch` are on
disk and survive everything. An action of git is a step between which another process may
see the disk: it makes the branch (`-b`), registers the path, places the `.git` file, checks
out; it may fail (and then takes back what it made, except the branch) or be killed.
`Check`, `FetchOrigin`, `Added`, `AfterCreateReturns`, `BeforeRunReturns` are the code
between two awaits. Dropping a task (`Abort`, `ProcessDies`) leaves its git running, which
is what `tokio::process` does without `kill_on_drop`. When tasks are spawned and aborted is
`Orchestrator`'s affair; here it may be at any time, for up to `TasksAtOnce` of them. The
history variables `blame` and `torn` record causes, so that properties can say what may
*not* lead to a bad state. git itself is external: its steps are modelled from what
`manager.rs` depends on.

**IssueLists, FixPr.** One behaviour of `IssueLists` is one fetch: `FetchPage` is a request
for a page, `LookUp` one for an issue, and `Change` is anyone changing an issue in between.
The filters are applied as in `fetch_candidate_issues`. GitHub's list is a set with a
`Place` for each of its members, the newest at 1; a page is the members with a place on it,
and what the program appends to `all` is their sequence (`IssuesOf`). `FixPr` is
the decision about one issue: pull request, check runs by pages, combined status, then
comments in three places. `Orchestrator` takes over what these two show: `FetchCandidates`
and `FetchFixPr` return any subset, and an issue may appear twice.

**WorkflowReload, Configuration.** A file is a version, how much of it is there, and a
modification time. `CheckMtime`, `ReadContent`, `Install` are the three awaits; `Save`,
`Truncate`, `Grow`, `Remove` are people. Of the configuration the required keys and those
with a special treatment are there; texts matter as far as they are empty, blank or name a
variable. A whole write is taken to give a new modification time.

## 3. What the runs check

| run | instance | properties | shows |
|---|---|---|---|
| `orch_race` | 1 issue in all four conditions, 3 runs, limit 2, one reopening, fix-PR on, exit on failure, one restart | `RetryHoldsClaim`, `HandleIsOfRunningRun`, `ClaimedIffHandled`, `RunIsNotReplaced`, `NoWorkerEscapes` | the four collections agree while terminations, late exits and dispatches race; before the reopening every worker can be aborted |
| `orch_refine` | 2 issues eligible, `pr_open` or closed, fix-PR on, limit reloaded between 1 and 0 (which pauses dispatch), exit on failure | `DispatchWithinLimit`, `WorkersWithinLimit`, `ImplementsLifecycle` | slots hold across reloads and all three dispatch loops, for the entries that are counted and for the workers at work; claims move only as `ClaimLifecycle` allows |
| `orch_live` | 1 issue in all conditions, 3 runs, limit reloaded between 1 and 0, updates on | `TypeOK`, `OneWorkerPerIssue`, `RetryIsResolved`, `SlotIsRecovered`, `ClosedIsStopped`, `EligibleIsTaken` | due retries are resolved, also while no slot is free, dead slots recovered, workers of closed issues stopped, a free eligible issue dispatched; one worker per issue while none is reopened |
| `agent_run` | three protocols, pipes of 2 lines | `TypeOK`, `NormalIsCompleted`, `PromptNeedsSession`, `ResultMeansReaped`, `CliReturns`, `HangsOnlyUntimed` | what a result means, and the only places where a run can hang |
| `worktree` | one issue, 2 runs, 2 tasks at once, closed and reopened, deaths and restarts | `TypeOK`, `OncePerCreation`, `UnreadyHasCause`, `WorkersDirectoryStays`, `StuckWasTorn`, `SetupEnds`, `IssueIsServed` | what can make a worktree unready or unusable, and that nothing else can |
| `tracker` | 4 numbers (one a pull request), pages of 2, three filters, 2 changes during a fetch; pages of 1 check and 1 comment, 2 checks, 2 comments, time to 3 | `ListsTypeOK`, `ReturnedWasWanted`, `QuietListIsExact`, `MissedOnlyByRemoval`, `DoubledOnlyByInsertion`, `FixPrTypeOK`, `DispatchHasReason`, `WaitHasNoReason` | what lists may miss or repeat, and when a pull request gets a worker |
| `reload` | 5 versions, valid and not in different ways, 4 writes | `TypeOK`, `LastGoodIsKept`, `NeverBackwards`, `FileComesIntoUse` | the workflow in use is valid, never older, and in the end the one in the file |
| `find_*` | as small as the behaviour allows | one each | section 6 |

Why the bounds are enough. Issues meet only through the number of running entries, the order
of candidates and the lists of one tick, for which two suffice, if the first in order can be
out of the candidates for a while (an issue that is claimed blocks those behind it, section
6): in `orch_refine` it is `pr_open` then, hence dispatched by another loop. A due retry
finds no slot free when another issue has it or the limit is 0; of
the other issues the retry loop sees the number of free slots only, so `orch_live` has the second, with one
issue. The other races are those of one issue with messages of its own former runs. Three
runs allow a former run whose exit is still in the channel, the present one, and a third.
One reopening is what it takes for an issue to be dispatched after a termination (without it
the conditions still change freely among the three active ones). The channel is not bounded,
except that at most one `PollTick` and one update per issue wait in it: a second tick in a
row finds what the first left, and repeated updates are idempotent on `quiet`. What TLC
checks on these instances is, for the invariants of the state, proved without bounds
(section 5). In `orch_live` a closed issue stays closed; with one reopening
`OneWorkerPerIssue` fails, which is `find_two_workers`.

In `agent_run` the agent's own requests have id 1, as those of an agent that counts from
one and asks once; `find_permission` lets it ask further. There is no bound on what the
agent writes: `said` remembers only the two lines properties refer to.

In `worktree` two runs are a task and one left behind or overtaking; an identity is used
again once its git has ended, so the number of attempts has no bound. The invariants are
also proved for any number. In `tracker` a list needs two pages and one issue on either
side of their border, and two changes move one issue out of a list and another in; a third
page, pull requests and both states come with the four numbers. Two checks on pages of one
give a full last page and an empty one after it; three seconds give a comment before, in
and after the second of an update. `DelayIsExact`, an assumption TLC evaluates there,
compares the saturating retry delay with the exact one for a `u64::MAX` of 255. In
`reload` four writes are one before, during and after a read, and one more.

Every property of a passing run has a mutant in `PROJECT.json`, a plausible slip in a
mapped definition (written before it in the same module) under which TLC finds the
property violated. For `OneWorkerPerIssue` both checks of the issue's own state in
`can_dispatch` must go: in that instance either alone is enough, since a running issue
is always claimed until the stall check has removed it and its worker together.

Deadlock checking is off in all runs: the process may exit for good, an agent may end.

## 4. Fairness

`Orchestrator!Fairness`: the runtime polls the orchestrator task (`Receive \/ Tick`), the
timer and the forwarders; requests end because the client has a 30 s timeout
(`symphony-tracker/src/client.rs:75`). Time passes, hence strong fairness of
`BecomesDue` and of `BecomesQuiet` for entries without a worker: both are possible only
between ticks. GitHub does not fail to report a given running issue for ever:
`FetchRunning /\ i \in todo'`, nor to list an eligible one: `FetchCandidates /\ i \in
todo'` (a page may lose it when others leave the list, `MissedOnlyByRemoval`). A worker
past its last await sends its exit, `WF(SendWorkerExit)`. Nothing else is assumed of
workers or agents: each read of a line is timed, a run as a whole is not. The poll
interval is taken to be positive (section 6).

`AgentRun!FairSpec`: the task is polled and its timers fire, `WF(Run)`. Nothing is
assumed of the agent; `CliReturns` and `HangsOnlyUntimed` say what follows, an agent
that writes without end being the one exception either allows besides untimed awaits.

`Worktree!Fairness`: tasks are polled and hooks are timed (`manager.rs:165-175`); git and
`git fetch`, which have no timeout in the code, are assumed to end, and before_run to
succeed now and then, `SF(BeforeRunReturns(r, "success"))`. Nothing is assumed of `Spawn`: a
worker aborted by the stall check leaves its claim behind, and its issue is not dispatched
again while the process is up (`find_stall`). So `IssueIsServed` has in its premise that the
issue is dispatched again and again, besides that faults stop and it stays open; it says
that nothing on disk keeps such an issue from its agent, except in the state `Stuck`.

`WorkflowReload!Spec`: main and the reload task are polled. Nothing is assumed of people:
`FileComesIntoUse` has in its premise that the file stays.

`IssueLists` and `FixPr` are checked for safety only; a fetch ends because each of its
requests does and its lists are finite.

## 5. Proofs

Checked by TLAPS, for all constants that satisfy the named assumption of the module
(`OrchestratorAssumption`: issues are a finite set of naturals; limits are naturals with a
largest one, as `u32` values have; `AgentRunAssumption`: pipes hold at least a line;
`FixPrAssumption`: pages hold at least an item, the number of checks is a natural;
`IssueListsAssumption`: pages hold at least an item, numbers are a finite set of naturals,
states may be any strings but the `none` that stands for an issue not yet created, and None
is not a list of labels; the rest are of their types):

| theorem | states |
|---|---|
| `TypesHold` (Orchestrator, Worktree, WorkflowReload, AgentRun) | `Spec => []TypeOK` |
| `RetryKeepsClaim`, `HandleFitsRun`, `ClaimGoesWithHandle`, `DueStaysQueued` | `Spec => []RetryHoldsClaim`, `[]HandleIsOfRunningRun`, `[]ClaimedIffHandled`, `[]DueIsQueued` |
| `OneWorkerUntilReopened` | `Spec => [](reopens = 0 => OneWorkerPerIssue)` |
| `NoneEscapesUntilReopened`, `WorkersObeyLimit` | `Spec => []NoWorkerEscapes`, `[]WorkersWithinLimit` |
| `RunningIsBounded` | `Spec => []ConcurrencyBound` |
| `DispatchObeysLimit` | `Spec => DispatchWithinLimit` |
| `RunStays` | `Spec => RunIsNotReplaced` |
| `LifecycleIsImplemented` | `Spec => ImplementsLifecycle` |
| `CreatedOnce`, `UnreadinessHasCause`, `DirectoryStays`, `StuckMeansTorn` | `Spec => OncePerCreation`, `[]UnreadyHasCause`, `[]WorkersDirectoryStays`, `[]StuckWasTorn` of `Worktree` |
| `ValidStaysInUse`, `ReloadsGoForward` | `Spec => []LastGoodIsKept`, `NeverBackwards` of `WorkflowReload` |
| `ValidationCatchesThree` | after a successful build only repository, key or command can be missing |
| `FixPrTypes`, `DispatchIsCaused`, `WaitIsJustified` | `FixPrSpec => []FixPrTypeOK`, `[]DispatchHasReason`, `[]WaitHasNoReason` |
| `ListsTypes`, `ReturnedWereWanted`, `RemovalsCauseMisses` | `ListsSpec => []ListsTypeOK`, `[]ReturnedWasWanted`, `[]MissedOnlyByRemoval` |
| `InsertionsCauseDoubles`, `QuietListsAreExact` | `ListsSpec => []DoubledOnlyByInsertion`, `[]QuietListIsExact`, if no state is configured twice |
| `PromptsHaveSessions`, `ResultsAreReaped` | `Spec => []PromptNeedsSession`, `[]ResultMeansReaped` of `AgentRun` |
| `NormalRunsAreComplete` | `Spec => []NormalIsCompleted` of `AgentRun`, if the agent's own request ids do not include 4 |
| `DispatchOrderIsTotal`, `ClaimedIsNoCandidate` | `DispatchedBefore` is a strict total order; what is labelled as claimed passes no filter, and exclusions of the configuration stay |

The argument for `Orchestrator`. `TypeOK` is inductive; the lemmas on maps (`WithIsMap`,
`WithoutIsMap`) and on `transitions.rs` (`ExitKeepsState`, `ReleaseKeepsState`) carry it,
then one lemma per group of actions (`ReceiveKeepsTypes`, `TickKeepsTypes`, ...).

`Coupled`, the conjunction of the four properties after `TypeOK`, is inductive on top of it
(`CoupledHolds`), and no conjunct is so alone. A retry is put in the queue by an exit, which
removes the running entry and claims the issue; that no dispatch follows without removing
the entry, and no release takes the claim alone, is `RetryHoldsClaim`. A handle is inserted
with its running entry; that the entry is never exchanged under it needs that a candidate is
neither claimed nor running. That a due retry is not running needs `DueIsQueued`: the loop
works on a list collected before its fetch, and the entries must still be queued, hence by
`RetryHoldsClaim` claimed and not running, when their turn comes. `DueIsQueued` is only
proved: a loop over what is not queued shows in `orch_race` as a violation of
`ClaimedIffHandled`. `ClaimedIffHandled` is what makes the abort by issue id harmless: a
release removes claim and handle together and leaves the running entry, an exit removes
entry and handle and keeps the claim. The handler that stops the orchestrator is the
exception in its guard.

**Workers** (`OrchestratorWorkers`). Messages name an issue and not a run, so one worker per
issue can only hold if an issue is dispatched when nothing `Remains` of its last worker,
neither the task nor its exit in the channel. `Apart` says what makes it so, and is
inductive as long as `reopens = 0`. `OneRemains`: a task or an exit, once. `Accounted`:
where something remains, no retry is queued and a running entry, a claim (left by the stall
check) or the issue's being closed keeps dispatches away. An exit that is received removes
what remains before it queues the retry. `UnclaimedIsClosed` and `TerminatedIsClosed`: the
claim of a running issue is given up only for a closed issue, also by the `TerminateWorker`
that reconcile sends and that is handled after the tick; closed means `Gone`, unless the
tick has collected it while it was still open, which is why `Gone` looks at `todo`.
`Handled`: a worker at an await is the one its issue's handle aborts. This is where the
proof uses what `reopens = 0` gives: a reopened issue is `eligible` again while its last
worker may still be past its last await, and then two runs of an issue exist
(`find_two_workers`). `WorkersObeyLimit` follows because tasks at an await then map one to
one to running entries.

The bound on running entries (`RunningIsBounded`; `orch_refine` checks it as the capacity of
`ClaimLifecycle`) counts: a step adds at most one entry, and only with a free
slot of the tick's configuration (`StepOnRunning`, `StepOnCount`).

For the refinement, `claim_state` is the mapping. `OneMoves` reduces a step to the claim
of one issue; `StartMoves`, `ExitMoves`, `ReleaseMoves`, `StallMoves` show that the
operators of `transitions.rs` make only moves of `ClaimLifecycle`. `RetryHoldsClaim`
gives that a dispatched issue was `Unclaimed` or `RetryQueued`, the bound on running
entries that `Dispatch` has capacity. A stalled issue moves to `Claimed` (section 6) or,
if it was released before, to `Unclaimed`.

**Worktree.** `IInv` of `WorktreeProofs`. None of the properties is inductive: they hold
because there is one `Maker` at a time, a task or the git left behind by one, from the
moment git registers the path until after_create has returned. Its record keeps a second
git away while there is no directory, and the directory does afterwards (`Made`).
`UnreadyIsBlamed` then says that whoever finds the directory without a cause in `blame`
finds it ready or meets the maker, `DangerIsBlamed` that a git which may still take the
directory away belongs to the task that waits for it, unless it was abandoned.

**WorkflowReload.** What is in use, or read and about to be, loads, and is no newer than the
file; a content about to be installed is no older than the one in use. That a file cut in
its front matter never loads is `LoadedHasFrontMatter`: all of it is prompt then, and the
tracker section is required.

**FixPr.** `Caused`: failures counted were there since the decision began, also when the
head has changed between requests, because a push clears checks and status. `Told`: the
pages read so far hold no failure that was not noted; `PageIsPart` relates a page to the
whole list.

**IssueLists.** What has been read is of the past, and places have moved since, so the
invariants speak of issues that have not changed (`Untouched`) and keep apart those an
earlier departure has `Advanced` or an earlier arrival `PushedBack`. `Genuine`: everything
read was `held`, and is still so if untouched. `NotMissed`: an issue in the list that none
advanced has been read, or its place is behind the pages read, or its state's list is still
to come. `NotDoubled`: one that none pushed back has been read at most once, and if so its
place is on a page already read and its state's list does not come again. `PositionsHold`
shows that a change can move an untouched issue forward only by advancing it, and back only
by pushing it back; `PlacesAreNumbered` and `PageIsCut` that places number a list without
gaps, so that a page that is not full is the last. `FiltersAgree` says that the filter of a
list keeps exactly what the filter of a single issue lets pass, in the same order and not
more often. `ListsTypes` divides by the page size: one page beyond the full ones is asked
for at most.

The last two theorems have the hypothesis `EachStateOnce`. The code does not check it: a
state that is configured twice is listed twice and its issues come twice, which by
`loop_.rs:598` ends the candidates of that tick at the second copy.

**AgentRun.** `Linked` types the pipes by what their lines are worth: a line that opens the
session or completes the turn has been said, no other line names a session, and the
prompt's request is in the pipe, or read, only when the session is open. acp compares no
ids, but the answer to session/new must name a session; that is all that keeps it in step.
`NormalRunsAreComplete` needs `NoIdIsThePrompts`, and `find_permission` shows why.

Model-checked only: liveness, in all modules, since the provers do not reason about
fairness and ENABLED; and `DelayIsExact`, the saturating retry delay against the exact one,
which for every attempt would need induction over powers of two.

## 6. Where code and documentation disagree

Each of these is a run that TLC ends with a counterexample.

| run | the code | the text |
|---|---|---|
| `find_stall` | the stall check removes the running entry first, so `apply_worker_exit` returns early: no retry, and the claim is never released (`loop_.rs:297`) | `docs/SPEC.md:755` "terminate the worker and queue a retry" |
| `find_two_workers` | an exit of a former run is applied to the present one (`loop_.rs:110`) | `docs/SPEC_ADDENDUM_2.md:27` "at most one worker per issue" |
| `find_exit_code` | main may see the orchestrator's return before the exit code (`main.rs:115`) and exits with 0 | `README.md:108` "exit with code 1 on first worker failure" |
| `find_mention` | a comment on the pull request or its review updates the pull request, so `created_at <= updated_at` drops the mention it may hold (`client.rs:473`) | `client.rs:452` "(2) PR main-thread comments"; `docs/SPEC_ADDENDUM_2.md:49` "A qualifying mention triggers dispatch" |
| `find_permission` | a request of the agent with the id of session/prompt ends the turn as Normal (`acp.rs:250`) | `acp.rs:19` "handles session/request_permission by allowing once" |

Further differences, which the models follow as the code has them.

Dispatch. The retry entry is removed before its attempt is read (`loop_.rs:837-844`): every
worker has attempt 0 and the backoff never grows (`docs/SPEC.md:210` "`>=1` for
retries/continuation"). The candidate loop ends at the first claimed or running candidate
(`loop_.rs:598`; `docs/SPEC.md:678` "Dispatch eligible issues while slots remain"): with the
claim that `find_stall` leaks, every later issue waits for ever, and the second copy of an
issue that pages repeated has the same effect for one tick. A due retry without a free slot
is released, not queued again (`loop_.rs:376`; `docs/SPEC.md:736` "requeue with error `no
available orchestrator slots`"), which `RetryIsResolved` allows as well. A terminated issue
keeps its running entry until its exit or the stall check (`docs/SPEC/06`). Stall timeout 0
does not switch the check off (`docs/SPEC.md:756`). The limits per state
(`max_concurrent_agents_by_state`, `docs/SPEC.md:711`) are parsed and used nowhere.

Agents. The turn timeout is for one line (`stream_cli.rs:146`, `runner.rs:307`,
`acp.rs:234`; `docs/SPEC.md:1070` "total turn stream timeout"). An aborted worker's process
is not killed (`runner.rs:93`; `docs/SPEC.md:1948` "Stall detection kills stalled
sessions"), and its worktree goes to the next worker. A turn/completed that codex sends
before its answer to turn/start is taken for that answer (`runner.rs:286`), and the turn
times out. turn/cancelled is reported as canceled, not failed (`docs/SPEC.md:966`). acp and
cli send one update per run (`docs/SPEC/09`), so that a busy agent looks stalled. Writes to
the agent and codex' and acp's wait for its end have no timeout ("so a stuck agent does not
hang the worker", `docs/SPEC/09`), which is what `HangsOnlyUntimed` says.

Worktrees. A failing after_create hook is only logged (`docs/SPEC.md:849` "fatal"): the
agent is started in what it left, and the hook never runs again. Startup cleanup removes the
directory but not git's record (`docs/SPEC.md:661` "removes stale git worktrees"): when the
issue is reopened, git refuses the path as registered and its setup fails at every attempt,
which is the exception `Stuck` in `IssueIsServed`. When a branch exists only at the remote,
`-b` succeeds and makes another one from HEAD (`manager.rs:51`). A reload of `worktree.root`
leaves the branch checked out at the old path, and git refuses it at the new one.

Tracker. A mention on the pull request counts only if it comes between the request for the
pull request and the one for its comments; a mention on the issue sends a worker at every
tick until the pull request is updated. Comments are read from the first page only. Lists
are not requested oldest first (`docs/SPEC.md:1121` `sort=created`, `direction=asc`), so
that a new issue shifts all pages. The label `pr_open_label` excludes an issue from the
candidates only if it is in `exclude_labels` (`docs/SPEC_ADDENDUM_2.md:13`).

Configuration. A reloaded poll interval is not used (`docs/SPEC.md:361`, `:670`;
`main.rs:93-103`), and an interval of 0 panics the timer task, which nobody joins. A
variable that is not set stays in the text as it is and passes validation; a path that
becomes empty is the current directory (`docs/SPEC.md:347`). A file read while it is written
may come into use with part of its prompt, until the next poll.

## 7. Not modelled, and the plan

Done: all modules of section 2; every invariant and every action property that a passing
run checks is also a theorem. What would come next, in this order:

1. One more worktree root in `Worktree`, for reloads of `worktree.root`; the paths of
   several issues whose identifiers collapse to one key (`path.rs`).
2. The composition of `Orchestrator` and `Worktree` as one specification: today the second
   allows any spawns and aborts, which covers the first's but says nothing about their timing.
3. What still holds of the workers of an issue after it has been reopened: how many there
   can be, and for how long.

Left out for good: dry run and command line, prompt rendering and the snapshot, which keep
no state and meet no other component concurrently; and `loop.rs`, which is not compiled. Of
the configuration the keys that are only copied, of the workflow file YAML and the regular
expression, of the tracker URLs, headers and JSON. Wording, logging and token accounting are
in no model.
