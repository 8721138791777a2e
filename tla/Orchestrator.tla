---------------------------- MODULE Orchestrator ----------------------------
(***************************************************************************)
(* The orchestrator task of the runner (symphony-runner/src/loop_.rs) with *)
(* the state it owns, the worker tasks it spawns, the unbounded channel    *)
(* between them and the process that hosts them all (main.rs).             *)
(*                                                                         *)
(* One iteration of the orchestrator's loop is one message.  PollTick is   *)
(* the long one: it awaits the tracker several times, and while it does,   *)
(* workers, forwarders, the timer and the tracker itself go on; messages   *)
(* they send wait in the channel.  `pc' says where in the tick the task    *)
(* is, `todo' which issues its current loop has left.                      *)
(*                                                                         *)
(* Data that no property tells apart is left out: an issue is a number,    *)
(* smaller numbers sort earlier (sort_for_dispatch); the tracker shows an  *)
(* issue in one of four conditions; delays and clocks are two flags, `due' *)
(* on a retry entry and `quiet' on a running entry.  A run is the identity *)
(* of one spawned worker task; the code has no such name for it, which is  *)
(* what several properties below are about.                                *)
(***************************************************************************)
EXTENDS Naturals, Sequences, FiniteSets

CONSTANTS
  Issues,         \* issues of the repository, as numbers in dispatch order
  Runs,           \* identities for worker tasks; one is reused once forgotten
  Limits,         \* values agent.max_concurrent_agents may have in WORKFLOW.md
  FixPr,          \* config.fix_pr
  ExitOnFailure,  \* SYMPHONY_EXIT_ON_WORKER_FAILURE is set
  Shown,          \* bound: the conditions an issue takes on GitHub
  WithUpdates,    \* bound: FALSE leaves AgentUpdate messages out
  MaxReopens,     \* bound: how often people reopen issues
  MaxCrashes      \* bound: how often the process dies and is started again

(* eligible: active and passing the label filters; pr_open: active, excluded  *)
(* for candidates, carrying the label fix-PR looks for; filtered: active but  *)
(* excluded; closed: terminal.                                                *)
Conditions == {"eligible", "pr_open", "filtered", "closed"}

ASSUME OrchestratorAssumption ==
  /\ Issues \subseteq Nat /\ IsFiniteSet(Issues)
  /\ Limits \subseteq Nat                              \* u32 values, so bounded
  /\ \E largest \in Limits : \A other \in Limits : other <= largest
  /\ Shown \subseteq Conditions
  /\ FixPr \in BOOLEAN /\ ExitOnFailure \in BOOLEAN /\ WithUpdates \in BOOLEAN
  /\ MaxReopens \in Nat /\ MaxCrashes \in Nat

VARIABLES
  state,           \* OrchestratorState: running, claimed, retry_attempts
  worker_handles,  \* issue |-> run whose JoinHandle is kept for it
  mailbox,         \* the unbounded mpsc channel
  workers,         \* run |-> the task run_worker_to_completion, while it exists
  updates,         \* issues with an update still held by forward_agent_updates
  tracker,         \* condition of each issue on GitHub
  workflow,        \* max_concurrent_agents in the shared workflow_state
  config,          \* the same in the clone the current tick works with
  pc,              \* where the orchestrator task, and with it the process, is
  todo,            \* issues the loop at pc has not visited yet
  answer,          \* due issues the tracker answered are active and labelled
  reopens, crashes \* counters for the two bounds

vars == <<state, worker_handles, mailbox, workers, updates, tracker,
          workflow, config, pc, todo, answer, reopens, crashes>>

(* WorkerExitReason as far as the loop tells reasons apart: Failed may stop   *)
(* the process; TimedOut and CanceledByReconciliation act as Normal does, all *)
(* of them differing only in the length of the retry delay.                   *)
Reasons == {"Normal", "Failed"}

Pending == {"setup", "agent"}        \* a worker at one of its awaits
TickPcs == {"reconcile", "terminate", "stall", "retries", "fix_pr", "candidates"}
StoppedPcs == {"sent", "returned", "exit0", "exit1"}
Alive == pc \notin {"exit0", "exit1"}

With(f, x, v) == [y \in DOMAIN f \cup {x} |-> IF y = x THEN v ELSE f[y]]
Without(f, x) == [y \in DOMAIN f \ {x} |-> f[y]]

PollTick == [type |-> "PollTick"]
WorkerExit(i, reason) == [type |-> "WorkerExit", issue |-> i, reason |-> reason]
AgentUpdate(i) == [type |-> "AgentUpdate", issue |-> i]
TerminateWorker(i) == [type |-> "TerminateWorker", issue |-> i]
Messages == {PollTick}
       \cup [type : {"WorkerExit"}, issue : Issues, reason : Reasons]
       \cup [type : {"AgentUpdate", "TerminateWorker"}, issue : Issues]

-----------------------------------------------------------------------------
(* transitions.rs: in-place updates of OrchestratorState, as functions of it. *)

(* Mutant: wrapping_sub instead of saturating_sub (u16 here, TLC has 32 bits). *)
AvailableSlotsWrapping(s) == (config + 2^16 - Cardinality(DOMAIN s.running)) % 2^16

AvailableSlots(s) ==
  LET n == Cardinality(DOMAIN s.running) IN IF n > config THEN 0 ELSE config - n

(* Mutants: one check, or both, of the issue's own state are forgotten.         *)
CanDispatchIfUnclaimed(s, i) == i \notin s.claimed /\ AvailableSlots(s) > 0
CanDispatchIfNotRunning(s, i) == i \notin DOMAIN s.running /\ AvailableSlots(s) > 0
CanDispatchIfSlots(s, i) == AvailableSlots(s) > 0

(* Mutant: the last slot is kept free.                                         *)
CanDispatchWithSlotToSpare(s, i) ==
  i \notin s.claimed /\ i \notin DOMAIN s.running /\ AvailableSlots(s) > 1

CanDispatch(s, i) ==
  i \notin s.claimed /\ i \notin DOMAIN s.running /\ AvailableSlots(s) > 0

AttemptOf(s, i) ==
  IF i \in DOMAIN s.retry_attempts THEN s.retry_attempts[i].attempt ELSE 0

ApplyWorkerExit(s, i) ==
  IF i \notin DOMAIN s.running THEN s
  ELSE [running |-> Without(s.running, i),
        claimed |-> s.claimed \cup {i},
        retry_attempts |-> With(s.retry_attempts, i,
                                [attempt |-> AttemptOf(s, i) + 1, due |-> FALSE])]

(* Mutant: a late update makes an entry for an issue that does not run.         *)
ApplyAgentUpdateInserting(s, i) ==
  [s EXCEPT !.running = With(@, i, [quiet |-> FALSE])]

ApplyAgentUpdate(s, i) ==
  IF i \in DOMAIN s.running THEN [s EXCEPT !.running[i].quiet = FALSE] ELSE s

RemoveRetry(s, i) == [s EXCEPT !.retry_attempts = Without(@, i)]

(* Mutant: a release forgets the retry queue.                                  *)
ReleaseClaimOnly(s, i) == [s EXCEPT !.claimed = @ \ {i}]

ReleaseClaim(s, i) == [RemoveRetry(s, i) EXCEPT !.claimed = @ \ {i}]

-----------------------------------------------------------------------------
(* A run no task and no running entry has.                                    *)
FreeRuns == {r \in Runs : /\ r \notin DOMAIN workers
                          /\ \A i \in DOMAIN state.running : state.running[i].run # r}

(* Mutant: the claim is not taken when the worker is started.                   *)
DispatchWorkerUnclaimed(s, i) ==
  \E r \in FreeRuns :
    /\ state' = [RemoveRetry(s, i) EXCEPT !.running =
                    With(@, i, [run |-> r, retry_attempt |-> 0, quiet |-> FALSE])]
    /\ workers' = With(workers, r, [issue |-> i, phase |-> "setup"])
    /\ worker_handles' = With(worker_handles, i, r)

(* dispatch_worker: the retry entry goes first and the attempt is read from   *)
(* what is left; the entry, the spawned task and its handle share a new run.  *)
DispatchWorker(s, i) ==
  LET s1 == RemoveRetry(s, i) IN
  \E r \in FreeRuns :
    /\ state' = [s1 EXCEPT
         !.claimed = @ \cup {i},
         !.running = With(@, i, [run |-> r, retry_attempt |-> AttemptOf(s1, i),
                                 quiet |-> FALSE])]
    /\ workers' = With(workers, r, [issue |-> i, phase |-> "setup"])
    /\ worker_handles' = With(worker_handles, i, r)

(* Mutants: the handle is looked up instead of removed; it is dropped without   *)
(* abort, which detaches the task.                                              *)
AbortWorkerKeepsHandle(i) == UNCHANGED <<workers, worker_handles>>
AbortWorkerDetaches(i) ==
  worker_handles' = Without(worker_handles, i) /\ UNCHANGED workers

(* handles.remove(i) and abort(): a task at an await is dropped there, one     *)
(* past its last await is not stopped.  (What becomes of the agent process is *)
(* in AgentRun.)                                                              *)
AbortWorker(i) ==
  LET r == worker_handles[i]
      live == i \in DOMAIN worker_handles /\ r \in DOMAIN workers
      stops == live /\ workers[r].phase \in Pending
  IN /\ workers' = IF stops THEN Without(workers, r) ELSE workers
     /\ worker_handles' = Without(worker_handles, i)

-----------------------------------------------------------------------------
(* run_orchestrator: one message at a time.                                   *)
Receives(type) == pc = "recv" /\ mailbox # <<>> /\ Head(mailbox).type = type
                  /\ mailbox' = Tail(mailbox)

(* The configuration is cloned once per tick.  validate_dispatch cannot fail: *)
(* main.rs and reload.rs install only configurations that passed it.          *)
ReceivePollTick ==
  /\ Receives("PollTick")
  /\ config' = workflow
  /\ pc' = "reconcile"
  /\ UNCHANGED <<state, worker_handles, workers, updates, tracker,
                 workflow, todo, answer, reopens, crashes>>

(* The first Failed exit, when asked for, sends 1 to main and returns with    *)
(* the running entry in place.                                                *)
ReceiveWorkerExit ==
  /\ Receives("WorkerExit")
  /\ LET m == Head(mailbox) IN
     /\ worker_handles' = Without(worker_handles, m.issue)
     /\ IF ExitOnFailure /\ m.reason = "Failed"
        THEN pc' = "sent" /\ UNCHANGED state
        ELSE pc' = pc /\ state' = ApplyWorkerExit(state, m.issue)
  /\ UNCHANGED <<workers, updates, tracker, workflow, config, todo,
                 answer, reopens, crashes>>

ReceiveAgentUpdate ==
  /\ Receives("AgentUpdate")
  /\ state' = ApplyAgentUpdate(state, Head(mailbox).issue)
  /\ UNCHANGED <<worker_handles, workers, updates, tracker, workflow,
                 config, pc, todo, answer, reopens, crashes>>

ReceiveTerminateWorker ==
  /\ Receives("TerminateWorker")
  /\ AbortWorker(Head(mailbox).issue)
  /\ state' = ReleaseClaim(state, Head(mailbox).issue)
  /\ UNCHANGED <<updates, tracker, workflow, config, pc, todo, answer, reopens,
                 crashes>>

-----------------------------------------------------------------------------
(* poll_tick.  Each fetch is an await: what it returns is the tracker's       *)
(* condition at that step and is used in later ones.                          *)

(* reconcile_running: ask for every running issue.  A lookup that is not 2xx  *)
(* is skipped and a transport error returns nothing, hence `found'; only      *)
(* issues found closed are acted on.                                          *)
FetchRunning ==
  /\ pc = "reconcile"
  /\ \E found \in SUBSET DOMAIN state.running :
       todo' = {i \in found : tracker[i] = "closed"}
  /\ pc' = "terminate"
  /\ UNCHANGED <<state, worker_handles, mailbox, workers, updates,
                 tracker, workflow, config, answer, reopens, crashes>>

(* The running entry is left where it is; the message to itself is handled    *)
(* after the tick.                                                            *)
TerminateClosed(i) ==
  /\ pc = "terminate" /\ i \in todo
  /\ mailbox' = Append(mailbox, TerminateWorker(i))
  /\ AbortWorker(i)
  /\ state' = ReleaseClaim(state, i)
  /\ todo' = todo \ {i}
  /\ UNCHANGED <<updates, tracker, workflow, config, pc, answer, reopens, crashes>>

(* terminate_stalled: collect, then for each one abort, remove the entry, and *)
(* call apply_worker_exit, which looks for the entry.                         *)
FindStalled ==
  /\ pc = "terminate" /\ todo = {}
  /\ pc' = "stall"
  /\ todo' = {i \in DOMAIN state.running : state.running[i].quiet}
  /\ UNCHANGED <<state, worker_handles, mailbox, workers, updates,
                 tracker, workflow, config, answer, reopens, crashes>>

(* Mutant: the entry is left for a WorkerExit to remove.                       *)
AfterStallKeepsEntry(s, i) == s

AfterStall(s, i) == ApplyWorkerExit([s EXCEPT !.running = Without(@, i)], i)

TerminateStalled(i) ==
  /\ pc = "stall" /\ i \in todo
  /\ AbortWorker(i)
  /\ state' = AfterStall(state, i)
  /\ todo' = todo \ {i}
  /\ UNCHANGED <<mailbox, updates, tracker, workflow, config, pc, answer, reopens,
                 crashes>>

(* Mutant: retries are looked at only while there are free slots.             *)
DueRetriesIfSlots ==
  {i \in DOMAIN state.retry_attempts :
     AvailableSlots(state) > 0 /\ state.retry_attempts[i].due}

DueRetries == {i \in DOMAIN state.retry_attempts : state.retry_attempts[i].due}

(* process_due_retries: entries due when the tick began, one fetch for all.   *)
(* An issue not found is released as an ineligible one is.                    *)
FetchDue ==
  /\ pc = "stall" /\ todo = {}
  /\ pc' = "retries"
  /\ todo' = DueRetries
  /\ \E found \in SUBSET todo' : answer' = {i \in found : tracker[i] = "eligible"}
  /\ UNCHANGED <<state, worker_handles, mailbox, workers, updates,
                 tracker, workflow, config, reopens, crashes>>

(* Mutant: a claimed issue is taken to own a slot already.                     *)
MayRetryWithoutSlot(s, i) == i \in answer /\ i \notin DOMAIN s.running

MayRetry(s, i) == i \in answer /\ i \notin DOMAIN s.running /\ AvailableSlots(s) > 0

RetryDispatch(i) ==
  /\ pc = "retries" /\ i \in todo
  /\ LET s == RemoveRetry(state, i) IN MayRetry(s, i) /\ DispatchWorker(s, i)
  /\ todo' = todo \ {i}
  /\ UNCHANGED <<mailbox, updates, tracker, workflow, config, pc, answer,
                 reopens, crashes>>

RetryRelease(i) ==
  /\ pc = "retries" /\ i \in todo
  /\ LET s == RemoveRetry(state, i) IN ~MayRetry(s, i) /\ state' = ReleaseClaim(s, i)
  /\ todo' = todo \ {i}
  /\ UNCHANGED <<worker_handles, mailbox, workers, updates, tracker,
                 workflow, config, pc, answer, reopens, crashes>>

(* dispatch_new_candidates, first part: issues with the PR-open label that    *)
(* are not running.  A failed fetch returns none, and one that pages through  *)
(* a changing list may miss an issue or return it twice (IssueLists).         *)
FetchFixPr ==
  /\ pc = "retries" /\ todo = {}
  /\ pc' = "fix_pr" /\ answer' = {}
  /\ todo' \in SUBSET {i \in Issues \ DOMAIN state.running :
                          FixPr /\ tracker[i] = "pr_open"}
  /\ UNCHANGED <<state, worker_handles, mailbox, workers, updates,
                 tracker, workflow, config, reopens, crashes>>

(* Failed checks, a failed status or a qualifying mention on the pull request *)
(* decide (FixPr); they are the tracker's choice here.  A second copy of the  *)
(* issue stays in the list.                                                  *)
FixPrDispatch(i) ==
  /\ pc = "fix_pr" /\ i \in todo /\ CanDispatch(state, i)
  /\ DispatchWorker(state, i)
  /\ todo' \in {todo, todo \ {i}}
  /\ UNCHANGED <<mailbox, updates, tracker, workflow, config, pc, answer,
                 reopens, crashes>>

FixPrSkip(i) ==
  /\ pc = "fix_pr" /\ i \in todo
  /\ todo' = IF CanDispatch(state, i) THEN todo \ {i} ELSE {}
  /\ UNCHANGED <<state, worker_handles, mailbox, workers, updates,
                 tracker, workflow, config, pc, answer, reopens, crashes>>

(* Second part: the candidates, sorted; the loop ends at the first one that   *)
(* cannot be dispatched.  A failed fetch ends the tick.                       *)
FetchCandidates ==
  /\ pc = "fix_pr" /\ todo = {}
  /\ pc' = "candidates"
  /\ todo' \in SUBSET {i \in Issues : tracker[i] = "eligible"}
  /\ UNCHANGED <<state, worker_handles, mailbox, workers, updates,
                 tracker, workflow, config, answer, reopens, crashes>>

First(S) == CHOOSE i \in S : \A j \in S : i <= j

DispatchCandidate ==
  /\ pc = "candidates" /\ todo # {}
  /\ CanDispatch(state, First(todo))
  /\ DispatchWorker(state, First(todo))
  /\ todo' \in {todo, todo \ {First(todo)}}
  /\ UNCHANGED <<mailbox, updates, tracker, workflow, config, pc, answer,
                 reopens, crashes>>

EndOfTick ==
  /\ pc = "candidates"
  /\ todo # {} => ~CanDispatch(state, First(todo))
  /\ pc' = "recv" /\ todo' = {}
  /\ UNCHANGED <<state, worker_handles, mailbox, workers, updates,
                 tracker, workflow, config, answer, reopens, crashes>>

-----------------------------------------------------------------------------
(* run_worker_to_completion, its forwarder and its agent process.             *)
ToPhase(r, phase) == workers' = [workers EXCEPT ![r].phase = phase]

(* Worktree, hooks and prompt are done, the agent is spawned.                 *)
StartAgent(r) ==
  /\ Alive /\ workers[r].phase = "setup"
  /\ ToPhase(r, "agent")
  /\ UNCHANGED <<state, worker_handles, mailbox, updates, tracker,
                 workflow, config, pc, todo, answer, reopens, crashes>>

(* ensure_worktree_dir, before_run or the prompt failed.                      *)
SetupFails(r) ==
  /\ Alive /\ workers[r].phase = "setup"
  /\ ToPhase(r, "Failed")
  /\ UNCHANGED <<state, worker_handles, mailbox, updates, tracker,
                 workflow, config, pc, todo, answer, reopens, crashes>>

(* The agent run returns (AgentRun).                                          *)
AgentReturns(r, reason) ==
  /\ Alive /\ workers[r].phase = "agent"
  /\ ToPhase(r, reason)
  /\ UNCHANGED <<state, worker_handles, mailbox, updates, tracker, workflow,
                 config, pc, todo, answer, reopens, crashes>>

SendWorkerExit(r) ==
  /\ Alive /\ workers[r].phase \in Reasons
  /\ mailbox' = Append(mailbox, WorkerExit(workers[r].issue, workers[r].phase))
  /\ workers' = Without(workers, r)
  /\ UNCHANGED <<state, worker_handles, updates, tracker, workflow,
                 config, pc, todo, answer, reopens, crashes>>

(* Bound: one undelivered update per issue.                                   *)
AgentSpeaks(r) ==
  /\ WithUpdates /\ Alive /\ workers[r].phase = "agent"
  /\ workers[r].issue \notin updates
  /\ \A k \in DOMAIN mailbox : mailbox[k] # AgentUpdate(workers[r].issue)
  /\ updates' = updates \cup {workers[r].issue}
  /\ UNCHANGED <<state, worker_handles, mailbox, workers, tracker,
                 workflow, config, pc, todo, answer, reopens, crashes>>

(* The forwarder is a task of its own: it may send after the worker's exit.   *)
ForwardUpdate(i) ==
  /\ Alive /\ i \in updates
  /\ updates' = updates \ {i}
  /\ mailbox' = Append(mailbox, AgentUpdate(i))
  /\ UNCHANGED <<state, worker_handles, workers, tracker, workflow,
                 config, pc, todo, answer, reopens, crashes>>

-----------------------------------------------------------------------------
(* Timer, clock, workflow file and tracker.                                   *)

(* Bound: at most one PollTick waits in the channel.                          *)
TimerTick ==
  /\ Alive
  /\ \A k \in DOMAIN mailbox : mailbox[k] # PollTick
  /\ mailbox' = Append(mailbox, PollTick)
  /\ UNCHANGED <<state, worker_handles, workers, updates, tracker,
                 workflow, config, pc, todo, answer, reopens, crashes>>

(* now_ms is read when a tick starts, so an entry becomes due between ticks.  *)
BecomesDue(i) ==
  /\ pc = "recv" /\ i \in DOMAIN state.retry_attempts
  /\ ~state.retry_attempts[i].due
  /\ state' = [state EXCEPT !.retry_attempts[i].due = TRUE]
  /\ UNCHANGED <<worker_handles, mailbox, workers, updates, tracker,
                 workflow, config, pc, todo, answer, reopens, crashes>>

(* stall_timeout_ms have passed since the last update, or since the start.    *)
(* Only the stall check looks, and no update or dispatch precedes it within a *)
(* tick, so this too may be seen to happen between ticks.                     *)
BecomesQuiet(i) ==
  /\ pc = "recv" /\ i \in DOMAIN state.running
  /\ ~state.running[i].quiet
  /\ state' = [state EXCEPT !.running[i].quiet = TRUE]
  /\ UNCHANGED <<worker_handles, mailbox, workers, updates, tracker,
                 workflow, config, pc, todo, answer, reopens, crashes>>

Reload(limit) ==
  /\ Alive /\ limit # workflow
  /\ workflow' = limit
  /\ UNCHANGED <<state, worker_handles, mailbox, workers, updates,
                 tracker, config, pc, todo, answer, reopens, crashes>>

TrackerChanges(i, condition) ==
  /\ tracker[i] # condition
  /\ tracker[i] = "closed" => reopens < MaxReopens
  /\ reopens' = IF tracker[i] = "closed" THEN reopens + 1 ELSE reopens
  /\ tracker' = [tracker EXCEPT ![i] = condition]
  /\ UNCHANGED <<state, worker_handles, mailbox, workers, updates,
                 workflow, config, pc, todo, answer, crashes>>

-----------------------------------------------------------------------------
(* main.rs: the process ends with the orchestrator, on its exit code or on a  *)
(* signal, and all of its tasks with it.                                      *)
ProcessDies ==
  /\ workers' = <<>> /\ mailbox' = <<>> /\ updates' = {} /\ worker_handles' = <<>>
  /\ state' = [running |-> <<>>, claimed |-> {}, retry_attempts |-> <<>>]
  /\ todo' = {} /\ answer' = {}

OrchestratorReturns ==
  /\ pc = "sent" /\ pc' = "returned"
  /\ UNCHANGED <<state, worker_handles, mailbox, workers, updates, tracker,
                 workflow, config, todo, answer, reopens, crashes>>

(* main's select! polls its branches in random order: the exit code is there  *)
(* from the send on, the joined task only once it has returned.               *)
MainExits(code) ==
  /\ \/ code = "exit1" /\ pc \in {"sent", "returned"}
     \/ code = "exit0" /\ pc = "returned"
  /\ pc' = code
  /\ ProcessDies
  /\ UNCHANGED <<tracker, workflow, config, reopens, crashes>>

(* A signal or a kill, at any point, and the next start of the program; also  *)
(* the next start after an exit.  Nothing of OrchestratorState is persisted.  *)
Restart ==
  /\ crashes < MaxCrashes
  /\ crashes' = crashes + 1
  /\ pc' = "recv"
  /\ ProcessDies
  /\ UNCHANGED <<tracker, workflow, config, reopens>>

-----------------------------------------------------------------------------
Init ==
  /\ state = [running |-> <<>>, claimed |-> {}, retry_attempts |-> <<>>]
  /\ worker_handles = <<>> /\ mailbox = <<>> /\ workers = <<>>
  /\ updates = {}
  /\ tracker \in [Issues -> Shown]
  /\ workflow \in Limits /\ config = workflow
  /\ pc = "recv" /\ todo = {} /\ answer = {}
  /\ reopens = 0 /\ crashes = 0

Receive == \/ ReceivePollTick \/ ReceiveWorkerExit
           \/ ReceiveAgentUpdate \/ ReceiveTerminateWorker

Tick == \/ FetchRunning \/ \E i \in todo : TerminateClosed(i)
        \/ FindStalled \/ \E i \in todo : TerminateStalled(i)
        \/ FetchDue \/ \E i \in todo : RetryDispatch(i) \/ RetryRelease(i)
        \/ FetchFixPr \/ \E i \in todo : FixPrDispatch(i) \/ FixPrSkip(i)
        \/ FetchCandidates \/ DispatchCandidate \/ EndOfTick

Worker == \/ \E r \in DOMAIN workers :
               \/ StartAgent(r) \/ SetupFails(r) \/ SendWorkerExit(r)
               \/ AgentSpeaks(r)
               \/ \E reason \in Reasons : AgentReturns(r, reason)
          \/ \E i \in Issues : ForwardUpdate(i)

Environment == \/ TimerTick
               \/ \E i \in Issues : BecomesDue(i) \/ BecomesQuiet(i)
               \/ \E limit \in Limits : Reload(limit)
               \/ \E i \in Issues, c \in Shown : TrackerChanges(i, c)

Process == \/ OrchestratorReturns
           \/ \E code \in {"exit0", "exit1"} : MainExits(code)
           \/ Restart

Next == Receive \/ Tick \/ Worker \/ Environment \/ Process

Spec == Init /\ [][Next]_vars

-----------------------------------------------------------------------------
(* Properties.                                                               *)

RunningEntry == [run : Runs, retry_attempt : Nat, quiet : BOOLEAN]
RetryEntry == [attempt : Nat, due : BOOLEAN]
Task == [issue : Issues, phase : Pending \cup Reasons]

(* f is a function from some of the elements of D to R, as a HashMap is.      *)
IsMap(f, D, R) == DOMAIN f \subseteq D /\ f \in [DOMAIN f -> R]

StateOK(s) ==
  /\ s = [running |-> s.running, claimed |-> s.claimed,
          retry_attempts |-> s.retry_attempts]
  /\ IsMap(s.running, Issues, RunningEntry)
  /\ s.claimed \subseteq Issues
  /\ IsMap(s.retry_attempts, Issues, RetryEntry)

(* The shape of every variable.                                              *)
TypeOK ==
  /\ StateOK(state)
  /\ IsMap(worker_handles, Issues, Runs)
  /\ mailbox \in Seq(Messages)
  /\ IsMap(workers, Runs, Task)
  /\ updates \subseteq Issues
  /\ tracker \in [Issues -> Shown]
  /\ workflow \in Limits /\ config \in Limits
  /\ pc \in {"recv"} \cup TickPcs \cup StoppedPcs
  /\ todo \subseteq Issues /\ answer \subseteq Issues
  /\ reopens \in 0 .. MaxReopens /\ crashes \in 0 .. MaxCrashes

(* An issue waiting for its retry is claimed and does not run: neither a late *)
(* exit, a release in the middle of a tick nor a dispatch may separate the    *)
(* retry queue from the claim that keeps candidates away (can_dispatch).      *)
RetryHoldsClaim ==
  \A i \in DOMAIN state.retry_attempts :
    i \in state.claimed /\ i \notin DOMAIN state.running

(* The handle kept for an issue is that of the run its running entry stands   *)
(* for, so that an abort by issue id never hits a run other than the one      *)
(* recorded.                                                                  *)
HandleIsOfRunningRun ==
  \A i \in DOMAIN worker_handles :
    i \in DOMAIN state.running /\ worker_handles[i] = state.running[i].run

(* A running issue has lost its handle exactly when it has lost its claim:    *)
(* with a handle it cannot be claimed anew, without one only the stall check  *)
(* removes it.  (The exit that stops the orchestrator removes just a handle.) *)
ClaimedIffHandled ==
  pc \notin StoppedPcs =>
    \A i \in DOMAIN state.running : i \in state.claimed <=> i \in DOMAIN worker_handles

(* What the retry loop has yet to visit is still in the retry queue, although  *)
(* earlier turns of the loop dispatched and released other issues.  Without    *)
(* it RetryHoldsClaim and RunIsNotReplaced do not hold from step to step.     *)
DueIsQueued == pc = "retries" => todo \subseteq DOMAIN state.retry_attempts

(* Never more running entries than the largest limit configured, whatever     *)
(* reloads happen between a tick's checks and its dispatches.  Runs check it   *)
(* as the capacity of ClaimLifecycle (ImplementsLifecycle).                   *)
ConcurrencyBound ==
  \E limit \in Limits : Cardinality(DOMAIN state.running) <= limit

(* A dispatch obeys the limit in force when its tick began, even with more    *)
(* workers running than a reloaded limit allows (saturating_sub).             *)
DispatchWithinLimit ==
  [][Cardinality(DOMAIN state'.running) > Cardinality(DOMAIN state.running)
       => Cardinality(DOMAIN state'.running) <= config]_vars

(* The run recorded for an issue is never exchanged for another in one step:  *)
(* an entry must have been removed before the issue is dispatched again.      *)
RunIsNotReplaced ==
  [][\A i \in DOMAIN state.running \cap DOMAIN state'.running :
       state'.running[i].run = state.running[i].run]_vars

(* At most one worker task per issue is at work (SPEC_ADDENDUM_2 B.8, the     *)
(* comments at loop_.rs:417 and 449).                                         *)
OneWorkerPerIssue ==
  \A q, r \in DOMAIN workers :
    /\ workers[q].phase \in Pending /\ workers[r].phase \in Pending
    /\ workers[q].issue = workers[r].issue
    => q = r

(* Until an issue is reopened, no worker at work escapes: the handle kept for  *)
(* its issue is its own, so that closing the issue or a stall still stops it, *)
(* and no exit message of a former worker has taken the handle away.          *)
NoWorkerEscapes ==
  reopens = 0 =>
    \A r \in DOMAIN workers : workers[r].phase \in Pending =>
      /\ workers[r].issue \in DOMAIN worker_handles
      /\ worker_handles[workers[r].issue] = r

(* Until then max_concurrent_agents bounds the workers at work, and not only   *)
(* the entries available_slots counts: none goes on after its entry is gone.  *)
WorkersWithinLimit ==
  reopens = 0 =>
    \E limit \in Limits :
      Cardinality({r \in DOMAIN workers : workers[r].phase \in Pending}) <= limit

-----------------------------------------------------------------------------
(* Refinement.                                                               *)

(* claim_state: the first of running, retry_attempts and claimed to hold i.  *)
ClaimState(i) ==
  CASE i \in DOMAIN state.running -> "Running"
    [] i \notin DOMAIN state.running /\ i \in DOMAIN state.retry_attempts -> "RetryQueued"
    [] i \notin DOMAIN state.running \cup DOMAIN state.retry_attempts ->
         IF i \in state.claimed THEN "Claimed" ELSE "Unclaimed"

Largest == CHOOSE limit \in Limits : \A other \in Limits : other <= limit

Lifecycle == INSTANCE ClaimLifecycle
               WITH claim <- [i \in Issues |-> ClaimState(i)], Capacity <- Largest

(* Claims move only as ClaimLifecycle says: no message, however late, puts an *)
(* issue in the retry queue that was not running, and no dispatch takes an    *)
(* issue whose claim is held.                                                 *)
ImplementsLifecycle == Lifecycle!Spec

-----------------------------------------------------------------------------
(* Liveness.                                                                 *)

Owned(i) == i \in DOMAIN state.running /\ state.running[i].run \in DOMAIN workers

(* The runtime keeps polling the orchestrator task and the timer; requests    *)
(* end, at the latest by the client's 30 s timeout; time passes, so that a    *)
(* retry delay ends, and so does the silence of an entry with no worker;      *)
(* GitHub does not fail to report one issue for ever.  Nothing is assumed of  *)
(* agents: only each line of their output is timed, never the run.  A worker  *)
(* past its last await ends.                                                 *)
Fairness ==
  /\ WF_vars(Receive \/ Tick)
  /\ WF_vars(TimerTick)
  /\ \A r \in Runs : WF_vars(r \in DOMAIN workers /\ SendWorkerExit(r))
  /\ \A i \in Issues :
       /\ WF_vars(ForwardUpdate(i))
       /\ SF_vars(BecomesDue(i))
       /\ SF_vars(~Owned(i) /\ BecomesQuiet(i))
       /\ SF_vars(FetchRunning /\ i \in todo')
       /\ SF_vars(FetchCandidates /\ i \in todo')

FairSpec == Spec /\ Fairness

IsDue(i) == i \in DOMAIN state.retry_attempts /\ state.retry_attempts[i].due

(* A retry that has come due is resolved, whatever the tracker answers and    *)
(* also while a limit reloaded as 0 leaves no slot: it is dispatched or        *)
(* released (or queued with a new delay, as docs/SPEC.md:736 wants it without *)
(* a free slot); it is never left due.                                       *)
RetryIsResolved == \A i \in Issues : IsDue(i) ~> ~IsDue(i)

(* The first of the issues is dispatched in the end once it stays eligible,   *)
(* is free and dispatch stays unpaused: no release leaves something behind     *)
(* that blocks it.  (A claimed issue before it would, and docs/SPEC.md:678    *)
(* does not want that.)                                                      *)
EligibleIsTaken ==
  \A i \in Issues :
    (\A j \in Issues : i <= j) /\ <>[](tracker[i] = "eligible") /\ <>[](workflow > 0)
      => (i \notin state.claimed) ~> (i \in state.claimed)

(* A running entry whose worker is gone does not hold its slot for ever: its  *)
(* exit message or the stall check removes it.                                *)
SlotIsRecovered ==
  \A i \in Issues : (i \in DOMAIN state.running /\ ~Owned(i))
                      ~> (i \notin DOMAIN state.running \/ Owned(i))

(* Once an issue stays closed its worker is stopped, although the agent would *)
(* go on for ever and a lookup may miss the issue any number of times.        *)
ClosedIsStopped ==
  \A i \in Issues :
    <>[](tracker[i] = "closed")
      => <>[](\A r \in DOMAIN workers : workers[r].issue = i
                                          => workers[r].phase \notin Pending)

-----------------------------------------------------------------------------
(* What documents and comments of the repository say and the code does not.  *)

(* docs/SPEC.md:755: a worker found stalled is terminated, a retry is queued. *)
StallQueuesRetry ==
  [][\A i \in Issues :
       TerminateStalled(i) => i \in DOMAIN state'.retry_attempts]_vars

(* README.md:108: with SYMPHONY_EXIT_ON_WORKER_FAILURE the code is 1, never 0. *)
FailureExitsWithOne == pc # "exit0"
=============================================================================
