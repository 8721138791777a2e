------------------------- MODULE OrchestratorProofs -------------------------
(***************************************************************************)
(* Proofs about Orchestrator, for every set of issues and runs, every set  *)
(* of limits and every bound.                                              *)
(***************************************************************************)
EXTENDS Orchestrator, FiniteSetTheorems, TLAPS

-----------------------------------------------------------------------------
(* The maps of OrchestratorState and what transitions.rs does to them.       *)

(* Inserting a key and a value of the right kind keeps a map a map.          *)
LEMMA WithIsMap ==
  ASSUME NEW D, NEW R, NEW f, IsMap(f, D, R), NEW x \in D, NEW v \in R
  PROVE  /\ IsMap(With(f, x, v), D, R)
         /\ DOMAIN With(f, x, v) = DOMAIN f \cup {x}
         /\ With(f, x, v)[x] = v
         /\ \A y \in DOMAIN f : y # x => With(f, x, v)[y] = f[y]
  BY DEF IsMap, With

(* Removing a key keeps a map a map.                                         *)
LEMMA WithoutIsMap ==
  ASSUME NEW D, NEW R, NEW f, IsMap(f, D, R), NEW x
  PROVE  /\ IsMap(Without(f, x), D, R)
         /\ DOMAIN Without(f, x) = DOMAIN f \ {x}
         /\ \A y \in DOMAIN f \ {x} : Without(f, x)[y] = f[y]
  BY DEF IsMap, Without

(* The empty map.                                                            *)
LEMMA EmptyIsMap ==
  ASSUME NEW D, NEW R
  PROVE  IsMap(<<>>, D, R) /\ DOMAIN <<>> = {}
  BY DEF IsMap

(* remove_retry_on_dispatch and release_claim touch retries and claims only. *)
LEMMA ReleaseKeepsState ==
  ASSUME NEW s, StateOK(s), NEW i
  PROVE  /\ StateOK(RemoveRetry(s, i))
         /\ RemoveRetry(s, i) = [running |-> s.running, claimed |-> s.claimed,
                                 retry_attempts |-> Without(s.retry_attempts, i)]
         /\ StateOK(ReleaseClaim(s, i))
         /\ ReleaseClaim(s, i) = [running |-> s.running, claimed |-> s.claimed \ {i},
                                  retry_attempts |-> Without(s.retry_attempts, i)]
<1> DEFINE e == Without(s.retry_attempts, i)
<1>1. IsMap(e, Issues, RetryEntry)
  BY WithoutIsMap DEF StateOK
<1>2. RemoveRetry(s, i) = [running |-> s.running, claimed |-> s.claimed,
                           retry_attempts |-> e]
  BY DEF RemoveRetry, StateOK
<1>3. ReleaseClaim(s, i) = [running |-> s.running, claimed |-> s.claimed \ {i},
                            retry_attempts |-> e]
  BY <1>2 DEF ReleaseClaim
<1> QED
  BY <1>1, <1>2, <1>3 DEF StateOK

(* The attempt of the next retry is a number.                                *)
LEMMA AttemptIsNat ==
  ASSUME NEW s, StateOK(s), NEW i
  PROVE  AttemptOf(s, i) \in Nat
  BY DEF AttemptOf, StateOK, IsMap, RetryEntry

(* apply_worker_exit moves a running issue to the retry queue, claimed.      *)
LEMMA ExitKeepsState ==
  ASSUME NEW s, StateOK(s), NEW i \in Issues
  PROVE  /\ StateOK(ApplyWorkerExit(s, i))
         /\ i \notin DOMAIN s.running => ApplyWorkerExit(s, i) = s
         /\ i \in DOMAIN s.running =>
              /\ ApplyWorkerExit(s, i).running = Without(s.running, i)
              /\ ApplyWorkerExit(s, i).claimed = s.claimed \cup {i}
              /\ DOMAIN ApplyWorkerExit(s, i).retry_attempts
                   = DOMAIN s.retry_attempts \cup {i}
<1>1. CASE i \notin DOMAIN s.running
  BY <1>1 DEF ApplyWorkerExit
<1>2. CASE i \in DOMAIN s.running
  <2> DEFINE v == [attempt |-> AttemptOf(s, i) + 1, due |-> FALSE]
  <2>1. v \in RetryEntry
    BY AttemptIsNat DEF RetryEntry
  <2>2. IsMap(Without(s.running, i), Issues, RunningEntry)
    BY WithoutIsMap DEF StateOK
  <2>3. /\ IsMap(With(s.retry_attempts, i, v), Issues, RetryEntry)
        /\ DOMAIN With(s.retry_attempts, i, v) = DOMAIN s.retry_attempts \cup {i}
    BY <2>1, WithIsMap DEF StateOK
  <2>4. ApplyWorkerExit(s, i) = [running |-> Without(s.running, i),
                                 claimed |-> s.claimed \cup {i},
                                 retry_attempts |-> With(s.retry_attempts, i, v)]
    BY <1>2 DEF ApplyWorkerExit
  <2> QED
    BY <1>2, <2>2, <2>3, <2>4 DEF StateOK
<1> QED
  BY <1>1, <1>2

(* A step that starts a worker: the issue is claimed, runs, has the handle of *)
(* the new run and waits for no retry; other issues are left alone.           *)
LEMMA DispatchStep ==
  ASSUME NEW s, StateOK(s), NEW i \in Issues,
         IsMap(worker_handles, Issues, Runs), IsMap(workers, Runs, Task),
         DispatchWorker(s, i)
  PROVE  /\ StateOK(state')
         /\ IsMap(worker_handles', Issues, Runs)
         /\ IsMap(workers', Runs, Task)
         /\ state'.claimed = s.claimed \cup {i}
         /\ state'.retry_attempts = Without(s.retry_attempts, i)
         /\ DOMAIN state'.running = DOMAIN s.running \cup {i}
         /\ \A j \in DOMAIN s.running : j # i => state'.running[j] = s.running[j]
         /\ DOMAIN worker_handles' = DOMAIN worker_handles \cup {i}
         /\ worker_handles'[i] = state'.running[i].run
         /\ \A j \in DOMAIN worker_handles : j # i => worker_handles'[j] = worker_handles[j]
<1> DEFINE s1 == RemoveRetry(s, i)
           task == [issue |-> i, phase |-> "setup"]
<1>1. PICK r \in FreeRuns :
        /\ state' = [s1 EXCEPT !.claimed = @ \cup {i},
                               !.running = With(@, i, [run |-> r,
                                                       retry_attempt |-> AttemptOf(s1, i),
                                                       quiet |-> FALSE])]
        /\ workers' = With(workers, r, task)
        /\ worker_handles' = With(worker_handles, i, r)
  BY DEF DispatchWorker
<1> DEFINE entry == [run |-> r, retry_attempt |-> AttemptOf(s1, i), quiet |-> FALSE]
<1>2. r \in Runs
  BY DEF FreeRuns
<1>3. /\ StateOK(s1)
      /\ s1 = [running |-> s.running, claimed |-> s.claimed,
               retry_attempts |-> Without(s.retry_attempts, i)]
  BY ReleaseKeepsState
<1>4. entry \in RunningEntry /\ entry.run = r
  BY <1>2, <1>3, AttemptIsNat DEF RunningEntry
<1>5. state' = [running |-> With(s.running, i, entry), claimed |-> s.claimed \cup {i},
                retry_attempts |-> Without(s.retry_attempts, i)]
  <2> HIDE DEF s1
  <2> QED
    BY <1>1, <1>3
<1> HIDE DEF entry
<1>6. /\ IsMap(With(s.running, i, entry), Issues, RunningEntry)
      /\ DOMAIN With(s.running, i, entry) = DOMAIN s.running \cup {i}
      /\ With(s.running, i, entry)[i] = entry
      /\ \A j \in DOMAIN s.running : j # i => With(s.running, i, entry)[j] = s.running[j]
  BY <1>4, WithIsMap DEF StateOK
<1>7. task \in Task
  BY DEF Task, Pending
<1>8. IsMap(workers', Runs, Task)
  <2> HIDE DEF task
  <2> QED
    BY <1>1, <1>2, <1>7, WithIsMap
<1>9. /\ IsMap(worker_handles', Issues, Runs)
      /\ DOMAIN worker_handles' = DOMAIN worker_handles \cup {i}
      /\ worker_handles'[i] = r
      /\ \A j \in DOMAIN worker_handles : j # i => worker_handles'[j] = worker_handles[j]
  BY <1>1, <1>2, WithIsMap
<1>10. IsMap(Without(s.retry_attempts, i), Issues, RetryEntry)
  BY WithoutIsMap DEF StateOK
<1>11. StateOK(state')
  BY <1>5, <1>6, <1>10 DEF StateOK
<1> QED
  BY <1>4, <1>5, <1>6, <1>8, <1>9, <1>11

(* Aborting a worker removes its handle and no other.                        *)
LEMMA AbortStep ==
  ASSUME NEW i \in Issues, AbortWorker(i),
         IsMap(worker_handles, Issues, Runs), IsMap(workers, Runs, Task)
  PROVE  /\ IsMap(worker_handles', Issues, Runs)
         /\ IsMap(workers', Runs, Task)
         /\ worker_handles' = Without(worker_handles, i)
<1>1. worker_handles' = Without(worker_handles, i)
  BY DEF AbortWorker
<1>2. workers' \in {workers, Without(workers, worker_handles[i])}
  BY DEF AbortWorker
<1>3. /\ IsMap(Without(worker_handles, i), Issues, Runs)
      /\ IsMap(Without(workers, worker_handles[i]), Runs, Task)
  BY WithoutIsMap
<1> QED
  BY <1>1, <1>2, <1>3

(* The stall check's removal, and the exit it applies to what is left.       *)
LEMMA AfterStallState ==
  ASSUME NEW s, StateOK(s), NEW i \in Issues
  PROVE  /\ StateOK(AfterStall(s, i))
         /\ AfterStall(s, i) = [running |-> Without(s.running, i), claimed |-> s.claimed,
                                retry_attempts |-> s.retry_attempts]
<1> DEFINE s1 == [s EXCEPT !.running = Without(@, i)]
<1>1. s1 = [running |-> Without(s.running, i), claimed |-> s.claimed,
            retry_attempts |-> s.retry_attempts]
  BY DEF StateOK
<1>2. /\ IsMap(Without(s.running, i), Issues, RunningEntry)
      /\ i \notin DOMAIN Without(s.running, i)
  <2>1. IsMap(Without(s.running, i), Issues, RunningEntry)
    BY WithoutIsMap DEF StateOK
  <2>2. i \notin DOMAIN Without(s.running, i)
    BY DEF Without
  <2> QED
    BY <2>1, <2>2
<1> HIDE DEF s1
<1>3. StateOK(s1) /\ i \notin DOMAIN s1.running
  BY <1>1, <1>2 DEF StateOK
<1>4. ApplyWorkerExit(s1, i) = s1
  BY <1>3, ExitKeepsState
<1> QED
  BY <1>1, <1>3, <1>4 DEF AfterStall, s1

(* A received message is a message, and the rest stays in the channel.       *)
LEMMA ReceivedMessage ==
  ASSUME NEW type, mailbox \in Seq(Messages), Receives(type)
  PROVE  /\ mailbox' \in Seq(Messages)
         /\ pc = "recv"
         /\ type # "PollTick" => Head(mailbox).issue \in Issues
<1>1. mailbox' \in Seq(Messages) /\ Head(mailbox) \in Messages
  BY DEF Receives
<1> QED
  BY <1>1 DEF Receives, Messages, PollTick

(* The smallest of a set of issue numbers is one of them.                    *)
LEMMA FirstIsLeast ==
  ASSUME NEW S \in SUBSET Nat, S # {}
  PROVE  First(S) \in S /\ \A j \in S : First(S) <= j
<1> DEFINE Less == {p \in Nat \X Nat : p[1] < p[2]}
<1>1. IsWellFoundedOn(Less, Nat)
  BY NatLessThanWellFounded DEF OpToRel
<1>2. \E i \in S : \A j \in S : <<j, i>> \notin Less
  <2> HIDE DEF Less
  <2> QED
    BY <1>1, WFMin
<1>3. PICK i \in S : \A j \in S : <<j, i>> \notin Less
  BY <1>2
<1>4. ASSUME NEW j \in S PROVE i <= j
  <2>1. <<j, i>> \notin Less
    BY <1>3
  <2>2. ~ (j < i)
    BY <2>1
  <2> QED
    BY <2>2
<1> QED
  BY <1>4 DEF First

(* Sending appends a message.                                                *)
LEMMA SentMessage ==
  ASSUME mailbox \in Seq(Messages), NEW m \in Messages
  PROVE  Append(mailbox, m) \in Seq(Messages)
  OBVIOUS

-----------------------------------------------------------------------------
(* Type correctness, one lemma for each part of Next.                        *)

(* The message loop keeps every variable's shape.                            *)
LEMMA ReceiveKeepsTypes ==
  ASSUME TypeOK, Receive
  PROVE  TypeOK'
<1>1. CASE ReceivePollTick
  BY <1>1, ReceivedMessage DEF TypeOK, ReceivePollTick, TickPcs
<1>2. CASE ReceiveWorkerExit
  <2> DEFINE i == Head(mailbox).issue
  <2>1. mailbox' \in Seq(Messages) /\ i \in Issues
    BY <1>2, ReceivedMessage DEF TypeOK, ReceiveWorkerExit
  <2>2. StateOK(ApplyWorkerExit(state, i))
    BY <2>1, ExitKeepsState DEF TypeOK
  <2>3. IsMap(worker_handles', Issues, Runs)
    BY <1>2, WithoutIsMap DEF TypeOK, ReceiveWorkerExit
  <2>4. StateOK(state') /\ pc' \in {pc, "sent"}
    BY <1>2, <2>2 DEF TypeOK, ReceiveWorkerExit
  <2> QED
    BY <1>2, <2>1, <2>3, <2>4 DEF TypeOK, ReceiveWorkerExit, StoppedPcs
<1>3. CASE ReceiveAgentUpdate
  <2> DEFINE i == Head(mailbox).issue
  <2>1. mailbox' \in Seq(Messages)
    BY <1>3, ReceivedMessage DEF TypeOK, ReceiveAgentUpdate
  <2>2. StateOK(ApplyAgentUpdate(state, i))
    BY DEF TypeOK, ApplyAgentUpdate, StateOK, IsMap, RunningEntry
  <2> QED
    BY <1>3, <2>1, <2>2 DEF TypeOK, ReceiveAgentUpdate
<1>4. CASE ReceiveTerminateWorker
  <2> DEFINE i == Head(mailbox).issue
  <2>1. mailbox' \in Seq(Messages) /\ i \in Issues
    BY <1>4, ReceivedMessage DEF TypeOK, ReceiveTerminateWorker
  <2>2. StateOK(state')
    BY <1>4, ReleaseKeepsState DEF TypeOK, ReceiveTerminateWorker
  <2>3. AbortWorker(i)
    BY <1>4 DEF ReceiveTerminateWorker
  <2>4. /\ IsMap(worker_handles', Issues, Runs) /\ IsMap(workers', Runs, Task)
    BY <2>1, <2>3, AbortStep DEF TypeOK
  <2> QED
    BY <1>4, <2>1, <2>2, <2>4 DEF TypeOK, ReceiveTerminateWorker
<1> QED
  BY <1>1, <1>2, <1>3, <1>4 DEF Receive

(* Starting a worker in the middle of a tick.                                *)
LEMMA DispatchKeepsTypes ==
  ASSUME TypeOK, NEW s, StateOK(s), NEW i \in Issues, DispatchWorker(s, i),
         todo' \subseteq todo,
         UNCHANGED <<mailbox, updates, tracker, workflow, config, pc, answer,
                     reopens, crashes>>
  PROVE  TypeOK'
<1>1. /\ StateOK(state')
      /\ IsMap(worker_handles', Issues, Runs)
      /\ IsMap(workers', Runs, Task)
  BY DispatchStep DEF TypeOK
<1> QED
  BY <1>1 DEF TypeOK

(* The steps of a tick keep every variable's shape.                          *)
LEMMA TickKeepsTypes ==
  ASSUME TypeOK, Tick
  PROVE  TypeOK'
<1>1. CASE FetchRunning
  BY <1>1 DEF TypeOK, FetchRunning, TickPcs, StateOK, IsMap
<1>2. ASSUME NEW i \in todo, TerminateClosed(i) PROVE TypeOK'
  <2>1. i \in Issues /\ AbortWorker(i) /\ TerminateWorker(i) \in Messages
    BY <1>2 DEF TypeOK, TerminateClosed, TerminateWorker, Messages
  <2>2. mailbox' \in Seq(Messages)
    BY <1>2, <2>1, SentMessage DEF TypeOK, TerminateClosed
  <2>3. /\ IsMap(worker_handles', Issues, Runs) /\ IsMap(workers', Runs, Task)
    BY <2>1, AbortStep DEF TypeOK
  <2>4. StateOK(state')
    BY <1>2, ReleaseKeepsState DEF TypeOK, TerminateClosed
  <2> QED
    BY <1>2, <2>2, <2>3, <2>4 DEF TypeOK, TerminateClosed
<1>3. CASE FindStalled
  BY <1>3 DEF TypeOK, FindStalled, TickPcs, StateOK, IsMap
<1>4. ASSUME NEW i \in todo, TerminateStalled(i) PROVE TypeOK'
  <2>1. i \in Issues /\ AbortWorker(i)
    BY <1>4 DEF TypeOK, TerminateStalled
  <2>2. /\ IsMap(worker_handles', Issues, Runs) /\ IsMap(workers', Runs, Task)
    BY <2>1, AbortStep DEF TypeOK
  <2>3. StateOK(state')
    BY <1>4, <2>1, AfterStallState DEF TypeOK, TerminateStalled
  <2> QED
    BY <1>4, <2>2, <2>3 DEF TypeOK, TerminateStalled
<1>5. CASE FetchDue
  <2>1. todo' \subseteq Issues /\ answer' \subseteq Issues
    BY <1>5 DEF TypeOK, FetchDue, DueRetries, StateOK, IsMap
  <2> QED
    BY <1>5, <2>1 DEF TypeOK, FetchDue, TickPcs
<1>6. ASSUME NEW i \in todo, RetryDispatch(i) PROVE TypeOK'
  <2>1. StateOK(RemoveRetry(state, i)) /\ i \in Issues
    BY ReleaseKeepsState DEF TypeOK
  <2> QED
    BY <1>6, <2>1, DispatchKeepsTypes DEF RetryDispatch
<1>7. ASSUME NEW i \in todo, RetryRelease(i) PROVE TypeOK'
  <2>1. StateOK(ReleaseClaim(RemoveRetry(state, i), i))
    BY ReleaseKeepsState DEF TypeOK
  <2> QED
    BY <1>7, <2>1 DEF TypeOK, RetryRelease
<1>8. CASE FetchFixPr
  BY <1>8 DEF TypeOK, FetchFixPr, TickPcs
<1>9. ASSUME NEW i \in todo, FixPrDispatch(i) PROVE TypeOK'
  <2>1. StateOK(state) /\ i \in Issues
    BY DEF TypeOK
  <2> QED
    BY <1>9, <2>1, DispatchKeepsTypes DEF FixPrDispatch
<1>10. ASSUME NEW i \in todo, FixPrSkip(i) PROVE TypeOK'
  BY <1>10 DEF TypeOK, FixPrSkip
<1>11. CASE FetchCandidates
  BY <1>11 DEF TypeOK, FetchCandidates, TickPcs
<1>12. CASE DispatchCandidate
  <2>1. StateOK(state)
    BY DEF TypeOK
  <2>2. todo \in SUBSET Nat /\ todo # {}
    BY <1>12, OrchestratorAssumption DEF TypeOK, DispatchCandidate
  <2>3. First(todo) \in Issues
    BY <2>2, FirstIsLeast DEF TypeOK
  <2> QED
    BY <1>12, <2>1, <2>3, DispatchKeepsTypes DEF DispatchCandidate
<1>13. CASE EndOfTick
  BY <1>13 DEF TypeOK, EndOfTick
<1> QED
  BY <1>1, <1>2, <1>3, <1>4, <1>5, <1>6, <1>7, <1>8, <1>9, <1>10, <1>11, <1>12, <1>13
     DEF Tick

(* Worker tasks, forwarders and agent processes keep every variable's shape. *)
LEMMA WorkerKeepsTypes ==
  ASSUME TypeOK, Worker
  PROVE  TypeOK'
<1>1. ASSUME NEW r \in DOMAIN workers, NEW phase \in Pending \cup Reasons, ToPhase(r, phase)
      PROVE  IsMap(workers', Runs, Task)
  BY <1>1 DEF TypeOK, ToPhase, IsMap, Task
<1>2. ASSUME NEW r \in DOMAIN workers, StartAgent(r) PROVE TypeOK'
  BY <1>1, <1>2 DEF TypeOK, StartAgent, Pending
<1>3. ASSUME NEW r \in DOMAIN workers, SetupFails(r) PROVE TypeOK'
  BY <1>1, <1>3 DEF TypeOK, SetupFails, Reasons
<1>4. ASSUME NEW r \in DOMAIN workers, SendWorkerExit(r) PROVE TypeOK'
  <2>1. WorkerExit(workers[r].issue, workers[r].phase) \in Messages
    BY <1>4 DEF TypeOK, SendWorkerExit, IsMap, Task, WorkerExit, Messages
  <2>2. mailbox' \in Seq(Messages)
    BY <1>4, <2>1, SentMessage DEF TypeOK, SendWorkerExit
  <2>3. IsMap(workers', Runs, Task)
    BY <1>4, WithoutIsMap DEF TypeOK, SendWorkerExit
  <2> QED
    BY <1>4, <2>2, <2>3 DEF TypeOK, SendWorkerExit
<1>5. ASSUME NEW r \in DOMAIN workers, AgentSpeaks(r) PROVE TypeOK'
  BY <1>5 DEF TypeOK, AgentSpeaks, IsMap, Task
<1>6. ASSUME NEW r \in DOMAIN workers, NEW reason \in Reasons, AgentReturns(r, reason)
      PROVE  TypeOK'
  <2>1. IsMap(workers', Runs, Task)
    BY <1>1, <1>6 DEF AgentReturns
  <2> QED
    BY <1>6, <2>1 DEF TypeOK, AgentReturns
<1>7. ASSUME NEW i \in Issues, ForwardUpdate(i) PROVE TypeOK'
  <2>1. AgentUpdate(i) \in Messages
    BY DEF AgentUpdate, Messages
  <2>2. mailbox' \in Seq(Messages)
    BY <1>7, <2>1, SentMessage DEF TypeOK, ForwardUpdate
  <2> QED
    BY <1>7, <2>2 DEF TypeOK, ForwardUpdate
<1> QED
  BY <1>2, <1>3, <1>4, <1>5, <1>6, <1>7 DEF Worker

(* Timer, clock, reload and tracker keep every variable's shape.             *)
LEMMA EnvironmentKeepsTypes ==
  ASSUME TypeOK, Environment
  PROVE  TypeOK'
<1>1. CASE TimerTick
  <2>1. PollTick \in Messages
    BY DEF Messages
  <2> QED
    BY <1>1, <2>1, SentMessage DEF TypeOK, TimerTick
<1>2. ASSUME NEW i \in Issues, BecomesDue(i) PROVE TypeOK'
  <2>1. StateOK(state')
    BY <1>2 DEF TypeOK, BecomesDue, StateOK, IsMap, RetryEntry
  <2> QED
    BY <1>2, <2>1 DEF TypeOK, BecomesDue
<1>3. ASSUME NEW i \in Issues, BecomesQuiet(i) PROVE TypeOK'
  <2>1. StateOK(state')
    BY <1>3 DEF TypeOK, BecomesQuiet, StateOK, IsMap, RunningEntry
  <2> QED
    BY <1>3, <2>1 DEF TypeOK, BecomesQuiet
<1>4. ASSUME NEW limit \in Limits, Reload(limit) PROVE TypeOK'
  BY <1>4 DEF TypeOK, Reload
<1>5. ASSUME NEW i \in Issues, NEW c \in Shown, TrackerChanges(i, c) PROVE TypeOK'
  BY <1>5, OrchestratorAssumption DEF TypeOK, TrackerChanges
<1> QED
  BY <1>1, <1>2, <1>3, <1>4, <1>5 DEF Environment

(* The empty OrchestratorState of a new process.                             *)
LEMMA EmptyStateOK ==
  StateOK([running |-> <<>>, claimed |-> {}, retry_attempts |-> <<>>])
  BY EmptyIsMap DEF StateOK

(* Ends of the process, and its next start, keep every variable's shape.     *)
LEMMA ProcessKeepsTypes ==
  ASSUME TypeOK, Process
  PROVE  TypeOK'
<1>1. ASSUME ProcessDies
      PROVE  /\ StateOK(state') /\ IsMap(worker_handles', Issues, Runs)
             /\ mailbox' \in Seq(Messages) /\ IsMap(workers', Runs, Task)
             /\ updates' \subseteq Issues
             /\ todo' \subseteq Issues /\ answer' \subseteq Issues
  <2>1. StateOK(state')
    BY <1>1, EmptyStateOK DEF ProcessDies
  <2>2. IsMap(worker_handles', Issues, Runs) /\ IsMap(workers', Runs, Task)
    BY <1>1, EmptyIsMap DEF ProcessDies
  <2> QED
    BY <1>1, <2>1, <2>2 DEF ProcessDies
<1>2. CASE OrchestratorReturns
  BY <1>2 DEF TypeOK, OrchestratorReturns, StoppedPcs
<1>3. ASSUME NEW code \in {"exit0", "exit1"}, MainExits(code) PROVE TypeOK'
  BY <1>1, <1>3 DEF TypeOK, MainExits, StoppedPcs
<1>4. CASE Restart
  BY <1>1, <1>4, OrchestratorAssumption DEF TypeOK, Restart
<1> QED
  BY <1>2, <1>3, <1>4 DEF Process

(* Every variable keeps its shape for ever.                                  *)
THEOREM TypesHold == Spec => []TypeOK
<1>1. Init => TypeOK
  BY EmptyStateOK, EmptyIsMap, OrchestratorAssumption DEF Init, TypeOK
<1>2. TypeOK /\ [Next]_vars => TypeOK'
  <2>1. TypeOK /\ UNCHANGED vars => TypeOK'
    BY DEF TypeOK, vars
  <2> QED
    BY <2>1, ReceiveKeepsTypes, TickKeepsTypes, WorkerKeepsTypes, EnvironmentKeepsTypes,
       ProcessKeepsTypes DEF Next
<1> QED
  BY <1>1, <1>2, PTL DEF Spec

-----------------------------------------------------------------------------
(* Claims, retries, running entries and handles stay consistent.  None of    *)
(* the four is an accident of the others: a retry that is released needs to  *)
(* be queued (DueIsQueued) and so not running (RetryHoldsClaim), so that no  *)
(* handle of its own is left behind (HandleIsOfRunningRun), which is what    *)
(* keeps claims and handles together (ClaimedIffHandled).                    *)
Coupled == /\ RetryHoldsClaim /\ HandleIsOfRunningRun
           /\ ClaimedIffHandled /\ DueIsQueued

(* A step that touches neither the state nor the handles.                    *)
LEMMA QuietStepKeepsCoupled ==
  ASSUME Coupled, UNCHANGED <<state, worker_handles>>,
         pc \in StoppedPcs => pc' \in StoppedPcs,
         pc' = "retries" => todo' \subseteq DOMAIN state.retry_attempts
  PROVE  Coupled'
  BY DEF Coupled, RetryHoldsClaim, HandleIsOfRunningRun, ClaimedIffHandled, DueIsQueued

(* A dispatch: i is claimed, runs, is handled and queued no more.            *)
LEMMA DispatchKeepsCoupled ==
  ASSUME TypeOK, Coupled, NEW i \in Issues, NEW s, s \in {state, RemoveRetry(state, i)},
         DispatchWorker(s, i), pc' = pc, pc = "retries" => todo' = todo \ {i}
  PROVE  Coupled'
<1>1. /\ StateOK(s) /\ s.running = state.running /\ s.claimed = state.claimed
      /\ DOMAIN Without(s.retry_attempts, i) = DOMAIN state.retry_attempts \ {i}
  <2>1. CASE s = state
    BY <2>1 DEF TypeOK, Without
  <2>2. CASE s = RemoveRetry(state, i)
    <3>1. /\ StateOK(s)
          /\ s = [running |-> state.running, claimed |-> state.claimed,
                  retry_attempts |-> Without(state.retry_attempts, i)]
      BY <2>2, ReleaseKeepsState DEF TypeOK
    <3> QED
      BY <3>1 DEF Without
  <2> QED
    BY <2>1, <2>2
<1>2. /\ state'.claimed = state.claimed \cup {i}
      /\ DOMAIN state'.retry_attempts = DOMAIN state.retry_attempts \ {i}
      /\ DOMAIN state'.running = DOMAIN state.running \cup {i}
      /\ \A j \in DOMAIN state.running : j # i => state'.running[j] = state.running[j]
      /\ DOMAIN worker_handles' = DOMAIN worker_handles \cup {i}
      /\ worker_handles'[i] = state'.running[i].run
      /\ \A j \in DOMAIN worker_handles : j # i => worker_handles'[j] = worker_handles[j]
  <2>1. /\ IsMap(worker_handles, Issues, Runs) /\ IsMap(workers, Runs, Task)
        /\ StateOK(s)
    BY <1>1 DEF TypeOK
  <2>2. /\ state'.claimed = s.claimed \cup {i}
        /\ state'.retry_attempts = Without(s.retry_attempts, i)
        /\ DOMAIN state'.running = DOMAIN s.running \cup {i}
        /\ \A j \in DOMAIN s.running : j # i => state'.running[j] = s.running[j]
        /\ DOMAIN worker_handles' = DOMAIN worker_handles \cup {i}
        /\ worker_handles'[i] = state'.running[i].run
        /\ \A j \in DOMAIN worker_handles : j # i => worker_handles'[j] = worker_handles[j]
    BY <2>1, DispatchStep
  <2> QED
    BY <1>1, <2>2
<1>3. RetryHoldsClaim'
  BY <1>2 DEF Coupled, RetryHoldsClaim
<1>4. HandleIsOfRunningRun'
  BY <1>2 DEF Coupled, HandleIsOfRunningRun
<1>5. ClaimedIffHandled'
  BY <1>2 DEF Coupled, ClaimedIffHandled
<1>6. DueIsQueued'
  BY <1>2 DEF Coupled, DueIsQueued
<1> QED
  BY <1>3, <1>4, <1>5, <1>6 DEF Coupled

(* A release: i loses claim, queue entry and handle; a running entry stays.   *)
LEMMA ReleaseKeepsCoupled ==
  ASSUME Coupled, NEW i, pc' = pc, pc = "retries" => todo' = todo \ {i},
         state'.running = state.running,
         state'.claimed = state.claimed \ {i},
         DOMAIN state'.retry_attempts = DOMAIN state.retry_attempts \ {i},
         DOMAIN worker_handles' = DOMAIN worker_handles \ {i},
         \A j \in DOMAIN worker_handles \ {i} : worker_handles'[j] = worker_handles[j]
  PROVE  Coupled'
<1>1. RetryHoldsClaim'
  BY DEF Coupled, RetryHoldsClaim
<1>2. HandleIsOfRunningRun'
  BY DEF Coupled, HandleIsOfRunningRun
<1>3. ClaimedIffHandled'
  BY DEF Coupled, ClaimedIffHandled
<1>4. DueIsQueued'
  BY DEF Coupled, DueIsQueued
<1> QED
  BY <1>1, <1>2, <1>3, <1>4 DEF Coupled

(* A removal: i runs no more and has no handle; it may be claimed and queued. *)
LEMMA RemovalKeepsCoupled ==
  ASSUME Coupled, NEW i, pc' = pc, pc # "retries",
         DOMAIN state'.running = DOMAIN state.running \ {i},
         \A j \in DOMAIN state.running \ {i} : state'.running[j] = state.running[j],
         \/ /\ state'.claimed = state.claimed
            /\ DOMAIN state'.retry_attempts = DOMAIN state.retry_attempts
         \/ /\ state'.claimed = state.claimed \cup {i}
            /\ DOMAIN state'.retry_attempts = DOMAIN state.retry_attempts \cup {i},
         DOMAIN worker_handles' = DOMAIN worker_handles \ {i},
         \A j \in DOMAIN worker_handles \ {i} : worker_handles'[j] = worker_handles[j]
  PROVE  Coupled'
<1>1. RetryHoldsClaim'
  BY DEF Coupled, RetryHoldsClaim
<1>2. HandleIsOfRunningRun'
  BY DEF Coupled, HandleIsOfRunningRun
<1>3. ClaimedIffHandled'
  BY DEF Coupled, ClaimedIffHandled
<1>4. DueIsQueued'
  BY DEF Coupled, DueIsQueued
<1> QED
  BY <1>1, <1>2, <1>3, <1>4 DEF Coupled

(* A release as the code does it, with the handle gone or never there.       *)
LEMMA ReleaseStepKeepsCoupled ==
  ASSUME TypeOK, Coupled, NEW i \in Issues, state' = ReleaseClaim(state, i),
         pc' = pc, pc = "retries" => todo' = todo \ {i},
         worker_handles' = Without(worker_handles, i)
  PROVE  Coupled'
<1>1. state' = [running |-> state.running, claimed |-> state.claimed \ {i},
                retry_attempts |-> Without(state.retry_attempts, i)]
  BY ReleaseKeepsState DEF TypeOK
<1>2. /\ state'.running = state.running /\ state'.claimed = state.claimed \ {i}
      /\ DOMAIN state'.retry_attempts = DOMAIN state.retry_attempts \ {i}
  BY <1>1 DEF Without
<1>3. /\ DOMAIN worker_handles' = DOMAIN worker_handles \ {i}
      /\ \A j \in DOMAIN worker_handles \ {i} : worker_handles'[j] = worker_handles[j]
  BY DEF Without
<1> QED
  BY <1>2, <1>3, ReleaseKeepsCoupled

(* The message loop.                                                         *)
LEMMA ReceiveKeepsCoupled ==
  ASSUME TypeOK, Coupled, Receive
  PROVE  Coupled'
<1>1. CASE ReceivePollTick
  BY <1>1, QuietStepKeepsCoupled DEF ReceivePollTick, StoppedPcs, Receives
<1>2. CASE ReceiveWorkerExit
  <2> DEFINE i == Head(mailbox).issue
  <2>1. i \in Issues /\ pc = "recv" /\ worker_handles' = Without(worker_handles, i)
    BY <1>2, ReceivedMessage DEF TypeOK, ReceiveWorkerExit
  <2>2. /\ DOMAIN worker_handles' = DOMAIN worker_handles \ {i}
        /\ \A j \in DOMAIN worker_handles \ {i} : worker_handles'[j] = worker_handles[j]
    BY <2>1 DEF Without
  <2>3. CASE pc' = "sent" /\ UNCHANGED state
    BY <2>2, <2>3
       DEF Coupled, RetryHoldsClaim, HandleIsOfRunningRun, ClaimedIffHandled, DueIsQueued,
           StoppedPcs
  <2>4. CASE pc' = pc /\ state' = ApplyWorkerExit(state, i)
    <3>1. CASE i \notin DOMAIN state.running
      <4>1. state' = state
        BY <2>4, <3>1 DEF ApplyWorkerExit
      <4>2. i \notin DOMAIN worker_handles
        BY <3>1 DEF Coupled, HandleIsOfRunningRun
      <4> QED
        BY <2>1, <2>2, <2>4, <4>1, <4>2
           DEF Coupled, RetryHoldsClaim, HandleIsOfRunningRun, ClaimedIffHandled, DueIsQueued
    <3>2. CASE i \in DOMAIN state.running
      <4>1. /\ state'.running = Without(state.running, i)
            /\ state'.claimed = state.claimed \cup {i}
            /\ DOMAIN state'.retry_attempts = DOMAIN state.retry_attempts \cup {i}
        BY <2>1, <2>4, <3>2, ExitKeepsState DEF TypeOK
      <4>2. /\ DOMAIN state'.running = DOMAIN state.running \ {i}
            /\ \A j \in DOMAIN state.running \ {i} : state'.running[j] = state.running[j]
        BY <4>1 DEF Without
      <4> QED
        BY <2>1, <2>2, <2>4, <4>1, <4>2, RemovalKeepsCoupled
    <3> QED
      BY <3>1, <3>2
  <2> QED
    BY <1>2, <2>3, <2>4 DEF ReceiveWorkerExit
<1>3. CASE ReceiveAgentUpdate
  <2>1. state' = ApplyAgentUpdate(state, Head(mailbox).issue)
    BY <1>3 DEF ReceiveAgentUpdate
  <2>2. /\ state'.claimed = state.claimed /\ state'.retry_attempts = state.retry_attempts
        /\ DOMAIN state'.running = DOMAIN state.running
        /\ \A j \in DOMAIN state.running : state'.running[j].run = state.running[j].run
    BY <2>1 DEF TypeOK, StateOK, IsMap, RunningEntry, ApplyAgentUpdate
  <2> QED
    BY <1>3, <2>2 DEF ReceiveAgentUpdate, Coupled, RetryHoldsClaim, HandleIsOfRunningRun,
                      ClaimedIffHandled, DueIsQueued
<1>4. CASE ReceiveTerminateWorker
  <2> DEFINE i == Head(mailbox).issue
  <2>1. i \in Issues /\ pc = "recv" /\ AbortWorker(i)
    BY <1>4, ReceivedMessage DEF TypeOK, ReceiveTerminateWorker
  <2>2. worker_handles' = Without(worker_handles, i)
    BY <2>1 DEF AbortWorker
  <2> QED
    BY <1>4, <2>1, <2>2, ReleaseStepKeepsCoupled DEF ReceiveTerminateWorker
<1> QED
  BY <1>1, <1>2, <1>3, <1>4 DEF Receive

(* The steps of a tick.                                                      *)
LEMMA TickKeepsCoupled ==
  ASSUME TypeOK, Coupled, Tick
  PROVE  Coupled'
<1>1. CASE FetchRunning
  BY <1>1, QuietStepKeepsCoupled DEF FetchRunning, StoppedPcs
<1>2. ASSUME NEW i \in todo, TerminateClosed(i) PROVE Coupled'
  <2>1. i \in Issues /\ worker_handles' = Without(worker_handles, i)
    BY <1>2 DEF TypeOK, TerminateClosed, AbortWorker
  <2> QED
    BY <1>2, <2>1, ReleaseStepKeepsCoupled DEF TerminateClosed
<1>3. CASE FindStalled
  BY <1>3, QuietStepKeepsCoupled DEF FindStalled, StoppedPcs
<1>4. ASSUME NEW i \in todo, TerminateStalled(i) PROVE Coupled'
  <2>1. i \in Issues /\ worker_handles' = Without(worker_handles, i)
    BY <1>4 DEF TypeOK, TerminateStalled, AbortWorker
  <2>2. /\ state'.running = Without(state.running, i)
        /\ state'.claimed = state.claimed /\ state'.retry_attempts = state.retry_attempts
    BY <1>4, <2>1, AfterStallState DEF TypeOK, TerminateStalled
  <2>3. /\ DOMAIN state'.running = DOMAIN state.running \ {i}
        /\ \A j \in DOMAIN state.running \ {i} : state'.running[j] = state.running[j]
        /\ DOMAIN worker_handles' = DOMAIN worker_handles \ {i}
        /\ \A j \in DOMAIN worker_handles \ {i} : worker_handles'[j] = worker_handles[j]
    BY <2>1, <2>2 DEF Without
  <2>4. pc' = pc /\ pc # "retries"
    BY <1>4 DEF TerminateStalled
  <2> QED
    BY <2>2, <2>3, <2>4, RemovalKeepsCoupled
<1>5. CASE FetchDue
  <2>1. todo' \subseteq DOMAIN state.retry_attempts
    BY <1>5 DEF FetchDue, DueRetries
  <2> QED
    BY <1>5, <2>1, QuietStepKeepsCoupled DEF FetchDue, StoppedPcs
<1>6. ASSUME NEW i \in todo, RetryDispatch(i) PROVE Coupled'
  <2>1. i \in Issues
    BY DEF TypeOK
  <2> QED
    BY <1>6, <2>1, DispatchKeepsCoupled DEF RetryDispatch
<1>7. ASSUME NEW i \in todo, RetryRelease(i) PROVE Coupled'
  <2>1. /\ i \in Issues /\ i \in DOMAIN state.retry_attempts
        /\ i \notin DOMAIN state.running /\ i \notin DOMAIN worker_handles
    BY <1>7 DEF TypeOK, RetryRelease, Coupled, DueIsQueued, RetryHoldsClaim,
                HandleIsOfRunningRun
  <2>2. /\ state'.running = state.running /\ state'.claimed = state.claimed \ {i}
        /\ state'.retry_attempts = Without(Without(state.retry_attempts, i), i)
    BY <1>7, ReleaseKeepsState DEF TypeOK, RetryRelease
  <2>3. DOMAIN state'.retry_attempts = DOMAIN state.retry_attempts \ {i}
    BY <2>2 DEF Without
  <2> QED
    BY <1>7, <2>1, <2>2, <2>3, ReleaseKeepsCoupled DEF RetryRelease
<1>8. CASE FetchFixPr
  BY <1>8, QuietStepKeepsCoupled DEF FetchFixPr, StoppedPcs
<1>9. ASSUME NEW i \in todo, FixPrDispatch(i) PROVE Coupled'
  <2>1. i \in Issues
    BY DEF TypeOK
  <2> QED
    BY <1>9, <2>1, DispatchKeepsCoupled DEF FixPrDispatch
<1>10. ASSUME NEW i \in todo, FixPrSkip(i) PROVE Coupled'
  BY <1>10, QuietStepKeepsCoupled DEF FixPrSkip
<1>11. CASE FetchCandidates
  BY <1>11, QuietStepKeepsCoupled DEF FetchCandidates, StoppedPcs
<1>12. CASE DispatchCandidate
  <2>1. todo \in SUBSET Nat /\ todo # {} /\ todo \subseteq Issues
    BY <1>12, OrchestratorAssumption DEF TypeOK, DispatchCandidate
  <2>2. First(todo) \in Issues
    BY <2>1, FirstIsLeast
  <2> QED
    BY <1>12, <2>2, DispatchKeepsCoupled DEF DispatchCandidate
<1>13. CASE EndOfTick
  BY <1>13, QuietStepKeepsCoupled DEF EndOfTick, StoppedPcs
<1> QED
  BY <1>1, <1>2, <1>3, <1>4, <1>5, <1>6, <1>7, <1>8, <1>9, <1>10, <1>11, <1>12, <1>13
     DEF Tick

(* Everything else, the end of the process included.                         *)
LEMMA OthersKeepCoupled ==
  ASSUME TypeOK, Coupled, Worker \/ Environment \/ Process
  PROVE  Coupled'
<1>1. CASE Worker
  <2>1. UNCHANGED <<state, worker_handles, pc, todo>>
    BY <1>1 DEF Worker, StartAgent, SetupFails, SendWorkerExit, AgentSpeaks, AgentReturns,
                ForwardUpdate
  <2> QED
    BY <2>1, QuietStepKeepsCoupled DEF Coupled, DueIsQueued
<1>2. CASE Environment
  <2>1. CASE UNCHANGED <<state, worker_handles, pc, todo>>
    BY <2>1, QuietStepKeepsCoupled DEF Coupled, DueIsQueued
  <2>2. ASSUME NEW i \in Issues, BecomesDue(i) PROVE Coupled'
    <3>1. /\ state'.claimed = state.claimed /\ state'.running = state.running
          /\ DOMAIN state'.retry_attempts = DOMAIN state.retry_attempts
      BY <2>2 DEF TypeOK, StateOK, IsMap, BecomesDue
    <3> QED
      BY <2>2, <3>1 DEF BecomesDue, Coupled, RetryHoldsClaim, HandleIsOfRunningRun,
                        ClaimedIffHandled, DueIsQueued
  <2>3. ASSUME NEW i \in Issues, BecomesQuiet(i) PROVE Coupled'
    <3>1. /\ state'.claimed = state.claimed /\ state'.retry_attempts = state.retry_attempts
          /\ DOMAIN state'.running = DOMAIN state.running
          /\ \A j \in DOMAIN state.running : state'.running[j].run = state.running[j].run
      BY <2>3 DEF TypeOK, StateOK, IsMap, RunningEntry, BecomesQuiet
    <3> QED
      BY <2>3, <3>1 DEF BecomesQuiet, Coupled, RetryHoldsClaim, HandleIsOfRunningRun,
                        ClaimedIffHandled, DueIsQueued
  <2> QED
    BY <1>2, <2>1, <2>2, <2>3 DEF Environment, TimerTick, Reload, TrackerChanges
<1>3. CASE Process
  <2>1. CASE OrchestratorReturns
    BY <2>1, QuietStepKeepsCoupled DEF OrchestratorReturns, StoppedPcs
  <2>2. ASSUME ProcessDies PROVE Coupled'
    <3>1. /\ DOMAIN state'.running = {} /\ DOMAIN state'.retry_attempts = {}
          /\ DOMAIN worker_handles' = {} /\ todo' = {}
      BY <2>2, EmptyIsMap DEF ProcessDies
    <3> QED
      BY <3>1 DEF Coupled, RetryHoldsClaim, HandleIsOfRunningRun, ClaimedIffHandled,
                  DueIsQueued
  <2> QED
    BY <1>3, <2>1, <2>2 DEF Process, MainExits, Restart
<1> QED
  BY <1>1, <1>2, <1>3

(* The four invariants hold together, whatever messages come late, whatever  *)
(* the tracker answers and whenever the process dies.                        *)
LEMMA CoupledHolds == Spec => []Coupled
<1>1. Init => Coupled
  BY EmptyIsMap DEF Init, Coupled, RetryHoldsClaim, HandleIsOfRunningRun, ClaimedIffHandled,
                    DueIsQueued
<1>2. TypeOK /\ Coupled /\ [Next]_vars => Coupled'
  <2>1. TypeOK /\ Coupled /\ UNCHANGED vars => Coupled'
    BY QuietStepKeepsCoupled DEF vars, Coupled, DueIsQueued
  <2> QED
    BY <2>1, ReceiveKeepsCoupled, TickKeepsCoupled, OthersKeepCoupled DEF Next
<1> QED
  BY <1>1, <1>2, TypesHold, PTL DEF Spec

(* An issue that waits for its retry is claimed and does not run.            *)
THEOREM RetryKeepsClaim == Spec => []RetryHoldsClaim
<1>1. Coupled => RetryHoldsClaim
  BY DEF Coupled
<1> QED
  BY <1>1, CoupledHolds, PTL

(* The handle kept for an issue is that of the run recorded for it.          *)
THEOREM HandleFitsRun == Spec => []HandleIsOfRunningRun
<1>1. Coupled => HandleIsOfRunningRun
  BY DEF Coupled
<1> QED
  BY <1>1, CoupledHolds, PTL

(* A running issue is claimed exactly while it has its handle.               *)
THEOREM ClaimGoesWithHandle == Spec => []ClaimedIffHandled
<1>1. Coupled => ClaimedIffHandled
  BY DEF Coupled
<1> QED
  BY <1>1, CoupledHolds, PTL

(* The retries a tick has left to visit are in the retry queue.              *)
THEOREM DueStaysQueued == Spec => []DueIsQueued
<1>1. Coupled => DueIsQueued
  BY DEF Coupled
<1> QED
  BY <1>1, CoupledHolds, PTL

-----------------------------------------------------------------------------
(* Slots.  Every step either shrinks the set of running entries or starts one *)
(* issue that had none, with a slot to spare under the tick's own limit.      *)
Shrinks == \A j \in DOMAIN state'.running :
             j \in DOMAIN state.running /\ state'.running[j].run = state.running[j].run

Starts(i) ==
  /\ i \notin DOMAIN state.running
  /\ DOMAIN state'.running = DOMAIN state.running \cup {i}
  /\ Cardinality(DOMAIN state.running) < config
  /\ \A j \in DOMAIN state.running : state'.running[j] = state.running[j]

(* There are finitely many running entries.                                  *)
LEMMA RunningIsFinite ==
  ASSUME TypeOK
  PROVE  IsFiniteSet(DOMAIN state.running) /\ Cardinality(DOMAIN state.running) \in Nat
<1>1. DOMAIN state.running \subseteq Issues
  BY DEF TypeOK, StateOK, IsMap
<1> QED
  BY <1>1, OrchestratorAssumption, FS_Subset, FS_CardinalityType

(* A free slot, as the code counts it, is a slot below the limit.            *)
LEMMA SlotIsFree ==
  ASSUME TypeOK, NEW s, s.running = state.running, AvailableSlots(s) > 0
  PROVE  Cardinality(DOMAIN state.running) < config
<1>1. config \in Nat
  BY OrchestratorAssumption DEF TypeOK
<1> QED
  BY <1>1, RunningIsFinite DEF AvailableSlots

(* A dispatch of an issue that does not run, with a slot free.               *)
LEMMA DispatchStarts ==
  ASSUME TypeOK, NEW i \in Issues, NEW s, StateOK(s), s.running = state.running,
         i \notin DOMAIN s.running, AvailableSlots(s) > 0, DispatchWorker(s, i)
  PROVE  Starts(i)
<1>1. /\ DOMAIN state'.running = DOMAIN s.running \cup {i}
      /\ \A j \in DOMAIN s.running : j # i => state'.running[j] = s.running[j]
  BY DispatchStep DEF TypeOK
<1>2. Cardinality(DOMAIN state.running) < config
  BY SlotIsFree
<1> QED
  BY <1>1, <1>2 DEF Starts

(* The steps of a tick.                                                      *)
LEMMA TickOnRunning ==
  ASSUME TypeOK, Tick
  PROVE  Shrinks \/ \E i \in Issues : Starts(i)
<1>1. ASSUME UNCHANGED state PROVE Shrinks
  BY <1>1 DEF Shrinks
<1>2. ASSUME NEW i \in todo, TerminateClosed(i) PROVE Shrinks
  <2>1. state'.running = state.running
    BY <1>2, ReleaseKeepsState DEF TypeOK, TerminateClosed
  <2> QED
    BY <2>1 DEF Shrinks
<1>3. ASSUME NEW i \in todo, TerminateStalled(i) PROVE Shrinks
  <2>1. state'.running = Without(state.running, i)
    BY <1>3, AfterStallState DEF TypeOK, TerminateStalled
  <2> QED
    BY <2>1 DEF Shrinks, Without
<1>4. ASSUME NEW i \in todo, RetryDispatch(i) PROVE Starts(i)
  <2> DEFINE s == RemoveRetry(state, i)
  <2>1. /\ StateOK(s) /\ s.running = state.running
    BY ReleaseKeepsState DEF TypeOK
  <2>2. /\ i \notin DOMAIN s.running /\ AvailableSlots(s) > 0 /\ DispatchWorker(s, i)
    BY <1>4 DEF RetryDispatch, MayRetry
  <2>3. i \in Issues
    BY DEF TypeOK
  <2> HIDE DEF s
  <2> QED
    BY <2>1, <2>2, <2>3, DispatchStarts
<1>5. ASSUME NEW i \in todo, RetryRelease(i) PROVE Shrinks
  <2>1. state'.running = state.running
    BY <1>5, ReleaseKeepsState DEF TypeOK, RetryRelease
  <2> QED
    BY <2>1 DEF Shrinks
<1>6. ASSUME NEW i \in Issues, CanDispatch(state, i), DispatchWorker(state, i) PROVE Starts(i)
  BY <1>6, DispatchStarts DEF TypeOK, CanDispatch
<1>7. CASE DispatchCandidate
  <2>1. todo \in SUBSET Nat /\ todo # {} /\ todo \subseteq Issues
    BY <1>7, OrchestratorAssumption DEF TypeOK, DispatchCandidate
  <2>2. First(todo) \in Issues
    BY <2>1, FirstIsLeast
  <2> QED
    BY <1>6, <1>7, <2>2 DEF DispatchCandidate
<1>8. ASSUME NEW i \in todo, FixPrDispatch(i) PROVE Starts(i)
  BY <1>6, <1>8 DEF TypeOK, FixPrDispatch
<1>9. todo \subseteq Issues
  BY DEF TypeOK
<1> QED
  BY <1>1, <1>2, <1>3, <1>4, <1>5, <1>7, <1>8, <1>9
     DEF Tick, FetchRunning, FindStalled, FetchDue, FetchFixPr, FixPrSkip, FetchCandidates,
         EndOfTick

(* All steps.                                                                *)
LEMMA StepOnRunning ==
  ASSUME TypeOK, [Next]_vars
  PROVE  Shrinks \/ \E i \in Issues : Starts(i)
<1>1. ASSUME UNCHANGED state PROVE Shrinks
  BY <1>1 DEF Shrinks
<1>2. CASE Receive
  <2>1. CASE ReceivePollTick
    BY <1>1, <2>1 DEF ReceivePollTick
  <2>2. CASE ReceiveWorkerExit
    <3>1. Head(mailbox).issue \in Issues
      BY <2>2, ReceivedMessage DEF TypeOK, ReceiveWorkerExit
    <3>2. state' = state \/ state'.running = Without(state.running, Head(mailbox).issue)
      BY <2>2, <3>1, ExitKeepsState DEF TypeOK, ReceiveWorkerExit
    <3> QED
      BY <1>1, <3>2 DEF Shrinks, Without
  <2>3. CASE ReceiveAgentUpdate
    BY <2>3 DEF TypeOK, StateOK, IsMap, RunningEntry, ReceiveAgentUpdate, ApplyAgentUpdate,
                Shrinks
  <2>4. CASE ReceiveTerminateWorker
    <3>1. state'.running = state.running
      BY <2>4, ReleaseKeepsState DEF TypeOK, ReceiveTerminateWorker
    <3> QED
      BY <3>1 DEF Shrinks
  <2> QED
    BY <1>2, <2>1, <2>2, <2>3, <2>4 DEF Receive
<1>3. CASE Worker
  BY <1>1, <1>3 DEF Worker, StartAgent, SetupFails, SendWorkerExit, AgentSpeaks, AgentReturns,
                    ForwardUpdate
<1>4. CASE Environment
  <2>1. ASSUME NEW i \in Issues, BecomesDue(i) PROVE Shrinks
    BY <2>1 DEF TypeOK, StateOK, BecomesDue, Shrinks
  <2>2. ASSUME NEW i \in Issues, BecomesQuiet(i) PROVE Shrinks
    BY <2>2 DEF TypeOK, StateOK, IsMap, RunningEntry, BecomesQuiet, Shrinks
  <2> QED
    BY <1>1, <1>4, <2>1, <2>2 DEF Environment, TimerTick, Reload, TrackerChanges
<1>5. CASE Process
  <2>1. ASSUME ProcessDies PROVE Shrinks
    BY <2>1, EmptyIsMap DEF ProcessDies, Shrinks
  <2> QED
    BY <1>1, <1>5, <2>1 DEF Process, OrchestratorReturns, MainExits, Restart
<1> QED
  BY <1>1, <1>2, <1>3, <1>4, <1>5, TickOnRunning DEF Next, vars

(* What the two kinds of step do to the number of running entries.           *)
LEMMA StepOnCount ==
  ASSUME TypeOK, [Next]_vars
  PROVE  \/ Cardinality(DOMAIN state'.running) <= Cardinality(DOMAIN state.running)
         \/ Cardinality(DOMAIN state'.running) <= config
<1>1. CASE Shrinks
  <2>1. DOMAIN state'.running \subseteq DOMAIN state.running
    BY <1>1 DEF Shrinks
  <2> QED
    BY <2>1, RunningIsFinite, FS_Subset
<1>2. ASSUME NEW i \in Issues, Starts(i)
      PROVE  Cardinality(DOMAIN state'.running) <= config
  <2>1. Cardinality(DOMAIN state'.running) = Cardinality(DOMAIN state.running) + 1
    BY <1>2, RunningIsFinite, FS_AddElement DEF Starts
  <2>2. config \in Nat
    BY OrchestratorAssumption DEF TypeOK
  <2> QED
    BY <1>2, <2>1, <2>2, RunningIsFinite DEF Starts
<1> QED
  BY <1>1, <1>2, StepOnRunning

(* The workers running never outnumber every limit configured, even when the *)
(* file is reloaded between a tick's checks and its dispatches.              *)
THEOREM RunningIsBounded == Spec => []ConcurrencyBound
<1>1. Init => ConcurrencyBound
  BY EmptyIsMap, FS_EmptySet, OrchestratorAssumption DEF Init, ConcurrencyBound
<1>2. TypeOK /\ TypeOK' /\ ConcurrencyBound /\ [Next]_vars => ConcurrencyBound'
  <2> SUFFICES ASSUME TypeOK, TypeOK', ConcurrencyBound, [Next]_vars
               PROVE  ConcurrencyBound'
    OBVIOUS
  <2>1. PICK limit \in Limits : Cardinality(DOMAIN state.running) <= limit
    BY DEF ConcurrencyBound
  <2>2. /\ Cardinality(DOMAIN state.running) \in Nat
        /\ Cardinality(DOMAIN state'.running) \in Nat
        /\ limit \in Nat /\ config \in Limits
    <3>1. DOMAIN state'.running \subseteq Issues
      BY DEF TypeOK, StateOK, IsMap
    <3> QED
      BY <3>1, RunningIsFinite, OrchestratorAssumption, FS_Subset, FS_CardinalityType
         DEF TypeOK
  <2>3. \/ Cardinality(DOMAIN state'.running) <= limit
        \/ Cardinality(DOMAIN state'.running) <= config
    BY <2>1, <2>2, StepOnCount
  <2> QED
    BY <2>2, <2>3 DEF ConcurrencyBound
<1> QED
  BY <1>1, <1>2, TypesHold, PTL DEF Spec

(* A worker is started only below the limit its tick began with.             *)
THEOREM DispatchObeysLimit == Spec => DispatchWithinLimit
<1>1. TypeOK /\ TypeOK' /\ [Next]_vars
        => (Cardinality(DOMAIN state'.running) > Cardinality(DOMAIN state.running)
              => Cardinality(DOMAIN state'.running) <= config)
  <2> SUFFICES ASSUME TypeOK, TypeOK', [Next]_vars,
                      Cardinality(DOMAIN state'.running) > Cardinality(DOMAIN state.running)
               PROVE  Cardinality(DOMAIN state'.running) <= config
    OBVIOUS
  <2>1. DOMAIN state'.running \subseteq Issues
    BY DEF TypeOK, StateOK, IsMap
  <2>2. Cardinality(DOMAIN state'.running) \in Nat
    BY <2>1, OrchestratorAssumption, FS_Subset, FS_CardinalityType
  <2> QED
    BY <2>2, RunningIsFinite, StepOnCount
<1> QED
  BY <1>1, TypesHold, PTL DEF Spec, DispatchWithinLimit

(* A running entry's worker is never exchanged for another.                  *)
THEOREM RunStays == Spec => RunIsNotReplaced
<1>1. TypeOK /\ [Next]_vars
        => \A i \in DOMAIN state.running \cap DOMAIN state'.running :
             state'.running[i].run = state.running[i].run
  BY StepOnRunning DEF Shrinks, Starts
<1> QED
  BY <1>1, TypesHold, PTL DEF Spec, RunIsNotReplaced
=============================================================================
