------------------------- MODULE OrchestratorWorkers -------------------------
(***************************************************************************)
(* Proofs about the workers of Orchestrator: while no issue has been        *)
(* reopened, an issue has one worker, which can be aborted, and the workers *)
(* at work obey the limit.                                                  *)
(*                                                                         *)
(* The danger is the exit message of a former worker: it names the issue    *)
(* only, and whoever receives it takes it for that of the present worker.   *)
(* So what has to be shown is that an issue is dispatched only when nothing *)
(* remains of its last worker, neither the task nor its message.            *)
(***************************************************************************)
EXTENDS OrchestratorProofs

-----------------------------------------------------------------------------
(* What remains of a worker of an issue: its task, in any phase, or its exit. *)
IsExit(m, i) == m \in {WorkerExit(i, reason) : reason \in Reasons}

Remains(i) == \/ \E r \in DOMAIN workers : workers[r].issue = i
              \/ \E k \in DOMAIN mailbox : IsExit(mailbox[k], i)

(* Of an issue there is one task, or one exit message, and not both.          *)
OneRemains ==
  \A i \in Issues :
    /\ \A q, r \in DOMAIN workers : workers[q].issue = i /\ workers[r].issue = i => q = r
    /\ \A k, l \in DOMAIN mailbox :
         IsExit(mailbox[k], i) /\ IsExit(mailbox[l], i) => k = l
    /\ \A r \in DOMAIN workers, k \in DOMAIN mailbox :
         ~(workers[r].issue = i /\ IsExit(mailbox[k], i))

(* A closed issue which the present tick has not collected while it was open. *)
Gone(i) == tracker[i] = "closed" /\ (pc \in {"fix_pr", "candidates"} => i \notin todo)

(* Where something remains, something keeps dispatches away: the running      *)
(* entry, a claim without a retry (left by the stall check) or that the issue *)
(* is closed for good.                                                       *)
Accounted ==
  \A i \in Issues : Remains(i) =>
    /\ i \notin DOMAIN state.retry_attempts
    /\ i \in DOMAIN state.running \/ i \in state.claimed \/ Gone(i)

(* Claims of running issues are released for closed issues only, ...          *)
UnclaimedIsClosed ==
  \A i \in DOMAIN state.running : i \in state.claimed \/ tracker[i] = "closed"

(* ... also by the message the tick leaves for later.                         *)
TerminatedIsClosed ==
  /\ \A i \in Issues, k \in DOMAIN mailbox :
       mailbox[k] = TerminateWorker(i) => tracker[i] = "closed"
  /\ pc = "terminate" => \A i \in todo : tracker[i] = "closed"

(* A worker at an await has its handle.                                       *)
Handled ==
  \A r \in DOMAIN workers : workers[r].phase \in Pending =>
    /\ workers[r].issue \in DOMAIN worker_handles
    /\ worker_handles[workers[r].issue] = r

Apart == OneRemains /\ Accounted /\ UnclaimedIsClosed /\ TerminatedIsClosed /\ Handled

-----------------------------------------------------------------------------
(* The channel.                                                              *)

(* Receiving takes the first message away and moves the others up.           *)
LEMMA TailMessages ==
  ASSUME mailbox \in Seq(Messages), mailbox # <<>>, mailbox' = Tail(mailbox)
  PROVE  /\ \A k \in DOMAIN mailbox' : /\ k + 1 \in DOMAIN mailbox
                                       /\ mailbox'[k] = mailbox[k + 1]
                                       /\ k \in Nat /\ k + 1 # 1
         /\ 1 \in DOMAIN mailbox /\ mailbox[1] = Head(mailbox)
  OBVIOUS

(* Sending puts a message behind the others.                                 *)
LEMMA AppendedMessages ==
  ASSUME mailbox \in Seq(Messages), NEW m \in Messages, mailbox' = Append(mailbox, m)
  PROVE  \A k \in DOMAIN mailbox' :
           \/ k \in DOMAIN mailbox /\ mailbox'[k] = mailbox[k]
           \/ k = Len(mailbox) + 1 /\ k \notin DOMAIN mailbox /\ mailbox'[k] = m
  OBVIOUS

(* Messages of different kinds, or about different issues, are different.     *)
LEMMA MessagesDiffer ==
  ASSUME NEW i, NEW j, NEW reason
  PROVE  /\ IsExit(WorkerExit(i, reason), j) => i = j
         /\ reason \in Reasons => IsExit(WorkerExit(i, reason), i)
         /\ ~IsExit(PollTick, j) /\ ~IsExit(AgentUpdate(i), j) /\ ~IsExit(TerminateWorker(i), j)
         /\ TerminateWorker(i) = TerminateWorker(j) => i = j
         /\ TerminateWorker(i) # PollTick /\ TerminateWorker(i) # AgentUpdate(j)
         /\ TerminateWorker(i) # WorkerExit(j, reason)
<1>1. IsExit(WorkerExit(i, reason), j) => i = j
  BY DEF IsExit, WorkerExit
<1>2. reason \in Reasons => IsExit(WorkerExit(i, reason), i)
  BY DEF IsExit
<1>3. ~IsExit(PollTick, j) /\ ~IsExit(AgentUpdate(i), j) /\ ~IsExit(TerminateWorker(i), j)
  <2>1. \A m : IsExit(m, j) => m.type = "WorkerExit"
    BY DEF IsExit, WorkerExit
  <2> QED
    BY <2>1 DEF PollTick, AgentUpdate, TerminateWorker
<1>4. TerminateWorker(i) = TerminateWorker(j) => i = j
  BY DEF TerminateWorker
<1>5. TerminateWorker(i).type = "TerminateWorker"
  BY DEF TerminateWorker
<1>6. PollTick.type # "TerminateWorker" /\ AgentUpdate(j).type # "TerminateWorker"
      /\ WorkerExit(j, reason).type # "TerminateWorker"
  BY DEF PollTick, AgentUpdate, WorkerExit
<1> QED
  BY <1>1, <1>2, <1>3, <1>4, <1>5, <1>6

(* What a step may do to the channel without adding an exit.                 *)
NoExitSent == \/ mailbox' = mailbox
              \/ mailbox # <<>> /\ mailbox' = Tail(mailbox)
              \/ \E m \in Messages : /\ mailbox' = Append(mailbox, m)
                                     /\ \A i \in Issues : ~IsExit(m, i)

(* Without a new task or exit nothing new remains.                           *)
LEMMA NothingNewRemains ==
  ASSUME mailbox \in Seq(Messages), OneRemains, NoExitSent,
         DOMAIN workers' \subseteq DOMAIN workers,
         \A r \in DOMAIN workers' : workers'[r].issue = workers[r].issue
  PROVE  /\ OneRemains'
         /\ \A i \in Issues : Remains(i)' => Remains(i)
<1>1. CASE mailbox' = mailbox
  BY <1>1 DEF OneRemains, Remains
<1>2. CASE mailbox # <<>> /\ mailbox' = Tail(mailbox)
  <2>1. \A k \in DOMAIN mailbox' : /\ k + 1 \in DOMAIN mailbox /\ k \in Nat
                                   /\ mailbox'[k] = mailbox[k + 1]
    BY <1>2, TailMessages
  <2>2. \A i \in Issues : Remains(i)' => Remains(i)
    BY <2>1 DEF Remains
  <2>3. OneRemains'
    <3> SUFFICES ASSUME NEW i \in Issues
                 PROVE  /\ \A q, r \in DOMAIN workers' :
                             workers'[q].issue = i /\ workers'[r].issue = i => q = r
                        /\ \A k, l \in DOMAIN mailbox' :
                             IsExit(mailbox'[k], i) /\ IsExit(mailbox'[l], i) => k = l
                        /\ \A r \in DOMAIN workers', k \in DOMAIN mailbox' :
                             ~(workers'[r].issue = i /\ IsExit(mailbox'[k], i))
      BY DEF OneRemains
    <3>1. \A q, r \in DOMAIN workers' :
            workers'[q].issue = i /\ workers'[r].issue = i => q = r
      BY DEF OneRemains
    <3>2. ASSUME NEW k \in DOMAIN mailbox', NEW l \in DOMAIN mailbox',
                 IsExit(mailbox'[k], i), IsExit(mailbox'[l], i)
          PROVE  k = l
      <4>1. k + 1 = l + 1
        BY <2>1, <3>2 DEF OneRemains
      <4> QED
        BY <2>1, <4>1
    <3>3. \A r \in DOMAIN workers', k \in DOMAIN mailbox' :
            ~(workers'[r].issue = i /\ IsExit(mailbox'[k], i))
      BY <2>1 DEF OneRemains
    <3> QED
      BY <3>1, <3>2, <3>3
  <2> QED
    BY <2>2, <2>3
<1>3. ASSUME NEW m \in Messages, mailbox' = Append(mailbox, m), \A i \in Issues : ~IsExit(m, i)
      PROVE  OneRemains' /\ \A i \in Issues : Remains(i)' => Remains(i)
  <2>1. \A i \in Issues, k \in DOMAIN mailbox' :
          IsExit(mailbox'[k], i) => k \in DOMAIN mailbox /\ mailbox'[k] = mailbox[k]
    BY <1>3, AppendedMessages
  <2> QED
    BY <2>1 DEF OneRemains, Remains
<1> QED
  BY <1>1, <1>2, <1>3 DEF NoExitSent

(* A message that ends no worker's issue leaves the terminations sent as they *)
(* are; receiving loses one at most.                                         *)
NoTerminationSent ==
  \A i \in Issues, k \in DOMAIN mailbox' :
    mailbox'[k] = TerminateWorker(i) =>
      \E l \in DOMAIN mailbox : mailbox[l] = TerminateWorker(i)

LEMMA NoNewTermination ==
  ASSUME mailbox \in Seq(Messages),
         \/ mailbox' = mailbox
         \/ mailbox # <<>> /\ mailbox' = Tail(mailbox)
         \/ \E m \in Messages : /\ mailbox' = Append(mailbox, m)
                                /\ \A i \in Issues : m # TerminateWorker(i)
  PROVE  NoTerminationSent
<1>1. CASE mailbox' = mailbox
  BY <1>1 DEF NoTerminationSent
<1>2. CASE mailbox # <<>> /\ mailbox' = Tail(mailbox)
  BY <1>2, TailMessages DEF NoTerminationSent
<1>3. ASSUME NEW m \in Messages, mailbox' = Append(mailbox, m),
             \A i \in Issues : m # TerminateWorker(i)
      PROVE  NoTerminationSent
  BY <1>3, AppendedMessages DEF NoTerminationSent
<1> QED
  BY <1>1, <1>2, <1>3

(* A worker's exit takes the place of its task.                              *)
LEMMA ExitTakesPlace ==
  ASSUME TypeOK, OneRemains, NEW r \in DOMAIN workers, SendWorkerExit(r)
  PROVE  /\ OneRemains'
         /\ \A i \in Issues : Remains(i)' => Remains(i)
<1> DEFINE j == workers[r].issue
           m == WorkerExit(j, workers[r].phase)
<1>1. mailbox \in Seq(Messages) /\ j \in Issues /\ workers[r].phase \in Reasons
  BY DEF TypeOK, IsMap, Task, SendWorkerExit
<1>2. m \in Messages
  BY <1>1 DEF WorkerExit, Messages
<1>3. \A i \in Issues : IsExit(m, i) => i = j
  BY MessagesDiffer
<1>4. DOMAIN workers' = DOMAIN workers \ {r} /\ \A q \in DOMAIN workers' : workers'[q] = workers[q]
  BY DEF SendWorkerExit, Without
<1>5. mailbox' = Append(mailbox, m)
  BY DEF SendWorkerExit
<1> HIDE DEF m
<1>6. \A k \in DOMAIN mailbox' :
        \/ k \in DOMAIN mailbox /\ mailbox'[k] = mailbox[k]
        \/ k = Len(mailbox) + 1 /\ mailbox'[k] = m
  BY <1>1, <1>2, <1>5, AppendedMessages
<1>7. \A i \in Issues : Remains(i)' => Remains(i)
  BY <1>3, <1>4, <1>6 DEF Remains
<1>8. ASSUME NEW i \in Issues
      PROVE  /\ \A p, q \in DOMAIN workers' :
                  workers'[p].issue = i /\ workers'[q].issue = i => p = q
             /\ \A k, l \in DOMAIN mailbox' :
                  IsExit(mailbox'[k], i) /\ IsExit(mailbox'[l], i) => k = l
             /\ \A q \in DOMAIN workers', k \in DOMAIN mailbox' :
                  ~(workers'[q].issue = i /\ IsExit(mailbox'[k], i))
  <2>1. CASE i = j
    <3>1. \A k \in DOMAIN mailbox : ~IsExit(mailbox[k], i)
      BY <1>1, <2>1 DEF OneRemains
    <3>2. \A q \in DOMAIN workers' : workers'[q].issue # i
      BY <1>1, <1>4, <2>1 DEF OneRemains
    <3> QED
      BY <1>6, <3>1, <3>2
  <2>2. CASE i # j
    BY <1>3, <1>4, <1>6, <2>2 DEF OneRemains
  <2> QED
    BY <2>1, <2>2
<1> QED
  BY <1>7, <1>8 DEF OneRemains

(* A dispatch of an issue of which nothing remains.                          *)
LEMMA DispatchAddsOne ==
  ASSUME TypeOK, Apart, NEW s, NEW i \in Issues, DispatchWorker(s, i), ~Remains(i),
         mailbox' = mailbox
  PROVE  /\ OneRemains' /\ Handled'
         /\ \A j \in Issues : Remains(j)' => j = i \/ Remains(j)
<1>1. PICK r \in FreeRuns : /\ workers' = With(workers, r, [issue |-> i, phase |-> "setup"])
                            /\ worker_handles' = With(worker_handles, i, r)
  BY DEF DispatchWorker
<1>2. /\ r \notin DOMAIN workers
      /\ DOMAIN workers' = DOMAIN workers \cup {r}
      /\ workers'[r].issue = i
      /\ \A q \in DOMAIN workers : workers'[q] = workers[q]
  BY <1>1 DEF FreeRuns, With
<1>3. /\ DOMAIN worker_handles' = DOMAIN worker_handles \cup {i} /\ worker_handles'[i] = r
      /\ \A j \in DOMAIN worker_handles : j # i => worker_handles'[j] = worker_handles[j]
  BY <1>1 DEF With
<1>4. \A q \in DOMAIN workers : workers[q].issue # i
  BY DEF Remains
<1>5. \A k \in DOMAIN mailbox : ~IsExit(mailbox[k], i)
  BY DEF Remains
<1>6. Handled'
  BY <1>2, <1>3, <1>4 DEF Apart, Handled
<1>7. \A j \in Issues : Remains(j)' => j = i \/ Remains(j)
  BY <1>2 DEF Remains
<1>8. OneRemains'
  BY <1>2, <1>4, <1>5 DEF Apart, OneRemains
<1> QED
  BY <1>6, <1>7, <1>8

-----------------------------------------------------------------------------
(* Steps, while nothing is reopened: what is closed stays closed.             *)

ClosedStays == \A i \in Issues : tracker[i] = "closed" => tracker'[i] = "closed"

(* What a tick has not collected, it does not collect once it is closed.      *)
GoneStays == \A i \in Issues : Gone(i) => Gone(i)'

(* No worker comes to an await, or changes its issue.                         *)
NoneStarts ==
  \A r \in DOMAIN workers' :
    /\ r \in DOMAIN workers /\ workers'[r].issue = workers[r].issue
    /\ workers'[r].phase \in Pending => workers[r].phase \in Pending

(* Steps that leave running entries, claims, retries and handles where they   *)
(* are.                                                                      *)
LEMMA QuietStepKeepsApart ==
  ASSUME TypeOK, Apart,
         \/ NoExitSent
         \/ OneRemains' /\ \A i \in Issues : (Remains(i)' => Remains(i)),
         DOMAIN state'.running = DOMAIN state.running,
         state'.claimed = state.claimed,
         DOMAIN state'.retry_attempts = DOMAIN state.retry_attempts,
         worker_handles' = worker_handles,
         ClosedStays, GoneStays, NoneStarts, NoTerminationSent,
         pc' = "terminate" => \A i \in todo' : tracker'[i] = "closed"
  PROVE  Apart'
<1>1. /\ DOMAIN workers' \subseteq DOMAIN workers
      /\ \A r \in DOMAIN workers' : workers'[r].issue = workers[r].issue
  BY DEF NoneStarts
<1>2. OneRemains' /\ \A i \in Issues : Remains(i)' => Remains(i)
  BY <1>1, NothingNewRemains DEF TypeOK, Apart
<1>3. Accounted'
  BY <1>2 DEF Apart, Accounted, GoneStays
<1>4. DOMAIN state.running \subseteq Issues
  BY DEF TypeOK, StateOK, IsMap
<1>5. UnclaimedIsClosed'
  BY <1>4 DEF Apart, UnclaimedIsClosed, ClosedStays
<1>6. TerminatedIsClosed'
  BY DEF Apart, TerminatedIsClosed, ClosedStays, NoTerminationSent
<1>7. Handled'
  BY DEF Apart, Handled, NoneStarts
<1> QED
  BY <1>2, <1>3, <1>5, <1>6, <1>7 DEF Apart

(* Aborts: the handle goes, and the worker with it unless it is past its last *)
(* await.                                                                    *)
LEMMA AbortKeepsHandled ==
  ASSUME TypeOK, Handled, NEW i \in Issues, AbortWorker(i)
  PROVE  Handled' /\ NoneStarts
<1>1. worker_handles' = Without(worker_handles, i)
  BY DEF AbortWorker
<1>2. /\ DOMAIN workers' \subseteq DOMAIN workers
      /\ \A r \in DOMAIN workers' : workers'[r] = workers[r]
  BY DEF AbortWorker, Without
<1>3. ASSUME NEW r \in DOMAIN workers', workers'[r].phase \in Pending, workers[r].issue = i
      PROVE  FALSE
  <2>1. i \in DOMAIN worker_handles /\ worker_handles[i] = r
    BY <1>2, <1>3 DEF Handled
  <2>2. workers' = Without(workers, r)
    BY <1>2, <1>3, <2>1 DEF AbortWorker
  <2> QED
    BY <1>3, <2>2 DEF Without
<1>4. Handled'
  BY <1>1, <1>2, <1>3 DEF Handled, Without
<1> QED
  BY <1>2, <1>4 DEF NoneStarts

(* A closed issue is terminated: at once in a tick, again by the message.     *)
LEMMA TerminationKeepsApart ==
  ASSUME TypeOK, Apart, NEW i \in Issues, tracker[i] = "closed",
         AbortWorker(i), state' = ReleaseClaim(state, i),
         pc' = pc, pc \notin {"fix_pr", "candidates"}, todo' \subseteq todo, tracker' = tracker,
         \/ mailbox # <<>> /\ mailbox' = Tail(mailbox)
         \/ mailbox' = Append(mailbox, TerminateWorker(i))
  PROVE  Apart'
<1>1. /\ state'.running = state.running /\ state'.claimed = state.claimed \ {i}
      /\ DOMAIN state'.retry_attempts = DOMAIN state.retry_attempts \ {i}
  <2>1. state' = [running |-> state.running, claimed |-> state.claimed \ {i},
                  retry_attempts |-> Without(state.retry_attempts, i)]
    BY ReleaseKeepsState DEF TypeOK
  <2> QED
    BY <2>1 DEF Without
<1>2. Handled' /\ NoneStarts
  BY AbortKeepsHandled DEF Apart
<1>3. TerminateWorker(i) \in Messages
  BY DEF TerminateWorker, Messages
<1>4. NoExitSent
  BY <1>3, MessagesDiffer DEF NoExitSent
<1>5. OneRemains' /\ \A j \in Issues : Remains(j)' => Remains(j)
  BY <1>2, <1>4, NothingNewRemains DEF TypeOK, Apart, NoneStarts
<1>6. Accounted'
  BY <1>1, <1>5 DEF Apart, Accounted, Gone
<1>7. UnclaimedIsClosed'
  BY <1>1 DEF Apart, UnclaimedIsClosed
<1>8. TerminatedIsClosed'
  <2>1. ASSUME NEW j \in Issues, NEW k \in DOMAIN mailbox', mailbox'[k] = TerminateWorker(j)
        PROVE  tracker[j] = "closed"
    <3>1. CASE mailbox # <<>> /\ mailbox' = Tail(mailbox)
      BY <2>1, <3>1, TailMessages DEF TypeOK, Apart, TerminatedIsClosed
    <3>2. CASE mailbox' = Append(mailbox, TerminateWorker(i))
      <4>1. \/ k \in DOMAIN mailbox /\ mailbox'[k] = mailbox[k]
            \/ mailbox'[k] = TerminateWorker(i)
        BY <1>3, <3>2, AppendedMessages DEF TypeOK
      <4> QED
        BY <2>1, <4>1, MessagesDiffer DEF Apart, TerminatedIsClosed
    <3> QED
      BY <3>1, <3>2
  <2> QED
    BY <2>1 DEF Apart, TerminatedIsClosed
<1> QED
  BY <1>2, <1>5, <1>6, <1>7, <1>8 DEF Apart

(* A stalled issue loses entry and handle; a claim it has, it keeps.          *)
LEMMA StallKeepsApart ==
  ASSUME TypeOK, Coupled, Apart, NEW i \in todo, TerminateStalled(i)
  PROVE  Apart'
<1>1. i \in Issues /\ AbortWorker(i) /\ pc = "stall"
  BY DEF TypeOK, TerminateStalled
<1>2. /\ state'.running = Without(state.running, i) /\ state'.claimed = state.claimed
      /\ state'.retry_attempts = state.retry_attempts
  BY <1>1, AfterStallState DEF TypeOK, TerminateStalled
<1>3. DOMAIN state'.running = DOMAIN state.running \ {i}
  BY <1>2 DEF Without
<1>4. Handled' /\ NoneStarts
  BY <1>1, AbortKeepsHandled DEF Apart
<1>5. NoExitSent
  BY DEF TerminateStalled, NoExitSent
<1>6. OneRemains' /\ \A j \in Issues : Remains(j)' => Remains(j)
  BY <1>4, <1>5, NothingNewRemains DEF TypeOK, Apart, NoneStarts
<1>7. UNCHANGED <<mailbox, tracker, pc>>
  BY DEF TerminateStalled
<1>8. Accounted'
  BY <1>1, <1>2, <1>3, <1>6, <1>7 DEF Apart, Accounted, UnclaimedIsClosed, Gone
<1>9. UnclaimedIsClosed' /\ TerminatedIsClosed'
  BY <1>1, <1>2, <1>3, <1>7 DEF Apart, UnclaimedIsClosed, TerminatedIsClosed
<1> QED
  BY <1>4, <1>6, <1>8, <1>9 DEF Apart

(* A dispatch: nothing remains of the issue's last worker, because it waits   *)
(* for a retry, or is neither claimed nor running nor gone.                   *)
LEMMA DispatchKeepsApart ==
  ASSUME TypeOK, Apart, NEW i \in Issues, NEW s, s \in {state, RemoveRetry(state, i)},
         DispatchWorker(s, i), ~Remains(i),
         todo' \subseteq todo, UNCHANGED <<mailbox, tracker, pc>>
  PROVE  Apart'
<1>1. /\ StateOK(s) /\ s.running = state.running /\ s.claimed = state.claimed
      /\ DOMAIN s.retry_attempts \subseteq DOMAIN state.retry_attempts
  <2>1. RemoveRetry(state, i) = [running |-> state.running, claimed |-> state.claimed,
                                 retry_attempts |-> Without(state.retry_attempts, i)]
    BY ReleaseKeepsState DEF TypeOK
  <2>2. StateOK(RemoveRetry(state, i)) /\ StateOK(state)
    BY ReleaseKeepsState DEF TypeOK
  <2> QED
    BY <2>1, <2>2 DEF Without
<1>2. /\ state'.claimed = s.claimed \cup {i}
      /\ state'.retry_attempts = Without(s.retry_attempts, i)
      /\ DOMAIN state'.running = DOMAIN s.running \cup {i}
  BY <1>1, DispatchStep DEF TypeOK
<1>3. /\ OneRemains' /\ Handled'
      /\ \A j \in Issues : Remains(j)' => j = i \/ Remains(j)
  BY DispatchAddsOne
<1>4. DOMAIN state'.retry_attempts \subseteq DOMAIN state.retry_attempts \ {i}
  BY <1>1, <1>2 DEF Without
<1>5. Accounted'
  BY <1>1, <1>2, <1>3, <1>4 DEF Apart, Accounted, Gone
<1>6. UnclaimedIsClosed' /\ TerminatedIsClosed'
  BY <1>1, <1>2 DEF Apart, UnclaimedIsClosed, TerminatedIsClosed
<1> QED
  BY <1>3, <1>5, <1>6 DEF Apart

(* The exit that arrives is the last thing that remained of the issue.        *)
LEMMA ExitKeepsApart ==
  ASSUME TypeOK, Coupled, Apart, ReceiveWorkerExit
  PROVE  Apart'
<1>. PICK i \in Issues : i = Head(mailbox).issue
  BY ReceivedMessage DEF TypeOK, ReceiveWorkerExit
<1>1. /\ pc = "recv" /\ mailbox # <<>> /\ mailbox' = Tail(mailbox)
      /\ mailbox \in Seq(Messages) /\ Head(mailbox) \in Messages
      /\ Head(mailbox).type = "WorkerExit"
  <2>1. mailbox # <<>> /\ mailbox \in Seq(Messages)
    BY DEF TypeOK, ReceiveWorkerExit, Receives
  <2>2. Head(mailbox) \in Messages
    BY <2>1
  <2> QED
    BY <2>1, <2>2 DEF ReceiveWorkerExit, Receives
<1>2. IsExit(Head(mailbox), i)
  BY <1>1 DEF Messages, IsExit, WorkerExit, PollTick
<1>3. 1 \in DOMAIN mailbox /\ IsExit(mailbox[1], i)
  BY <1>1, <1>2, TailMessages
<1>4. \A r \in DOMAIN workers : workers[r].issue # i
  BY <1>1, <1>3 DEF Apart, OneRemains
<1>5. UNCHANGED <<workers, tracker, todo>> /\ worker_handles' = Without(worker_handles, i)
  BY DEF ReceiveWorkerExit
<1>6. OneRemains' /\ \A j \in Issues : Remains(j)' => Remains(j)
  BY <1>1, <1>5, NothingNewRemains DEF Apart, NoExitSent
<1>7. ~Remains(i)'
  <2>1. \A k \in DOMAIN mailbox' : ~IsExit(mailbox'[k], i)
    <3>1. ASSUME NEW k \in DOMAIN mailbox', IsExit(mailbox'[k], i) PROVE FALSE
      <4>1. k + 1 \in DOMAIN mailbox /\ mailbox'[k] = mailbox[k + 1] /\ k + 1 # 1
        BY <1>1, TailMessages
      <4> QED
        BY <1>1, <1>3, <3>1, <4>1 DEF Apart, OneRemains
    <3> QED
      BY <3>1
  <2> QED
    BY <1>4, <1>5, <2>1 DEF Remains
<1>8. /\ \A j \in Issues : j # i => (j \in DOMAIN state'.running <=> j \in DOMAIN state.running)
      /\ i \in DOMAIN state'.running => state' = state
      /\ \A j \in Issues : j # i => (j \in state'.claimed <=> j \in state.claimed)
      /\ \A j \in Issues : j # i => (j \in DOMAIN state'.retry_attempts
                                       <=> j \in DOMAIN state.retry_attempts)
      /\ pc' \in {"recv", "sent"}
      /\ DOMAIN state'.running \subseteq Issues
  <2>1. CASE state' = state
    BY <1>1, <2>1 DEF ReceiveWorkerExit, TypeOK, StateOK, IsMap
  <2>2. CASE i \in DOMAIN state.running /\ state' = ApplyWorkerExit(state, i) /\ pc' = pc
    <3>1. /\ state'.running = Without(state.running, i)
          /\ state'.claimed = state.claimed \cup {i}
          /\ DOMAIN state'.retry_attempts = DOMAIN state.retry_attempts \cup {i}
      BY <1>1, <2>2, ExitKeepsState DEF TypeOK
    <3>2. DOMAIN state'.running = DOMAIN state.running \ {i}
      BY <3>1 DEF Without
    <3> QED
      BY <1>1, <2>2, <3>1, <3>2 DEF TypeOK, StateOK, IsMap
  <2> QED
    BY <2>1, <2>2 DEF ReceiveWorkerExit, ApplyWorkerExit
<1>9. Accounted'
  BY <1>1, <1>5, <1>6, <1>7, <1>8 DEF Apart, Accounted, Gone
<1>10. UnclaimedIsClosed'
  BY <1>5, <1>8 DEF Apart, UnclaimedIsClosed
<1>11. TerminatedIsClosed'
  <2>1. NoTerminationSent
    BY <1>1, NoNewTermination
  <2> QED
    BY <1>1, <1>5, <1>8, <2>1 DEF Apart, TerminatedIsClosed, NoTerminationSent
<1>12. Handled'
  BY <1>4, <1>5 DEF Apart, Handled, Without
<1> QED
  BY <1>6, <1>9, <1>10, <1>11, <1>12 DEF Apart

(* The message loop.                                                         *)
LEMMA ReceiveKeepsApart ==
  ASSUME TypeOK, Coupled, Apart, Receive
  PROVE  Apart'
<1>1. ASSUME NEW type, Receives(type)
      PROVE  /\ mailbox # <<>> /\ mailbox' = Tail(mailbox) /\ pc = "recv"
             /\ NoExitSent /\ NoTerminationSent
  <2>1. mailbox # <<>> /\ mailbox' = Tail(mailbox) /\ pc = "recv"
    BY <1>1 DEF Receives
  <2> QED
    BY <2>1, NoNewTermination DEF NoExitSent, TypeOK
<1>2. CASE ReceivePollTick
  <2>1. /\ UNCHANGED <<state, worker_handles, workers, tracker, todo>> /\ pc' = "reconcile"
        /\ NoExitSent /\ NoTerminationSent
    BY <1>1, <1>2 DEF ReceivePollTick
  <2>2. ClosedStays /\ GoneStays /\ NoneStarts
    BY <2>1 DEF ClosedStays, GoneStays, Gone, NoneStarts
  <2> QED
    BY <2>1, <2>2, QuietStepKeepsApart
<1>3. CASE ReceiveWorkerExit
  BY <1>3, ExitKeepsApart
<1>4. CASE ReceiveAgentUpdate
  <2>1. /\ UNCHANGED <<worker_handles, workers, tracker, todo, pc>> /\ pc = "recv"
        /\ NoExitSent /\ NoTerminationSent
        /\ state' = ApplyAgentUpdate(state, Head(mailbox).issue)
    BY <1>1, <1>4 DEF ReceiveAgentUpdate
  <2>2. /\ DOMAIN state'.running = DOMAIN state.running
        /\ state'.claimed = state.claimed /\ state'.retry_attempts = state.retry_attempts
    BY <2>1 DEF ApplyAgentUpdate, TypeOK, StateOK, IsMap
  <2>3. ClosedStays /\ GoneStays /\ NoneStarts
    BY <2>1 DEF ClosedStays, GoneStays, Gone, NoneStarts
  <2> QED
    BY <2>1, <2>2, <2>3, QuietStepKeepsApart
<1>5. CASE ReceiveTerminateWorker
  <2>. PICK i \in Issues : i = Head(mailbox).issue
    BY <1>5, ReceivedMessage DEF TypeOK, ReceiveTerminateWorker
  <2>1. /\ AbortWorker(i) /\ state' = ReleaseClaim(state, i)
        /\ mailbox # <<>> /\ mailbox' = Tail(mailbox) /\ pc = "recv"
        /\ UNCHANGED <<tracker, pc, todo>>
    BY <1>1, <1>5, ReceivedMessage DEF ReceiveTerminateWorker, TypeOK
  <2>2. Head(mailbox) = TerminateWorker(i)
    <3>1. Head(mailbox) \in Messages /\ Head(mailbox).type = "TerminateWorker"
      BY <1>5, <2>1 DEF TypeOK, ReceiveTerminateWorker, Receives
    <3> QED
      BY <3>1 DEF Messages, TerminateWorker, PollTick
  <2>3. 1 \in DOMAIN mailbox /\ mailbox[1] = TerminateWorker(i)
    BY <2>1, <2>2, TailMessages DEF TypeOK
  <2>4. tracker[i] = "closed"
    BY <2>1, <2>3 DEF Apart, TerminatedIsClosed
  <2> QED
    BY <2>1, <2>4, TerminationKeepsApart
<1> QED
  BY <1>2, <1>3, <1>4, <1>5 DEF Receive

(* The steps of a tick.                                                      *)
LEMMA TickKeepsApart ==
  ASSUME TypeOK, Coupled, Apart, Tick
  PROVE  Apart'
<1>1. ASSUME UNCHANGED <<state, worker_handles, mailbox, workers, tracker>>,
             \/ pc' \notin {"fix_pr", "candidates"}
             \/ \A i \in todo' : tracker[i] # "closed"
             \/ pc' = pc /\ todo' \subseteq todo,
             pc' = "terminate" => \A i \in todo' : tracker[i] = "closed"
      PROVE  Apart'
  <2>1. NoExitSent /\ NoTerminationSent /\ NoneStarts /\ ClosedStays
    BY <1>1 DEF NoExitSent, NoTerminationSent, NoneStarts, ClosedStays
  <2>2. GoneStays
    BY <1>1 DEF GoneStays, Gone
  <2> QED
    BY <1>1, <2>1, <2>2, QuietStepKeepsApart
<1>2. CASE FetchRunning
  BY <1>1, <1>2 DEF FetchRunning
<1>3. ASSUME NEW i \in todo, TerminateClosed(i) PROVE Apart'
  <2>1. i \in Issues /\ tracker[i] = "closed"
    BY <1>3 DEF TypeOK, TerminateClosed, Apart, TerminatedIsClosed
  <2> QED
    BY <1>3, <2>1, TerminationKeepsApart DEF TerminateClosed
<1>4. CASE FindStalled
  BY <1>1, <1>4 DEF FindStalled
<1>5. ASSUME NEW i \in todo, TerminateStalled(i) PROVE Apart'
  BY <1>5, StallKeepsApart
<1>6. CASE FetchDue
  BY <1>1, <1>6 DEF FetchDue
<1>7. ASSUME NEW i \in todo, RetryDispatch(i) PROVE Apart'
  <2>1. i \in Issues /\ ~Remains(i)
    BY <1>7 DEF TypeOK, RetryDispatch, Coupled, DueIsQueued, Apart, Accounted
  <2> QED
    BY <1>7, <2>1, DispatchKeepsApart DEF RetryDispatch
<1>8. ASSUME NEW i \in todo, RetryRelease(i) PROVE Apart'
  <2>1. i \in Issues /\ ~Remains(i) /\ i \notin DOMAIN state.running
    BY <1>8 DEF TypeOK, RetryRelease, Coupled, DueIsQueued, RetryHoldsClaim, Apart, Accounted
  <2>2. /\ state'.running = state.running /\ state'.claimed = state.claimed \ {i}
        /\ DOMAIN state'.retry_attempts = DOMAIN state.retry_attempts \ {i}
    <3>1. state' = ReleaseClaim(RemoveRetry(state, i), i)
      BY <1>8 DEF RetryRelease
    <3>2. /\ StateOK(RemoveRetry(state, i))
          /\ RemoveRetry(state, i) = [running |-> state.running, claimed |-> state.claimed,
                                      retry_attempts |-> Without(state.retry_attempts, i)]
      BY ReleaseKeepsState DEF TypeOK
    <3> DEFINE s == RemoveRetry(state, i)
    <3>3. state' = [running |-> s.running, claimed |-> s.claimed \ {i},
                    retry_attempts |-> Without(s.retry_attempts, i)]
      BY <3>1, <3>2, ReleaseKeepsState
    <3> QED
      BY <3>2, <3>3 DEF Without
  <2>3. UNCHANGED <<worker_handles, mailbox, workers, tracker, pc>> /\ todo' \subseteq todo
        /\ pc = "retries"
    BY <1>8 DEF RetryRelease
  <2>4. OneRemains' /\ \A j \in Issues : Remains(j)' => Remains(j) /\ j # i
    BY <2>1, <2>3 DEF Apart, OneRemains, Remains
  <2>5. Accounted'
    BY <2>1, <2>2, <2>3, <2>4 DEF Apart, Accounted, Gone
  <2>6. UnclaimedIsClosed' /\ TerminatedIsClosed' /\ Handled'
    BY <2>1, <2>2, <2>3 DEF Apart, UnclaimedIsClosed, TerminatedIsClosed, Handled
  <2> QED
    BY <2>4, <2>5, <2>6 DEF Apart
<1>9. CASE FetchFixPr
  <2>1. \A i \in todo' : tracker[i] # "closed"
    BY <1>9 DEF FetchFixPr
  <2> QED
    BY <1>1, <1>9, <2>1 DEF FetchFixPr
<1>10. ASSUME NEW i \in Issues, i \in todo, pc \in {"fix_pr", "candidates"},
              CanDispatch(state, i), DispatchWorker(state, i),
              todo' \subseteq todo, UNCHANGED <<mailbox, tracker, pc>>
       PROVE  Apart'
  <2>1. ~Remains(i)
    BY <1>10 DEF CanDispatch, Apart, Accounted, Gone
  <2> QED
    BY <1>10, <2>1, DispatchKeepsApart
<1>11. ASSUME NEW i \in todo, FixPrDispatch(i) PROVE Apart'
  BY <1>10, <1>11 DEF TypeOK, FixPrDispatch
<1>12. ASSUME NEW i \in todo, FixPrSkip(i) PROVE Apart'
  BY <1>1, <1>12 DEF FixPrSkip
<1>13. CASE FetchCandidates
  <2>1. \A i \in todo' : tracker[i] # "closed"
    BY <1>13 DEF FetchCandidates
  <2> QED
    BY <1>1, <1>13, <2>1 DEF FetchCandidates
<1>14. CASE DispatchCandidate
  <2>1. todo \in SUBSET Nat /\ todo # {} /\ todo \subseteq Issues
    BY <1>14, OrchestratorAssumption DEF TypeOK, DispatchCandidate
  <2>2. First(todo) \in todo
    BY <2>1, FirstIsLeast
  <2> QED
    BY <1>10, <1>14, <2>1, <2>2 DEF DispatchCandidate
<1>15. CASE EndOfTick
  BY <1>1, <1>15 DEF EndOfTick
<1> QED
  BY <1>2, <1>3, <1>4, <1>5, <1>6, <1>7, <1>8, <1>9, <1>11, <1>12, <1>13, <1>14, <1>15 DEF Tick

(* Worker tasks, forwarders and the world outside.                           *)
LEMMA WorkerKeepsApart ==
  ASSUME TypeOK, Apart, Worker
  PROVE  Apart'
<1>1. /\ UNCHANGED <<state, worker_handles, tracker, pc, todo>>
      /\ ClosedStays /\ GoneStays
      /\ pc' = "terminate" => \A i \in todo' : tracker'[i] = "closed"
  <2>1. UNCHANGED <<state, worker_handles, tracker, pc, todo>>
    BY DEF Worker, StartAgent, SetupFails, SendWorkerExit, AgentSpeaks, AgentReturns,
           ForwardUpdate
  <2> QED
    BY <2>1 DEF ClosedStays, GoneStays, Gone, Apart, TerminatedIsClosed
<1>2. ASSUME NEW r \in DOMAIN workers, NEW phase \in {"agent"} \cup Reasons,
             phase = "agent" => workers[r].phase = "setup",
             phase \in Reasons => workers[r].phase \in Pending,
             ToPhase(r, phase), UNCHANGED mailbox
      PROVE  NoneStarts /\ NoExitSent /\ NoTerminationSent
  <2>1. \A q \in DOMAIN workers : workers[q] \in Task
    BY DEF TypeOK, IsMap
  <2>2. NoneStarts
    BY <1>2, <2>1 DEF ToPhase, NoneStarts, Pending, Task
  <2> QED
    BY <1>2, <2>2 DEF NoExitSent, NoTerminationSent
<1>3. ASSUME NEW r \in DOMAIN workers, StartAgent(r) PROVE Apart'
  <2>1. NoneStarts /\ NoExitSent /\ NoTerminationSent
    BY <1>2, <1>3 DEF StartAgent, Reasons, Pending
  <2> QED
    BY <1>1, <2>1, QuietStepKeepsApart
<1>4. ASSUME NEW r \in DOMAIN workers, SetupFails(r) PROVE Apart'
  <2>1. NoneStarts /\ NoExitSent /\ NoTerminationSent
    BY <1>2, <1>4 DEF SetupFails, Reasons, Pending
  <2> QED
    BY <1>1, <2>1, QuietStepKeepsApart
<1>5. ASSUME NEW r \in DOMAIN workers, SendWorkerExit(r) PROVE Apart'
  <2>1. OneRemains' /\ \A i \in Issues : (Remains(i)' => Remains(i))
    BY <1>5, ExitTakesPlace DEF Apart
  <2>2. NoneStarts
    BY <1>5 DEF SendWorkerExit, NoneStarts, Without
  <2> DEFINE m == WorkerExit(workers[r].issue, workers[r].phase)
  <2>3. m \in Messages /\ mailbox' = Append(mailbox, m) /\ \A i \in Issues : m # TerminateWorker(i)
    BY <1>5, MessagesDiffer DEF SendWorkerExit, TypeOK, IsMap, Task, Messages, WorkerExit
  <2>4. NoTerminationSent
    BY <2>3, NoNewTermination DEF TypeOK
  <2> QED
    BY <1>1, <2>1, <2>2, <2>4, QuietStepKeepsApart
<1>6. ASSUME NEW r \in DOMAIN workers, AgentSpeaks(r) PROVE Apart'
  <2>1. NoneStarts /\ NoExitSent /\ NoTerminationSent
    BY <1>6 DEF AgentSpeaks, NoneStarts, NoExitSent, NoTerminationSent
  <2> QED
    BY <1>1, <2>1, QuietStepKeepsApart
<1>7. ASSUME NEW r \in DOMAIN workers, NEW reason \in Reasons, AgentReturns(r, reason)
      PROVE  Apart'
  <2>1. NoneStarts /\ NoExitSent /\ NoTerminationSent
    BY <1>2, <1>7 DEF AgentReturns, Reasons, Pending
  <2> QED
    BY <1>1, <2>1, QuietStepKeepsApart
<1>8. ASSUME NEW i \in Issues, ForwardUpdate(i) PROVE Apart'
  <2>1. /\ AgentUpdate(i) \in Messages /\ mailbox' = Append(mailbox, AgentUpdate(i))
        /\ \A j \in Issues : ~IsExit(AgentUpdate(i), j) /\ AgentUpdate(i) # TerminateWorker(j)
    BY <1>8, MessagesDiffer DEF ForwardUpdate, AgentUpdate, Messages
  <2>2. NoneStarts /\ NoExitSent /\ NoTerminationSent
    BY <1>8, <2>1, NoNewTermination DEF ForwardUpdate, NoneStarts, NoExitSent, TypeOK
  <2> QED
    BY <1>1, <2>2, QuietStepKeepsApart
<1> QED
  BY <1>3, <1>4, <1>5, <1>6, <1>7, <1>8 DEF Worker

LEMMA EnvironmentKeepsApart ==
  ASSUME TypeOK, Apart, Environment, reopens = 0, reopens' = 0
  PROVE  Apart'
<1>1. UNCHANGED <<worker_handles, workers, pc, todo>> /\ NoneStarts
  BY DEF Environment, TimerTick, BecomesDue, BecomesQuiet, Reload, TrackerChanges, NoneStarts
<1>2. ClosedStays
  <2>1. ASSUME NEW i \in Issues, NEW c \in Shown, TrackerChanges(i, c) PROVE ClosedStays
    BY <2>1 DEF TypeOK, TrackerChanges, ClosedStays
  <2>2. CASE UNCHANGED tracker
    BY <2>2 DEF ClosedStays
  <2> QED
    BY <2>1, <2>2 DEF Environment, TimerTick, BecomesDue, BecomesQuiet, Reload
<1>3. GoneStays /\ (pc' = "terminate" => \A i \in todo' : tracker'[i] = "closed")
  BY <1>1, <1>2 DEF ClosedStays, GoneStays, Gone, Apart, TerminatedIsClosed, TypeOK
<1>4. /\ DOMAIN state'.running = DOMAIN state.running
      /\ state'.claimed = state.claimed
      /\ DOMAIN state'.retry_attempts = DOMAIN state.retry_attempts
  BY DEF Environment, TimerTick, BecomesDue, BecomesQuiet, Reload, TrackerChanges, TypeOK,
         StateOK, IsMap
<1>5. NoExitSent /\ NoTerminationSent
  <2>1. CASE TimerTick
    <3>1. /\ PollTick \in Messages /\ mailbox' = Append(mailbox, PollTick)
          /\ \A j \in Issues : ~IsExit(PollTick, j) /\ PollTick # TerminateWorker(j)
      BY <2>1, MessagesDiffer DEF TimerTick, Messages
    <3> QED
      BY <3>1, NoNewTermination DEF NoExitSent, TypeOK
  <2>2. CASE UNCHANGED mailbox
    BY <2>2 DEF NoExitSent, NoTerminationSent
  <2> QED
    BY <2>1, <2>2 DEF Environment, BecomesDue, BecomesQuiet, Reload, TrackerChanges
<1> QED
  BY <1>1, <1>2, <1>3, <1>4, <1>5, QuietStepKeepsApart

(* The end of the process, its next start, and steps of other modules.        *)
LEMMA ProcessKeepsApart ==
  ASSUME TypeOK, Apart, Process \/ UNCHANGED vars
  PROVE  Apart'
<1>1. CASE OrchestratorReturns \/ UNCHANGED vars
  <2>1. /\ UNCHANGED <<state, worker_handles, mailbox, workers, tracker, todo>>
        /\ pc' \in {pc, "returned"}
    BY <1>1 DEF OrchestratorReturns, vars
  <2>2. /\ NoExitSent /\ NoTerminationSent /\ NoneStarts /\ ClosedStays /\ GoneStays
        /\ pc' = "terminate" => \A i \in todo' : tracker'[i] = "closed"
    BY <2>1 DEF NoExitSent, NoTerminationSent, NoneStarts, ClosedStays, GoneStays, Gone,
                Apart, TerminatedIsClosed
  <2> QED
    BY <2>1, <2>2, QuietStepKeepsApart
<1>2. ASSUME ProcessDies PROVE Apart'
  <2>1. /\ DOMAIN workers' = {} /\ DOMAIN mailbox' = {} /\ todo' = {}
        /\ DOMAIN state'.running = {}
    BY <1>2 DEF ProcessDies
  <2> QED
    BY <2>1 DEF Apart, OneRemains, Accounted, Remains, UnclaimedIsClosed, TerminatedIsClosed,
                Handled
<1> QED
  BY <1>1, <1>2 DEF Process, MainExits, Restart

(* Nothing is un-reopened.                                                   *)
LEMMA ReopensGrows ==
  ASSUME TypeOK, [Next]_vars, reopens' = 0
  PROVE  reopens = 0
<1>1. CASE UNCHANGED reopens
  BY <1>1
<1>2. CASE reopens' = reopens + 1
  BY <1>2 DEF TypeOK
<1> QED
  BY <1>1, <1>2
     DEF Next, vars, Receive, ReceivePollTick, ReceiveWorkerExit, ReceiveAgentUpdate,
         ReceiveTerminateWorker, Tick, FetchRunning, TerminateClosed, FindStalled,
         TerminateStalled, FetchDue, RetryDispatch, RetryRelease, FetchFixPr, FixPrDispatch,
         FixPrSkip, FetchCandidates, DispatchCandidate, EndOfTick, Worker, StartAgent,
         SetupFails, SendWorkerExit, AgentSpeaks, AgentReturns, ForwardUpdate, Environment,
         TimerTick, BecomesDue, BecomesQuiet, Reload, TrackerChanges, Process,
         OrchestratorReturns, MainExits, Restart

(* Until an issue is reopened, what remains of workers is kept apart.         *)
LEMMA WorkersStayApart == Spec => [](reopens = 0 => Apart)
<1>1. Init => Apart
  BY DEF Init, Apart, OneRemains, Accounted, Remains, UnclaimedIsClosed, TerminatedIsClosed,
         Handled
<1>2. TypeOK /\ Coupled /\ (reopens = 0 => Apart) /\ [Next]_vars => (reopens = 0 => Apart)'
  BY ReopensGrows, ReceiveKeepsApart, TickKeepsApart, WorkerKeepsApart, EnvironmentKeepsApart,
     ProcessKeepsApart DEF Next
<1> QED
  BY <1>1, <1>2, TypesHold, CoupledHolds, PTL DEF Spec

(* Until an issue is reopened, at most one worker task per issue is at work.  *)
(* After that there may be two: run find_two_workers.                        *)
THEOREM OneWorkerUntilReopened == Spec => [](reopens = 0 => OneWorkerPerIssue)
<1>1. TypeOK /\ Apart => OneWorkerPerIssue
  BY DEF TypeOK, IsMap, Task, Apart, OneRemains, OneWorkerPerIssue
<1> QED
  BY <1>1, WorkersStayApart, TypesHold, PTL

(* Until then every worker at work can be aborted through its issue.          *)
THEOREM NoneEscapesUntilReopened == Spec => []NoWorkerEscapes
<1>1. (reopens = 0 => Apart) => NoWorkerEscapes
  BY DEF Apart, Handled, NoWorkerEscapes
<1> QED
  BY <1>1, WorkersStayApart, PTL

(* Until then the workers at work are no more than the running entries, and   *)
(* so obey the largest limit configured.                                     *)
THEOREM WorkersObeyLimit == Spec => []WorkersWithinLimit
<1>1. TypeOK /\ Coupled /\ ConcurrencyBound /\ (reopens = 0 => Apart) => WorkersWithinLimit
  <2> SUFFICES ASSUME TypeOK, Coupled, ConcurrencyBound, Apart
               PROVE  WorkersWithinLimit
    BY DEF WorkersWithinLimit
  <2> DEFINE S == {r \in DOMAIN workers : workers[r].phase \in Pending}
             T == DOMAIN state.running
             f == [r \in S |-> workers[r].issue]
  <2>1. \A r \in S : workers[r].issue \in T
    BY DEF Apart, Handled, Coupled, HandleIsOfRunningRun
  <2>2. \A q, r \in S : workers[q].issue = workers[r].issue => q = r
    BY DEF Apart, Handled
  <2>3. f \in Injection(S, T)
    BY <2>1, <2>2 DEF Injection, IsInjective
  <2>4. IsFiniteSet(T) /\ Cardinality(T) \in Nat
    BY RunningIsFinite
  <2> HIDE DEF S, T, f
  <2>5. Cardinality(S) <= Cardinality(T) /\ Cardinality(S) \in Nat
    BY <2>3, <2>4, FS_Injection, FS_CardinalityType
  <2>6. PICK limit \in Limits : Cardinality(T) <= limit
    BY DEF ConcurrencyBound, T
  <2>7. limit \in Nat
    BY OrchestratorAssumption
  <2>8. Cardinality(S) <= limit
    BY <2>4, <2>5, <2>6, <2>7
  <2> QED
    BY <2>8 DEF WorkersWithinLimit, S
<1> QED
  BY <1>1, WorkersStayApart, RunningIsBounded, TypesHold, CoupledHolds, PTL
=============================================================================
