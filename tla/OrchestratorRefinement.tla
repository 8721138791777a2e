----------------------- MODULE OrchestratorRefinement -----------------------
(***************************************************************************)
(* Orchestrator implements ClaimLifecycle: seen through claim_state, each  *)
(* of its steps is one move of one issue's claim, the end of the process,  *)
(* or no step at all.                                                      *)
(***************************************************************************)
EXTENDS OrchestratorProofs

Claim == [i \in Issues |-> ClaimState(i)]

(* Nothing claim_state looks at changes for j.                               *)
Same(j) == /\ j \in DOMAIN state'.running <=> j \in DOMAIN state.running
           /\ j \in DOMAIN state'.retry_attempts <=> j \in DOMAIN state.retry_attempts
           /\ j \in state'.claimed <=> j \in state.claimed

SameBut(i) == \A j \in Issues \ {i} : Same(j)

-----------------------------------------------------------------------------
(* The claim of one issue is its first holder.                               *)
LEMMA ClaimIs ==
  ASSUME NEW i \in Issues
  PROVE  /\ ClaimState(i) = "Running" <=> i \in DOMAIN state.running
         /\ ClaimState(i) = "RetryQueued"
              <=> i \notin DOMAIN state.running /\ i \in DOMAIN state.retry_attempts
         /\ ClaimState(i) = "Claimed"
              <=> /\ i \notin DOMAIN state.running \cup DOMAIN state.retry_attempts
                  /\ i \in state.claimed
         /\ ClaimState(i) = "Unclaimed"
              <=> i \notin DOMAIN state.running \cup DOMAIN state.retry_attempts
                             \cup state.claimed
  BY DEF ClaimState

(* The same after a step.                                                    *)
LEMMA ClaimIsNext ==
  ASSUME NEW i \in Issues
  PROVE  /\ ClaimState(i)' = "Running" <=> i \in DOMAIN state'.running
         /\ ClaimState(i)' = "RetryQueued"
              <=> i \notin DOMAIN state'.running /\ i \in DOMAIN state'.retry_attempts
         /\ ClaimState(i)' = "Claimed"
              <=> /\ i \notin DOMAIN state'.running \cup DOMAIN state'.retry_attempts
                  /\ i \in state'.claimed
         /\ ClaimState(i)' = "Unclaimed"
              <=> i \notin DOMAIN state'.running \cup DOMAIN state'.retry_attempts
                             \cup state'.claimed
  BY DEF ClaimState

(* An issue left alone keeps its claim.                                      *)
LEMMA SameClaim ==
  ASSUME NEW j \in Issues, Same(j)
  PROVE  ClaimState(j)' = ClaimState(j)
  BY DEF ClaimState, Same

(* All left alone: a stutter.                                                *)
LEMMA AllSame ==
  ASSUME \A j \in Issues : Same(j)
  PROVE  Claim' = Claim
  BY SameClaim DEF Claim

(* All but one left alone: that one moves.                                   *)
LEMMA OneMoves ==
  ASSUME NEW i \in Issues, SameBut(i), NEW to, ClaimState(i)' = to
  PROVE  Claim' = [Claim EXCEPT ![i] = to]
<1>1. \A j \in Issues \ {i} : ClaimState(j)' = ClaimState(j)
  BY SameClaim DEF SameBut
<1> QED
  BY <1>1 DEF Claim

(* Largest is a limit and no limit exceeds it.                               *)
LEMMA LargestIsLargest ==
  Largest \in Limits /\ \A limit \in Limits : limit <= Largest
  BY OrchestratorAssumption DEF Largest

-----------------------------------------------------------------------------
(* The moves.                                                                *)

(* ClaimLifecycle counts as Orchestrator does.                               *)
LEMMA SameCardinality == \A S : Lifecycle!Cardinality(S) = Cardinality(S)
  BY DEF Lifecycle!Cardinality, Cardinality

(* A dispatch of an unclaimed or queued issue with a slot free.              *)
LEMMA StartMoves ==
  ASSUME TypeOK, NEW i \in Issues, SameBut(i), Starts(i),
         ClaimState(i) \in {"Unclaimed", "RetryQueued"}
  PROVE  Lifecycle!Dispatch(i)
<1>1. {j \in Issues : Claim[j] = "Running"} = DOMAIN state.running
  <2>1. DOMAIN state.running \subseteq Issues
    BY DEF TypeOK, StateOK, IsMap
  <2> QED
    BY <2>1, ClaimIs DEF Claim
<1>2. Cardinality(DOMAIN state.running) < Largest
  <2>1. config \in Limits /\ config \in Nat /\ Largest \in Nat /\ config <= Largest
    BY LargestIsLargest, OrchestratorAssumption DEF TypeOK
  <2> QED
    BY <2>1, RunningIsFinite DEF Starts
<1>3. ClaimState(i)' = "Running"
  BY ClaimIsNext DEF Starts
<1>4. Claim' = [Claim EXCEPT ![i] = "Running"]
  BY <1>3, OneMoves
<1>5. Claim[i] \in {"Unclaimed", "RetryQueued"}
  BY DEF Claim
<1>6. Lifecycle!InState("Running") = DOMAIN state.running
  BY <1>1 DEF Lifecycle!InState, Claim
<1>7. Lifecycle!Move(i, {"Unclaimed", "RetryQueued"}, "Running")
  BY <1>4, <1>5 DEF Lifecycle!Move, Claim
<1> QED
  BY <1>2, <1>6, <1>7, SameCardinality DEF Lifecycle!Dispatch

(* An exit of a running issue.                                               *)
LEMMA ExitMoves ==
  ASSUME NEW i \in Issues, SameBut(i), i \in DOMAIN state.running,
         i \notin DOMAIN state'.running, i \in DOMAIN state'.retry_attempts
  PROVE  Lifecycle!Exit(i)
<1>1. ClaimState(i) = "Running" /\ ClaimState(i)' = "RetryQueued"
  BY ClaimIs, ClaimIsNext
<1>2. Claim' = [Claim EXCEPT ![i] = "RetryQueued"]
  BY <1>1, OneMoves
<1> QED
  BY <1>1, <1>2 DEF Lifecycle!Exit, Lifecycle!Move, Claim

(* A release: no move at all for an issue that runs or is not claimed.       *)
LEMMA ReleaseMoves ==
  ASSUME Coupled, NEW i \in Issues, SameBut(i),
         i \in DOMAIN state'.running <=> i \in DOMAIN state.running,
         i \notin state'.claimed, i \notin DOMAIN state'.retry_attempts
  PROVE  Lifecycle!Release(i) \/ Claim' = Claim
<1>1. CASE i \in DOMAIN state.running
  <2>1. ClaimState(i) = "Running" /\ ClaimState(i)' = "Running"
    BY <1>1, ClaimIs, ClaimIsNext
  <2>2. \A j \in Issues \ {i} : ClaimState(j)' = ClaimState(j)
    BY SameClaim DEF SameBut
  <2> QED
    BY <2>1, <2>2 DEF Claim
<1>2. CASE i \notin DOMAIN state.running /\ i \in state.claimed
  <2>1. ClaimState(i) \in {"RetryQueued", "Claimed"} /\ ClaimState(i)' = "Unclaimed"
    BY <1>2, ClaimIs, ClaimIsNext
  <2>2. Claim' = [Claim EXCEPT ![i] = "Unclaimed"]
    BY <2>1, OneMoves
  <2> QED
    BY <2>1, <2>2 DEF Lifecycle!Release, Lifecycle!Move, Claim
<1>3. CASE i \notin DOMAIN state.running /\ i \notin state.claimed
  <2>1. i \notin DOMAIN state.retry_attempts
    BY <1>3 DEF Coupled, RetryHoldsClaim
  <2>2. Same(i)
    BY <1>3, <2>1 DEF Same
  <2> QED
    BY <2>2, AllSame DEF SameBut
<1> QED
  BY <1>1, <1>2, <1>3

(* A stalled worker's removal.                                               *)
LEMMA StallMoves ==
  ASSUME Coupled, NEW i \in Issues, SameBut(i), i \in DOMAIN state.running,
         i \notin DOMAIN state'.running,
         i \in state'.claimed <=> i \in state.claimed,
         i \in DOMAIN state'.retry_attempts <=> i \in DOMAIN state.retry_attempts
  PROVE  Lifecycle!Stall(i)
<1>1. i \notin DOMAIN state'.retry_attempts
  BY DEF Coupled, RetryHoldsClaim
<1>2. ClaimState(i) = "Running" /\ ClaimState(i)' \in {"Claimed", "Unclaimed"}
  BY <1>1, ClaimIs, ClaimIsNext
<1>3. Claim' = [Claim EXCEPT ![i] = ClaimState(i)']
  BY OneMoves
<1> QED
  BY <1>2, <1>3 DEF Lifecycle!Stall, Lifecycle!Move, Claim

-----------------------------------------------------------------------------
(* The steps.                                                                *)

(* Steps that leave claim_state's answers alone.                             *)
LEMMA IdleStep ==
  ASSUME DOMAIN state'.running = DOMAIN state.running,
         DOMAIN state'.retry_attempts = DOMAIN state.retry_attempts,
         state'.claimed = state.claimed
  PROVE  Claim' = Claim
<1>1. \A j \in Issues : Same(j)
  BY DEF Same
<1> QED
  BY <1>1, AllSame

(* release_claim on its own.                                                 *)
LEMMA ReleaseStep ==
  ASSUME TypeOK, Coupled, NEW i \in Issues,
         state' \in {ReleaseClaim(state, i), ReleaseClaim(RemoveRetry(state, i), i)}
  PROVE  [Lifecycle!Next]_Claim
<1>1. /\ state'.running = state.running /\ state'.claimed = state.claimed \ {i}
      /\ DOMAIN state'.retry_attempts = DOMAIN state.retry_attempts \ {i}
  <2>1. CASE state' = ReleaseClaim(state, i)
    <3>1. state' = [running |-> state.running, claimed |-> state.claimed \ {i},
                    retry_attempts |-> Without(state.retry_attempts, i)]
      BY <2>1, ReleaseKeepsState DEF TypeOK
    <3> QED
      BY <3>1 DEF Without
  <2>2. CASE state' = ReleaseClaim(RemoveRetry(state, i), i)
    <3> DEFINE s == RemoveRetry(state, i)
    <3>1. StateOK(s) /\ s = [running |-> state.running, claimed |-> state.claimed,
                             retry_attempts |-> Without(state.retry_attempts, i)]
      BY ReleaseKeepsState DEF TypeOK
    <3>2. ReleaseClaim(s, i) = [running |-> s.running, claimed |-> s.claimed \ {i},
                                retry_attempts |-> Without(s.retry_attempts, i)]
      BY <3>1, ReleaseKeepsState
    <3> QED
      BY <2>2, <3>1, <3>2 DEF Without
  <2> QED
    BY <2>1, <2>2
<1>2. SameBut(i)
  BY <1>1 DEF SameBut, Same
<1> QED
  BY <1>1, <1>2, ReleaseMoves DEF Lifecycle!Next

(* dispatch_worker of an issue that does not run and is queued or unclaimed.  *)
LEMMA DispatchStepMoves ==
  ASSUME TypeOK, Coupled, NEW i \in Issues, NEW s, s \in {state, RemoveRetry(state, i)},
         DispatchWorker(s, i), i \notin DOMAIN state.running, AvailableSlots(s) > 0,
         i \in DOMAIN state.retry_attempts \/ i \notin state.claimed
  PROVE  [Lifecycle!Next]_Claim
<1>1. /\ StateOK(s) /\ s.running = state.running /\ s.claimed = state.claimed
      /\ \A j \in Issues \ {i} : j \in DOMAIN s.retry_attempts
                                     <=> j \in DOMAIN state.retry_attempts
  <2>1. CASE s = state
    BY <2>1 DEF TypeOK
  <2>2. CASE s = RemoveRetry(state, i)
    <3>1. StateOK(s) /\ s = [running |-> state.running, claimed |-> state.claimed,
                             retry_attempts |-> Without(state.retry_attempts, i)]
      BY <2>2, ReleaseKeepsState DEF TypeOK
    <3> QED
      BY <3>1 DEF Without
  <2> QED
    BY <2>1, <2>2
<1>2. Starts(i)
  BY <1>1, DispatchStarts
<1>3. /\ state'.claimed = s.claimed \cup {i}
      /\ state'.retry_attempts = Without(s.retry_attempts, i)
      /\ DOMAIN state'.running = DOMAIN s.running \cup {i}
  BY <1>1, DispatchStep DEF TypeOK
<1>4. SameBut(i)
  BY <1>1, <1>3 DEF SameBut, Same, Without
<1>5. ClaimState(i) \in {"Unclaimed", "RetryQueued"}
  BY ClaimIs DEF Coupled, RetryHoldsClaim
<1> QED
  BY <1>2, <1>4, <1>5, StartMoves DEF Lifecycle!Next

(* The message loop.                                                         *)
LEMMA ReceiveMoves ==
  ASSUME TypeOK, Coupled, Receive
  PROVE  [Lifecycle!Next]_Claim
<1>1. CASE ReceivePollTick
  BY <1>1, IdleStep DEF ReceivePollTick
<1>2. CASE ReceiveWorkerExit
  <2> DEFINE i == Head(mailbox).issue
  <2>1. i \in Issues
    BY <1>2, ReceivedMessage DEF TypeOK, ReceiveWorkerExit
  <2>2. CASE state' = state
    BY <2>2, IdleStep
  <2>3. CASE state' = ApplyWorkerExit(state, i) /\ i \in DOMAIN state.running
    <3>1. /\ state'.running = Without(state.running, i)
          /\ state'.claimed = state.claimed \cup {i}
          /\ DOMAIN state'.retry_attempts = DOMAIN state.retry_attempts \cup {i}
      BY <2>1, <2>3, ExitKeepsState DEF TypeOK
    <3>2. SameBut(i)
      BY <3>1 DEF SameBut, Same, Without
    <3>3. i \notin DOMAIN state'.running /\ i \in DOMAIN state'.retry_attempts
      BY <3>1 DEF Without
    <3> HIDE DEF i
    <3> QED
      BY <2>1, <2>3, <3>2, <3>3, ExitMoves DEF Lifecycle!Next
  <2> QED
    BY <1>2, <2>1, <2>2, <2>3, ExitKeepsState DEF TypeOK, ReceiveWorkerExit
<1>3. CASE ReceiveAgentUpdate
  <2>1. /\ state'.claimed = state.claimed /\ state'.retry_attempts = state.retry_attempts
        /\ DOMAIN state'.running = DOMAIN state.running
    BY <1>3 DEF TypeOK, StateOK, IsMap, ReceiveAgentUpdate, ApplyAgentUpdate
  <2> QED
    BY <2>1, IdleStep
<1>4. CASE ReceiveTerminateWorker
  <2>1. Head(mailbox).issue \in Issues
    BY <1>4, ReceivedMessage DEF TypeOK, ReceiveTerminateWorker
  <2> QED
    BY <1>4, <2>1, ReleaseStep DEF ReceiveTerminateWorker
<1> QED
  BY <1>1, <1>2, <1>3, <1>4 DEF Receive

(* The steps of a tick.                                                      *)
LEMMA TickMoves ==
  ASSUME TypeOK, Coupled, Tick
  PROVE  [Lifecycle!Next]_Claim
<1>1. CASE UNCHANGED state
  BY <1>1, IdleStep
<1>2. ASSUME NEW i \in todo, TerminateClosed(i) PROVE [Lifecycle!Next]_Claim
  BY <1>2, ReleaseStep DEF TypeOK, TerminateClosed
<1>3. ASSUME NEW i \in todo, TerminateStalled(i) PROVE [Lifecycle!Next]_Claim
  <2>1. i \in Issues
    BY DEF TypeOK
  <2>2. /\ state'.running = Without(state.running, i)
        /\ state'.claimed = state.claimed /\ state'.retry_attempts = state.retry_attempts
    BY <1>3, <2>1, AfterStallState DEF TypeOK, TerminateStalled
  <2>3. DOMAIN state'.running = DOMAIN state.running \ {i}
    BY <2>2 DEF Without
  <2>4. CASE i \in DOMAIN state.running
    <3>1. SameBut(i)
      BY <2>2, <2>3 DEF SameBut, Same
    <3> QED
      BY <2>1, <2>2, <2>3, <2>4, <3>1, StallMoves DEF Lifecycle!Next
  <2>5. CASE i \notin DOMAIN state.running
    <3>1. DOMAIN state'.running = DOMAIN state.running
      BY <2>3, <2>5
    <3> QED
      BY <2>2, <3>1, IdleStep
  <2> QED
    BY <2>4, <2>5
<1>4. ASSUME NEW i \in todo, RetryDispatch(i) PROVE [Lifecycle!Next]_Claim
  <2> DEFINE s == RemoveRetry(state, i)
  <2>1. /\ i \in Issues /\ i \in DOMAIN state.retry_attempts
    BY <1>4 DEF TypeOK, RetryDispatch, Coupled, DueIsQueued
  <2>2. /\ s.running = state.running
    BY ReleaseKeepsState DEF TypeOK
  <2>3. /\ i \notin DOMAIN state.running /\ AvailableSlots(s) > 0 /\ DispatchWorker(s, i)
    BY <1>4, <2>2 DEF RetryDispatch, MayRetry
  <2> QED
    BY <2>1, <2>3, DispatchStepMoves
<1>5. ASSUME NEW i \in todo, RetryRelease(i) PROVE [Lifecycle!Next]_Claim
  BY <1>5, ReleaseStep DEF TypeOK, RetryRelease
<1>6. ASSUME NEW i \in Issues, CanDispatch(state, i), DispatchWorker(state, i)
      PROVE  [Lifecycle!Next]_Claim
  BY <1>6, DispatchStepMoves DEF CanDispatch
<1>7. ASSUME NEW i \in todo, FixPrDispatch(i) PROVE [Lifecycle!Next]_Claim
  BY <1>6, <1>7 DEF TypeOK, FixPrDispatch
<1>8. CASE DispatchCandidate
  <2>1. todo \in SUBSET Nat /\ todo # {} /\ todo \subseteq Issues
    BY <1>8, OrchestratorAssumption DEF TypeOK, DispatchCandidate
  <2>2. First(todo) \in Issues
    BY <2>1, FirstIsLeast
  <2> QED
    BY <1>6, <1>8, <2>2 DEF DispatchCandidate
<1> QED
  BY <1>1, <1>2, <1>3, <1>4, <1>5, <1>7, <1>8
     DEF Tick, FetchRunning, FindStalled, FetchDue, FetchFixPr, FixPrSkip, FetchCandidates,
         EndOfTick

(* Everything else.                                                          *)
LEMMA OthersMove ==
  ASSUME TypeOK, Worker \/ Environment \/ Process
  PROVE  [Lifecycle!Next]_Claim
<1>1. CASE UNCHANGED state
  BY <1>1, IdleStep
<1>2. CASE Worker
  BY <1>1, <1>2 DEF Worker, StartAgent, SetupFails, SendWorkerExit, AgentSpeaks, AgentReturns,
                    ForwardUpdate
<1>3. CASE Environment
  <2>1. ASSUME NEW i \in Issues, BecomesDue(i) PROVE Claim' = Claim
    <3>1. /\ state'.claimed = state.claimed /\ state'.running = state.running
          /\ DOMAIN state'.retry_attempts = DOMAIN state.retry_attempts
      BY <2>1 DEF TypeOK, StateOK, IsMap, BecomesDue
    <3> QED
      BY <3>1, IdleStep
  <2>2. ASSUME NEW i \in Issues, BecomesQuiet(i) PROVE Claim' = Claim
    <3>1. /\ state'.claimed = state.claimed /\ state'.retry_attempts = state.retry_attempts
          /\ DOMAIN state'.running = DOMAIN state.running
      BY <2>2 DEF TypeOK, StateOK, IsMap, BecomesQuiet
    <3> QED
      BY <3>1, IdleStep
  <2> QED
    BY <1>1, <1>3, <2>1, <2>2 DEF Environment, TimerTick, Reload, TrackerChanges
<1>4. ASSUME ProcessDies PROVE Lifecycle!Restart
  <2>1. \A i \in Issues : ClaimState(i)' = "Unclaimed"
    BY <1>4, EmptyIsMap, ClaimIsNext DEF ProcessDies
  <2> QED
    BY <2>1 DEF Lifecycle!Restart
<1>5. CASE Process
  BY <1>1, <1>4, <1>5
     DEF Process, OrchestratorReturns, MainExits, Restart, Lifecycle!Next
<1> QED
  BY <1>2, <1>3, <1>5

(* The orchestrator moves claims only as ClaimLifecycle allows.              *)
THEOREM LifecycleIsImplemented == Spec => ImplementsLifecycle
<1>1. Init => Lifecycle!Init
  <2> SUFFICES ASSUME Init PROVE Lifecycle!Init
    OBVIOUS
  <2>1. \A i \in Issues : ClaimState(i) = "Unclaimed"
    BY EmptyIsMap, ClaimIs DEF Init
  <2> QED
    BY <2>1 DEF Lifecycle!Init
<1>2. TypeOK /\ Coupled /\ [Next]_vars => [Lifecycle!Next]_Claim
  <2> SUFFICES ASSUME TypeOK, Coupled, [Next]_vars PROVE [Lifecycle!Next]_Claim
    OBVIOUS
  <2>1. CASE UNCHANGED vars
    BY <2>1, IdleStep DEF vars
  <2>2. ASSUME Next PROVE [Lifecycle!Next]_Claim
    BY <2>2, ReceiveMoves, TickMoves, OthersMove DEF Next
  <2> QED
    BY <2>1, <2>2
<1> QED
  BY <1>1, <1>2, CoupledHolds, TypesHold, PTL
     DEF Spec, ImplementsLifecycle, Lifecycle!Spec, Claim
=============================================================================
