--------------------------- MODULE AgentRunProofs ---------------------------
(***************************************************************************)
(* Proofs about AgentRun, for every set of protocols, every set of ids the *)
(* agent gives to its requests and every capacity of the pipes.            *)
(***************************************************************************)
EXTENDS AgentRun, SequenceTheorems, TLAPS

-----------------------------------------------------------------------------
(* The handshake.                                                            *)
SessionStep == IF protocol = "codex" THEN 5 ELSE 6  \* reads the answer that names the session

(* cli has none; the others read the session before they write the prompt.    *)
LEMMA HandshakeIs ==
  ASSUME protocol \in Protocols
  PROVE  /\ Len(Handshake) = IF protocol = "cli" THEN 0 ELSE 7
         /\ \A k \in 1 .. Len(Handshake) :
              /\ Handshake[k].op \in {"write", "read"} /\ Handshake[k].id \in 0 .. 4
              /\ Handshake[k].op = "write" /\ Handshake[k].id = PromptRequest => k > SessionStep
         /\ protocol # "cli" => /\ Handshake[SessionStep].op = "read"
                                /\ Handshake[SessionStep].id = SessionRequest
<1> USE DEF Handshake, SessionStep, SessionRequest, PromptRequest, Write, Read
<1>1. CASE protocol = "codex"
  BY <1>1
<1>2. CASE protocol = "acp"
  BY <1>2
<1>3. CASE protocol = "cli"
  BY <1>3
<1>. QED
  BY <1>1, <1>2, <1>3, AgentRunAssumption

(* A run keeps its protocol, and what was said stays said.                   *)
LEMMA Frame ==
  ASSUME [Next]_vars
  PROVE  /\ protocol' = protocol /\ said \subseteq said'
         /\ Handshake' = Handshake /\ SessionStep' = SessionStep
         /\ PromptRequest' = PromptRequest /\ SessionRequest' = SessionRequest
         /\ SessionOpened' = SessionOpened /\ TurnCompleted' = TurnCompleted
         /\ Telling' = Telling
<1>1. protocol' = protocol /\ said \subseteq said'
  BY DEF Next, Run, Agent, WriteRequest, ReadAnswer, ReadTurn, TurnEnds, TurnTimesOut, Reply, Reap,
         CliGivesUp, Abort, AgentReads, AgentSays, AgentEnds, vars
<1>. QED
  BY <1>1 DEF Handshake, SessionStep, PromptRequest, SessionRequest, SessionOpened, TurnCompleted,
              Telling

(* Sequences of more; a line written to a pipe with room; a line read.        *)
LEMMA SeqOfMore ==
  ASSUME NEW A, NEW B, A \subseteq B, NEW s \in Seq(A)
  PROVE  s \in Seq(B)
  OBVIOUS

LEMMA Written ==
  ASSUME NEW S, NEW pipe \in Seq(S), Len(pipe) < Room, NEW line \in S
  PROVE  Append(pipe, line) \in Seq(S) /\ Len(Append(pipe, line)) <= Room
<1>1. Room \in Nat /\ Len(pipe) \in Nat
  BY AgentRunAssumption
<1>. QED
  BY <1>1, AppendProperties

LEMMA Consumed ==
  ASSUME NEW S, NEW pipe \in Seq(S), Len(pipe) <= Room, pipe # <<>>
  PROVE  Head(pipe) \in S /\ Tail(pipe) \in Seq(S) /\ Len(Tail(pipe)) <= Room
<1>1. Room \in Nat /\ Len(pipe) \in Nat
  BY AgentRunAssumption
<1>. QED
  BY <1>1, HeadTailProperties

(* The position in the handshake goes to its end.                            *)
LEMMA Advances ==
  ASSUME TypeOK, Handshake' = Handshake, at = "handshake", Advance
  PROVE  /\ step' \in 1 .. Len(Handshake') + 1
         /\ at' \in {"handshake", "turn"} /\ (at' = "handshake" => step' <= Len(Handshake'))
  BY HandshakeIs DEF TypeOK, Advance

-----------------------------------------------------------------------------
(* Every step keeps the types: one step per action.                          *)
LEMMA TypeStep ==
  ASSUME TypeOK, [Next]_vars PROVE TypeOK'
<1> USE DEF TypeOK
<1>1. CASE WriteRequest
  <2>1. Handshake[step].id \in 0 .. 4 /\ at = "handshake" /\ Handshake' = Handshake
    BY <1>1, Frame, HandshakeIs DEF WriteRequest
  <2>2. CASE ~Ended /\ Len(stdin) < Room /\ stdin' = Append(stdin, Handshake[step].id)
             /\ Advance /\ UNCHANGED outcome
    <3>1. stdin' \in Seq(0 .. 4) /\ Len(stdin') <= Room
      BY <2>1, <2>2, Written
    <3>2. /\ step' \in 1 .. Len(Handshake') + 1 /\ at' \in {"handshake", "turn"}
          /\ at' = "handshake" => step' <= Len(Handshake')
      BY <2>1, <2>2, Advances
    <3>. QED
      BY <1>1, <2>2, <3>1, <3>2, Frame DEF WriteRequest
  <2>3. CASE Return("Failed") /\ UNCHANGED <<step, stdin>>
    BY <1>1, <2>1, <2>3, Frame DEF WriteRequest, Return
  <2>. QED
    BY <1>1, <2>2, <2>3 DEF WriteRequest
<1>2. CASE ReadAnswer
  <2>1. at = "handshake" /\ Handshake' = Handshake
    BY <1>2, Frame DEF ReadAnswer
  <2>2. stdout' \in Seq(Line) /\ Len(stdout') <= Room
    BY <1>2, Consumed DEF ReadAnswer
  <2>3. \/ Advance /\ UNCHANGED outcome
        \/ Return("Failed") /\ UNCHANGED step
    BY <1>2 DEF ReadAnswer
  <2>4. /\ step' \in 1 .. Len(Handshake') + 1 /\ at' \in {"handshake", "turn", "done"}
        /\ at' = "handshake" => step' <= Len(Handshake')
    BY <2>1, <2>3, Advances DEF Return
  <2>5. outcome' \in {outcome, "Failed"}
    BY <2>3 DEF Return
  <2>. QED
    BY <1>2, <2>2, <2>4, <2>5, Frame DEF ReadAnswer
<1>3. CASE ReadTurn
  <2>1. Verdict(Head(stdout)) \in {"none", "Normal", "TurnFailed", "TurnCancelled", "ProcessError"}
    BY DEF Verdict
  <2>2. stdout' \in Seq(Line) /\ Len(stdout') <= Room
    BY <1>3, Consumed DEF ReadTurn
  <2>3. /\ verdict' \in {verdict, "Normal", "TurnFailed", "TurnCancelled", "ProcessError"}
        /\ at' \in {"turn", "reply", "wait"}
    BY <1>3, <2>1 DEF ReadTurn, EndTurn
  <2>. QED
    BY <1>3, <2>2, <2>3, Frame DEF ReadTurn
<1>4. CASE TurnEnds \/ TurnTimesOut
  BY <1>4, Frame DEF TurnEnds, TurnTimesOut, EndTurn
<1>5. CASE Reply
  <2>1. stdin' \in Seq(0 .. 4) /\ Len(stdin') <= Room
    <3>1. CASE Len(stdin) < Room /\ stdin' = Append(stdin, 0)
      <4>1. 0 \in 0 .. 4
        OBVIOUS
      <4>. QED
        BY <3>1, <4>1, Written
    <3>. QED
      BY <1>5, <3>1 DEF Reply
  <2>. QED
    BY <1>5, <2>1, Frame DEF Reply
<1>6. CASE Reap
  BY <1>6, Frame DEF Reap, Return, Reason
<1>7. CASE CliGivesUp
  BY <1>7, Frame DEF CliGivesUp, Return
<1>8. CASE Abort
  BY <1>8, Frame DEF Abort, Return
<1>9. CASE AgentReads
  <2>1. Head(stdin) \in 0 .. 4 /\ stdin' \in Seq(0 .. 4) /\ Len(stdin') <= Room
    BY <1>9, Consumed DEF AgentReads
  <2>. QED
    BY <1>9, <2>1, Frame DEF AgentReads
<1>10. ASSUME NEW line \in Line, AgentSays(line) PROVE TypeOK'
  <2>1. stdout' \in Seq(Line) /\ Len(stdout') <= Room
    BY <1>10, Written DEF AgentSays
  <2>2. said' \subseteq Telling' /\ child' \in {child, "failure"}
    BY <1>10, Frame DEF AgentSays
  <2>. QED
    BY <1>10, <2>1, <2>2, Frame DEF AgentSays
<1>11. ASSUME NEW status \in {"success", "failure"}, AgentEnds(status) PROVE TypeOK'
  BY <1>11, Frame DEF AgentEnds
<1>12. CASE UNCHANGED vars
  BY <1>12, Frame DEF vars
<1>. QED
  BY <1>1, <1>2, <1>3, <1>4, <1>5, <1>6, <1>7, <1>8, <1>9, <1>10, <1>11, <1>12
     DEF Next, Run, Agent

-----------------------------------------------------------------------------
(* What the lines in the pipes are worth: a line that opens the session or    *)
(* completes the turn has been said, no other line names a session; the       *)
(* prompt is only on its way when the session is open.                       *)
Heard == {l \in Line : /\ l \in Telling => l \in said
                       /\ l.body = "session" => l = SessionOpened}
Sendable == {id \in 0 .. 4 : id = PromptRequest => protocol # "cli" /\ SessionOpened \in said}

Linked ==
  /\ stdout \in Seq(Heard) /\ stdin \in Seq(Sendable) /\ asked \subseteq Sendable
  /\ protocol # "cli" /\ step > SessionStep => SessionOpened \in said

(* What is said stays worth as much.                                         *)
LEMMA LinksGrow ==
  ASSUME [Next]_vars
  PROVE  Heard \subseteq Heard' /\ Sendable \subseteq Sendable'
  BY Frame DEF Heard, Sendable

(* A line the agent says is worth what it may say.                           *)
LEMMA SaidIsHeard ==
  ASSUME NEW line \in Line, [Next]_vars, line \in Sayable,
         said' = said \cup ({line} \cap Telling)
  PROVE  line \in Heard'
<1>1. line \in Telling => line \in said'
  OBVIOUS
<1>2. line.body = "session" => line = SessionOpened
  BY DEF Sayable, Answer, Note, Permission, Junk, Binary, SessionOpened, Turns
<1>. QED
  BY <1>1, <1>2, Frame DEF Heard

(* The handshake does not get past the session's answer without one.         *)
LEMMA AdvanceNeedsSession ==
  ASSUME TypeOK, Linked, [Next]_vars, at = "handshake", step' = step + 1, protocol # "cli",
         step = SessionStep => SessionOpened \in said,
         step' > SessionStep
  PROVE  SessionOpened \in said'
  BY Frame DEF Linked, TypeOK, SessionStep

(* Linked is inductive: one step per action.                                 *)
LEMMA LinkStep ==
  ASSUME TypeOK, Linked, [Next]_vars PROVE Linked'
<1>0. /\ Heard \subseteq Heard' /\ Sendable \subseteq Sendable' /\ said \subseteq said'
      /\ UNCHANGED <<protocol, SessionStep, SessionOpened>>
  BY LinksGrow, Frame
<1>1. UNCHANGED stdout => stdout' \in Seq(Heard')
  BY <1>0, SeqOfMore DEF Linked
<1>2. UNCHANGED stdin => stdin' \in Seq(Sendable')
  BY <1>0, SeqOfMore DEF Linked
<1>3. UNCHANGED asked => asked' \subseteq Sendable'
  BY <1>0 DEF Linked
<1>4. UNCHANGED step => (protocol' # "cli" /\ step' > SessionStep' => SessionOpened' \in said')
  BY <1>0 DEF Linked
<1>5. stdout # <<>> => Head(stdout) \in Heard /\ Tail(stdout) \in Seq(Heard')
  BY <1>0, SeqOfMore, HeadTailProperties DEF Linked
<1>6. stdin # <<>> => Head(stdin) \in Sendable /\ Tail(stdin) \in Seq(Sendable')
  BY <1>0, SeqOfMore, HeadTailProperties DEF Linked
<1>7. CASE WriteRequest
  <2>1. UNCHANGED <<stdout, asked>> /\ at = "handshake" /\ Handshake[step].op = "write"
    BY <1>7 DEF WriteRequest
  <2>2. step \in 1 .. Len(Handshake) /\ protocol \in Protocols
    BY <2>1 DEF TypeOK
  <2>3. protocol # "cli" /\ step # SessionStep
    BY <2>1, <2>2, HandshakeIs
  <2>4. CASE ~Ended /\ stdin' = Append(stdin, Handshake[step].id) /\ Advance
    <3>1. Handshake[step].id \in Sendable
      BY <2>1, <2>2, <2>3, HandshakeIs DEF Sendable, Linked
    <3>2. stdin \in Seq(Sendable') /\ Handshake[step].id \in Sendable'
      BY <1>0, <3>1, SeqOfMore DEF Linked
    <3>3. stdin' \in Seq(Sendable')
      BY <2>4, <3>2, AppendProperties
    <3>4. step' > SessionStep => SessionOpened \in said'
      BY <2>1, <2>3, <2>4, AdvanceNeedsSession DEF Advance
    <3>. QED
      BY <1>0, <1>1, <1>3, <2>1, <3>3, <3>4 DEF Linked
  <2>5. CASE UNCHANGED <<step, stdin>>
    BY <1>1, <1>2, <1>3, <1>4, <2>1, <2>5 DEF Linked
  <2>. QED
    BY <1>7, <2>4, <2>5 DEF WriteRequest
<1>8. CASE ReadAnswer
  <2>1. UNCHANGED <<stdin, asked>> /\ at = "handshake" /\ Handshake[step].op = "read"
    BY <1>8 DEF ReadAnswer
  <2>2. step \in 1 .. Len(Handshake) /\ protocol \in Protocols
    BY <2>1 DEF TypeOK
  <2>3. protocol # "cli"
    BY <2>2, HandshakeIs
  <2>4. stdout' \in Seq(Heard')
    BY <1>1, <1>5, <1>8 DEF ReadAnswer
  <2>5. ASSUME NEW line \in Heard \cup {Junk}, Accepted(line, Handshake[step].id),
               step = SessionStep
        PROVE  SessionOpened \in said
    <3>1. Handshake[step].id = SessionRequest /\ SessionRequest # PromptRequest
      BY <2>2, <2>3, <2>5, HandshakeIs DEF SessionRequest, PromptRequest
    <3>2. line.body = "session"
      BY <2>5, <3>1 DEF Accepted
    <3>3. line \in Heard
      BY <2>5, <3>2 DEF Junk
    <3>. QED
      BY <3>2, <3>3 DEF Heard, Telling
  <2>6. \/ UNCHANGED step
        \/ /\ step' = step + 1
           /\ \E line \in Heard \cup {Junk} : Accepted(line, Handshake[step].id)
    BY <1>5, <1>8 DEF ReadAnswer, Advance
  <2>7. step' > SessionStep => SessionOpened \in said' \/ UNCHANGED step
    BY <2>1, <2>3, <2>5, <2>6, AdvanceNeedsSession
  <2>. QED
    BY <1>0, <1>2, <1>3, <1>4, <2>1, <2>4, <2>7 DEF Linked
<1>9. CASE ReadTurn
  BY <1>2, <1>3, <1>4, <1>5, <1>9 DEF ReadTurn, Linked
<1>10. CASE TurnEnds \/ TurnTimesOut \/ Reap \/ CliGivesUp \/ Abort
  BY <1>1, <1>2, <1>3, <1>4, <1>10 DEF TurnEnds, TurnTimesOut, Reap, CliGivesUp, Abort, Linked
<1>11. CASE Reply
  <2>1. 0 \in Sendable' /\ stdin \in Seq(Sendable')
    BY <1>0, SeqOfMore DEF Sendable, PromptRequest, Linked
  <2>2. stdin' \in Seq(Sendable')
    BY <1>2, <1>11, <2>1, AppendProperties DEF Reply
  <2>. QED
    BY <1>1, <1>3, <1>4, <1>11, <2>2 DEF Reply, Linked
<1>12. CASE AgentReads
  <2>1. Head(stdin) \in Sendable' /\ stdin' \in Seq(Sendable')
    BY <1>0, <1>6, <1>12 DEF AgentReads
  <2>2. asked' \subseteq Sendable'
    BY <1>0, <1>12, <2>1 DEF AgentReads, Linked
  <2>. QED
    BY <1>1, <1>4, <1>12, <2>1, <2>2 DEF AgentReads, Linked
<1>13. ASSUME NEW line \in Line, AgentSays(line) PROVE Linked'
  <2>1. CASE stdout' = Append(stdout, line) /\ said' = said \cup ({line} \cap Telling)
    <3>1. line \in Heard' /\ stdout \in Seq(Heard')
      BY <1>0, <1>13, <2>1, SaidIsHeard, SeqOfMore DEF AgentSays, Linked
    <3>2. stdout' \in Seq(Heard')
      BY <2>1, <3>1, AppendProperties
    <3>. QED
      BY <1>2, <1>3, <1>4, <1>13, <3>2 DEF AgentSays, Linked
  <2>2. CASE UNCHANGED stdout
    BY <1>1, <1>2, <1>3, <1>4, <1>13, <2>2 DEF AgentSays, Linked
  <2>. QED
    BY <1>13, <2>1, <2>2 DEF AgentSays
<1>14. ASSUME NEW status \in {"success", "failure"}, AgentEnds(status) PROVE Linked'
  BY <1>1, <1>2, <1>3, <1>4, <1>14 DEF AgentEnds, Linked
<1>15. CASE UNCHANGED vars
  BY <1>1, <1>2, <1>3, <1>4, <1>15 DEF vars, Linked
<1>. QED
  BY <1>7, <1>8, <1>9, <1>10, <1>11, <1>12, <1>13, <1>14, <1>15 DEF Next, Run, Agent

-----------------------------------------------------------------------------
(* The verdict.  acp looks at the id of a request of the agent's own, so that *)
(* what follows holds only of agents that do not count up to the prompt's, 4. *)
NoIdIsThePrompts == 4 \notin PermissionIds

Judged ==
  /\ verdict = "Normal" => TurnCompleted \in said
  /\ outcome = "Normal" => verdict = "Normal"
  /\ outcome # "none" => at = "done"

(* Only the line that completes the turn makes it Normal.                    *)
LEMMA NormalLine ==
  ASSUME TypeOK, NoIdIsThePrompts, NEW line \in Heard, Verdict(line) = "Normal"
  PROVE  TurnCompleted \in said
<1>1. CASE protocol = "acp"
  <2>1. line.kind \in {"answer", "request"} /\ line.id = PromptRequest /\ line.body # "error"
    BY <1>1 DEF Verdict
  <2>2. line.kind = "answer"
    BY <1>1, <2>1 DEF Heard, Line, Permission, Note, Junk, Binary, NoIdIsThePrompts,
                      PromptRequest
  <2>3. line.body # "session"
    BY <1>1, <2>1 DEF Heard, SessionOpened, Answer, SessionRequest, PromptRequest
  <2>4. line = Answer(PromptRequest, "bare")
    BY <2>1, <2>2, <2>3 DEF Heard, Line, Permission, Note, Junk, Binary, Answer
  <2>. QED
    BY <1>1, <2>4 DEF Heard, Telling, TurnCompleted
<1>2. CASE protocol # "acp"
  <2>1. line = Note("completed")
    BY <1>2 DEF Verdict
  <2>. QED
    BY <1>2, <2>1 DEF Heard, Telling, TurnCompleted
<1>. QED
  BY <1>1, <1>2

(* Judged is inductive.                                                      *)
LEMMA JudgeStep ==
  ASSUME TypeOK, NoIdIsThePrompts, Linked, Judged, [Next]_vars PROVE Judged'
<1>1. said \subseteq said' /\ UNCHANGED TurnCompleted
  BY Frame
<1>2. CASE ReadTurn
  <2>1. Head(stdout) \in Heard
    BY <1>2, HeadTailProperties DEF ReadTurn, Linked
  <2>2. verdict' = "Normal" => Verdict(Head(stdout)) = "Normal" \/ UNCHANGED verdict
    BY <1>2 DEF ReadTurn, EndTurn
  <2>3. verdict' = "Normal" => TurnCompleted' \in said'
    BY <1>1, <2>1, <2>2, NormalLine DEF Judged
  <2>. QED
    BY <1>2, <2>3 DEF ReadTurn, EndTurn, Judged
<1>3. CASE WriteRequest \/ ReadAnswer
  BY <1>1, <1>3 DEF WriteRequest, ReadAnswer, Advance, Return, Judged
<1>4. CASE TurnEnds \/ TurnTimesOut \/ Reply
  BY <1>1, <1>4 DEF TurnEnds, TurnTimesOut, Reply, EndTurn, Judged
<1>5. CASE Reap \/ CliGivesUp \/ Abort
  BY <1>1, <1>5 DEF Reap, CliGivesUp, Abort, Return, Reason, Judged
<1>6. CASE Agent
  BY <1>1, <1>6 DEF Agent, AgentReads, AgentSays, AgentEnds, Judged
<1>7. CASE UNCHANGED vars
  BY <1>1, <1>7 DEF vars, Judged
<1>. QED
  BY <1>2, <1>3, <1>4, <1>5, <1>6, <1>7 DEF Next, Run

(* Reaped is inductive: a process that has ended stays so.                   *)
LEMMA ReapStep ==
  ASSUME TypeOK, ResultMeansReaped, [Next]_vars PROVE ResultMeansReaped'
<1> USE DEF ResultMeansReaped, Ended
<1>1. CASE Run
  BY <1>1 DEF Run, WriteRequest, ReadAnswer, ReadTurn, TurnEnds, TurnTimesOut, Reply, Reap,
              CliGivesUp, Advance, EndTurn, Return, Reason
<1>2. CASE Abort
  BY <1>2 DEF Abort, Return
<1>3. CASE Agent
  BY <1>3 DEF Agent, AgentReads, AgentSays, AgentEnds
<1>4. CASE UNCHANGED vars
  BY <1>4 DEF vars
<1>. QED
  BY <1>1, <1>2, <1>3, <1>4 DEF Next

-----------------------------------------------------------------------------
(* The theorems.                                                             *)

(* Every value stays of its kind.                                            *)
THEOREM TypesHold == Spec => []TypeOK
<1>1. Init => TypeOK
  <2> SUFFICES ASSUME Init PROVE TypeOK
    OBVIOUS
  <2>1. step \in 1 .. Len(Handshake) + 1 /\ (at = "handshake" => step <= Len(Handshake))
    BY HandshakeIs DEF Init
  <2>2. stdin \in Seq(0 .. 4) /\ Len(stdin) <= Room /\ stdout \in Seq(Line) /\ Len(stdout) <= Room
    BY AgentRunAssumption DEF Init
  <2>. QED
    BY <2>1, <2>2 DEF Init, TypeOK
<1>. QED
  BY <1>1, TypeStep, PTL DEF Spec

(* What the lines in the pipes are worth, at every time.                     *)
LEMMA LinesAreWorth == Spec => []Linked
<1>1. Init => Linked
  <2> SUFFICES ASSUME Init PROVE Linked
    OBVIOUS
  <2>1. stdout \in Seq(Heard) /\ stdin \in Seq(Sendable) /\ asked \subseteq Sendable
    BY DEF Init
  <2>2. ~(step > SessionStep)
    BY DEF Init, SessionStep
  <2>. QED
    BY <2>1, <2>2 DEF Linked
<1>. QED
  BY <1>1, TypesHold, LinkStep, PTL DEF Spec

(* No agent reads a prompt before it has opened the session the prompt is for,*)
(* whatever lines pass for answers.                                          *)
THEOREM PromptsHaveSessions == Spec => []PromptNeedsSession
<1>1. Linked => PromptNeedsSession
  BY DEF Linked, Sendable, PromptNeedsSession
<1>. QED
  BY <1>1, LinesAreWorth, PTL

(* A run is reported Normal only if the turn was, for agents whose own ids    *)
(* never reach that of acp's prompt (find_permission shows one that does).    *)
THEOREM NormalRunsAreComplete ==
  ASSUME NoIdIsThePrompts PROVE Spec => []NormalIsCompleted
<1>1. Init => Judged
  BY DEF Init, Judged
<1>2. TypeOK /\ Linked /\ Judged /\ [Next]_vars => Judged'
  BY JudgeStep
<1>3. Judged => NormalIsCompleted
  BY DEF Judged, NormalIsCompleted
<1>. QED
  BY <1>1, <1>2, <1>3, TypesHold, LinesAreWorth, PTL DEF Spec

(* A result of the run's own leaves no process behind.                       *)
THEOREM ResultsAreReaped == Spec => []ResultMeansReaped
<1>1. Init => ResultMeansReaped
  BY DEF Init, ResultMeansReaped
<1>. QED
  BY <1>1, TypesHold, ReapStep, PTL DEF Spec
=============================================================================
