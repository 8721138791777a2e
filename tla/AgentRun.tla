------------------------------ MODULE AgentRun ------------------------------
(***************************************************************************)
(* One run of an agent: a function run_agent_* of symphony-agent, the      *)
(* child process it spawns and the two pipes between them, for the three   *)
(* protocols: codex (runner.rs), acp (acp.rs) and cli (stream_cli.rs).     *)
(*                                                                         *)
(* The agent is external: it may say any line it could have reason to say, *)
(* or nothing, and end at any time.  A timeout is a step that may be taken *)
(* whenever the run waits and no line is there, however early or late; it  *)
(* is for one line, so that an agent that goes on talking is never late.   *)
(* Dropping the run's future (abort) or returning an error drops the Child *)
(* without kill_on_drop: the process goes on, with its pipes closed.       *)
(***************************************************************************)
EXTENDS Naturals, Sequences

CONSTANTS
  Protocols,      \* runner.type values
  PermissionIds,  \* ids the agent gives to its own requests
  Room            \* bound: lines a pipe holds (64 KiB)

ASSUME AgentRunAssumption ==
  /\ Protocols \subseteq {"codex", "acp", "cli"}
  /\ PermissionIds \subseteq Nat /\ Room \in Nat \ {0}

VARIABLES
  protocol,  \* runner.type of this run
  at,        \* await the task is at: handshake, turn, reply, wait; or done
  step,      \* position in the handshake
  stdin,     \* requests and replies the agent has not read, by id
  stdout,    \* lines the run has not read
  child,     \* the process: running, or ended with success or failure
  asked,     \* requests the agent has read
  said,      \* the lines of Telling the agent has written (history)
  verdict,   \* exit_reason of the turn loop
  outcome    \* what the worker makes of the run's result (WorkerExitReason)

vars == <<protocol, at, step, stdin, stdout, child, asked, said, verdict, outcome>>

-----------------------------------------------------------------------------
(* Requests have the ids the code gives them; initialized, a notification,   *)
(* and replies to the agent have 0, as neither is answered.                  *)
Write(id) == [op |-> "write", id |-> id]
Read(id) == [op |-> "read", id |-> id]

Handshake ==
  CASE protocol = "codex" -> <<Write(1), Read(1), Write(0), Write(2), Read(2), Write(3), Read(3)>>
    [] protocol = "acp" -> <<Write(1), Read(1), Write(2), Read(2), Write(3), Read(3), Write(4)>>
    [] protocol = "cli" -> <<>>

SessionRequest == IF protocol = "codex" THEN 2 ELSE 3   \* thread/start, session/new
PromptRequest == IF protocol = "codex" THEN 3 ELSE 4    \* turn/start, session/prompt

(* Lines of an agent.  body of an answer: session (names the new session),   *)
(* error, or bare; of a note: what it tells about the turn.                  *)
Answer(id, body) == [kind |-> "answer", id |-> id, body |-> body]
Permission(id) == [kind |-> "request", id |-> id, body |-> "bare"]
Note(body) == [kind |-> "note", id |-> 0, body |-> body]
Junk == [kind |-> "junk", id |-> 0, body |-> "bare"]      \* not JSON
Binary == [kind |-> "binary", id |-> 0, body |-> "bare"]  \* not UTF-8
Turns == {"completed", "failed", "cancelled", "other"}

Line == [kind : {"answer"}, id : 1 .. 4, body : {"session", "error", "bare"}]
        \cup {Permission(id) : id \in PermissionIds} \cup {Note(b) : b \in Turns}
        \cup {Junk, Binary}

(* What it may say now: an answer to what it was asked, news of a turn it     *)
(* was given, anything else at any time.                                     *)
Sayable ==
  {Answer(id, body) : id \in asked \ {0}, body \in {"error", "bare"}}
  \cup {Answer(id, "session") : id \in asked \cap {SessionRequest}}
  \cup {Note(b) : b \in IF protocol = "acp" \/ (protocol = "codex" /\ PromptRequest \notin asked)
                        THEN {"other"} ELSE Turns}
  \cup (IF protocol = "cli" THEN {} ELSE {Permission(id) : id \in PermissionIds})
  \cup {Junk, Binary}

(* What opens the session, and what reports success of the turn.             *)
SessionOpened == Answer(SessionRequest, "session")
TurnCompleted == IF protocol = "acp" THEN Answer(PromptRequest, "bare") ELSE Note("completed")
Telling == {SessionOpened, TurnCompleted}

-----------------------------------------------------------------------------
(* The run.                                                                  *)
Ended == child # "running"

Return(result) == at' = "done" /\ outcome' = result

Advance == /\ step' = step + 1
           /\ at' = IF step = Len(Handshake) THEN "turn" ELSE "handshake"

(* A write has no timeout: it waits for room in the pipe, and fails when the  *)
(* process has ended, which fails the run.                                   *)
WriteRequest ==
  /\ at = "handshake" /\ Handshake[step].op = "write"
  /\ \/ /\ ~Ended /\ Len(stdin) < Room
        /\ stdin' = Append(stdin, Handshake[step].id)
        /\ Advance /\ UNCHANGED outcome
     \/ Ended /\ Return("Failed") /\ UNCHANGED <<step, stdin>>
  /\ UNCHANGED <<protocol, stdout, child, asked, said, verdict>>

(* Mutant: the answer that should name the session is not looked into.        *)
AcceptedBlindly(line, id) == line.kind = "answer"

(* Whether line passes for the answer to request id.  A request of the       *)
(* agent's own parses as a Response; codex compares ids, and takes anything  *)
(* but a Response for turn/start's answer; acp compares no ids.              *)
Accepted(line, id) ==
  IF protocol = "codex"
  THEN IF line.kind \in {"answer", "request"}
       THEN /\ line.id = id /\ line.body # "error"
            /\ id = SessionRequest => line.body = "session"
       ELSE id = PromptRequest /\ line.kind # "binary"
  ELSE /\ line.kind \notin {"junk", "binary"}
       /\ IF id = SessionRequest THEN line.body = "session" ELSE line.body # "error"

(* One line is read, the end of the stream as an empty line; or none comes    *)
(* within read_timeout_ms.                                                   *)
ReadAnswer ==
  /\ at = "handshake" /\ Handshake[step].op = "read"
  /\ LET id == Handshake[step].id
         Takes(line) == IF Accepted(line, id)
                        THEN Advance /\ UNCHANGED outcome
                        ELSE Return("Failed") /\ UNCHANGED step
     IN \/ stdout # <<>> /\ stdout' = Tail(stdout) /\ Takes(Head(stdout))
        \/ stdout = <<>> /\ Ended /\ UNCHANGED stdout /\ Takes(Junk)
        \/ stdout = <<>> /\ ~Ended /\ Return("Failed") /\ UNCHANGED <<step, stdout>>
  /\ UNCHANGED <<protocol, stdin, child, asked, said, verdict>>

(* Mutant: turn/failed is taken for the end of the turn.                      *)
VerdictIgnoringKind(line) ==
  IF line.body \in {"completed", "failed"} \/ line.id = PromptRequest THEN "Normal" ELSE "none"

(* What a line decides about the turn.  acp looks at the id alone.            *)
Verdict(line) ==
  CASE line.kind = "binary" -> "ProcessError"
    [] protocol = "acp" /\ line.kind \in {"answer", "request"} /\ line.id = PromptRequest ->
         IF line.body = "error" THEN "TurnFailed" ELSE "Normal"
    [] protocol # "acp" /\ line = Note("completed") -> "Normal"
    [] protocol # "acp" /\ line = Note("failed") -> "TurnFailed"
    [] protocol = "codex" /\ line = Note("cancelled") -> "TurnCancelled"
    [] OTHER -> "none"

EndTurn(reason) == verdict' = reason /\ at' = "wait"

(* The turn loop; the timeout runs anew for every line.  A permission request *)
(* is answered before the next line is read.                                 *)
ReadTurn ==
  /\ at = "turn" /\ stdout # <<>>
  /\ stdout' = Tail(stdout)
  /\ LET line == Head(stdout) IN
     IF Verdict(line) # "none" THEN EndTurn(Verdict(line))
     ELSE /\ at' = IF protocol = "acp" /\ line.kind = "request" THEN "reply" ELSE "turn"
          /\ UNCHANGED verdict
  /\ UNCHANGED <<protocol, step, stdin, child, asked, said, outcome>>

TurnEnds ==
  /\ at = "turn" /\ stdout = <<>>
  /\ Ended /\ EndTurn("ProcessError")
  /\ UNCHANGED <<protocol, step, stdin, stdout, child, asked, said, outcome>>

(* Mutant: only the handshake is timed.                                       *)
TurnTimesOutNever == FALSE /\ UNCHANGED vars

TurnTimesOut ==
  /\ at = "turn" /\ stdout = <<>>
  /\ ~Ended /\ EndTurn("TurnTimeout")
  /\ UNCHANGED <<protocol, step, stdin, stdout, child, asked, said, outcome>>

(* Mutant: a write is taken never to wait.                                    *)
ReplyWithoutRoom ==
  /\ at = "reply" /\ at' = "turn"
  /\ stdin' = IF Ended THEN stdin ELSE Append(stdin, 0)
  /\ UNCHANGED <<protocol, step, stdout, child, asked, said, verdict, outcome>>

(* A failing reply is ignored.                                               *)
Reply ==
  /\ at = "reply" /\ at' = "turn"
  /\ \/ Ended /\ UNCHANGED stdin
     \/ ~Ended /\ Len(stdin) < Room /\ stdin' = Append(stdin, 0)
  /\ UNCHANGED <<protocol, step, stdout, child, asked, said, verdict, outcome>>

(* run_worker_to_completion maps exit reasons; an error is a failure.         *)
Reason ==
  CASE verdict = "Normal" -> "Normal"
    [] verdict = "TurnTimeout" -> "TimedOut"
    [] verdict = "TurnCancelled" -> "CanceledByReconciliation"
    [] OTHER -> "Failed"

(* stdin is shut down, the process waited for; its exit code overrides the    *)
(* verdict.                                                                  *)
Reap ==
  /\ at = "wait" /\ Ended
  /\ Return(IF child = "success" THEN Reason ELSE "Failed")
  /\ UNCHANGED <<protocol, step, stdin, stdout, child, asked, said, verdict>>

(* Mutants: a process that outlives the 10 s is left alone; it is waited for. *)
CliGivesUpWithoutKill ==
  /\ at = "wait" /\ protocol = "cli" /\ ~Ended
  /\ Return(IF verdict = "Normal" THEN "Normal" ELSE "Failed")
  /\ UNCHANGED <<protocol, step, stdin, stdout, child, asked, said, verdict>>
CliGivesUpNever == FALSE /\ UNCHANGED vars

(* cli alone limits the wait, to 10 s, and kills.                            *)
CliGivesUp ==
  /\ at = "wait" /\ protocol = "cli" /\ ~Ended
  /\ child' = "failure"
  /\ Return(IF verdict = "Normal" THEN "Normal" ELSE "Failed")
  /\ UNCHANGED <<protocol, step, stdin, stdout, asked, said, verdict>>

(* The orchestrator aborts the worker task at one of its awaits.             *)
Abort ==
  /\ at # "done" /\ Return("Aborted")
  /\ UNCHANGED <<protocol, step, stdin, stdout, child, asked, said, verdict>>

-----------------------------------------------------------------------------
(* The agent.                                                                *)
AgentReads ==
  /\ ~Ended /\ stdin # <<>>
  /\ stdin' = Tail(stdin) /\ asked' = asked \cup {Head(stdin)}
  /\ UNCHANGED <<protocol, at, step, stdout, child, said, verdict, outcome>>

(* It waits when the pipe is full, or is killed by writing to a closed one.   *)
AgentSays(line) ==
  /\ ~Ended /\ line \in Sayable
  /\ \/ /\ at # "done" /\ Len(stdout) < Room
        /\ stdout' = Append(stdout, line) /\ said' = said \cup ({line} \cap Telling)
        /\ UNCHANGED child
     \/ at = "done" /\ child' = "failure" /\ UNCHANGED <<stdout, said>>
  /\ UNCHANGED <<protocol, at, step, stdin, asked, verdict, outcome>>

AgentEnds(status) ==
  /\ ~Ended /\ child' = status
  /\ UNCHANGED <<protocol, at, step, stdin, stdout, asked, said, verdict, outcome>>

-----------------------------------------------------------------------------
(* cli has no handshake: the prompt is an argument.                           *)
Init ==
  /\ protocol \in Protocols
  /\ at = (IF protocol = "cli" THEN "turn" ELSE "handshake") /\ step = 1
  /\ stdin = <<>> /\ stdout = <<>> /\ child = "running"
  /\ asked = {} /\ said = {}
  /\ verdict = "none" /\ outcome = "none"

Run == \/ WriteRequest \/ ReadAnswer \/ ReadTurn \/ TurnEnds \/ TurnTimesOut
       \/ Reply \/ Reap \/ CliGivesUp

Agent == \/ AgentReads
         \/ \E line \in Line : AgentSays(line)
         \/ \E status \in {"success", "failure"} : AgentEnds(status)

Next == Run \/ Abort \/ Agent

Spec == Init /\ [][Next]_vars

(* The runtime polls the task, and timers fire; nothing is assumed of agents. *)
FairSpec == Spec /\ WF_vars(Run)

-----------------------------------------------------------------------------
TypeOK ==
  /\ protocol \in Protocols
  /\ at \in {"handshake", "turn", "reply", "wait", "done"}
  /\ step \in 1 .. Len(Handshake) + 1
  /\ at = "handshake" => step <= Len(Handshake)
  /\ stdin \in Seq(0 .. 4) /\ Len(stdin) <= Room
  /\ stdout \in Seq(Line) /\ Len(stdout) <= Room
  /\ child \in {"running", "success", "failure"}
  /\ asked \subseteq 0 .. 4 /\ said \subseteq Telling
  /\ verdict \in {"none", "Normal", "TurnFailed", "TurnCancelled", "TurnTimeout", "ProcessError"}
  /\ outcome \in {"none", "Normal", "TimedOut", "Failed", "CanceledByReconciliation", "Aborted"}

(* A run is reported Normal only when the agent reported the turn complete,   *)
(* whatever other lines, late answers and permission requests came between.  *)
NormalIsCompleted == outcome = "Normal" => TurnCompleted \in said

(* The prompt is sent only in a session the agent has opened, although acp    *)
(* lets a stray line pass for an answer.                                     *)
PromptNeedsSession ==
  PromptRequest \in asked => SessionOpened \in said

(* A run with a result of its own has no process left; only errors and aborts *)
(* leave one behind.                                                         *)
ResultMeansReaped ==
  outcome \in {"Normal", "TimedOut", "CanceledByReconciliation"} => Ended

(* A cli run ends, unless the agent goes on talking for ever: silence, a      *)
(* refusal to exit or a full pipe do not keep it.                            *)
CliReturns ==
  protocol = "cli" => <>(at = "done") \/ []<><<\E line \in Line : AgentSays(line)>>_vars

(* Any run that does not end listens to an agent that goes on talking, or is  *)
(* at one of the awaits without a timeout: a write to an agent that does not  *)
(* read, or the wait for one that stays.                                     *)
HangsOnlyUntimed ==
  \/ <>(at = "done")
  \/ []<><<ReadTurn>>_vars
  \/ <>[](\/ ~Ended /\ at = "wait" /\ protocol # "cli"
          \/ ~Ended /\ Len(stdin) = Room /\ at \in {"handshake", "reply"})
=============================================================================
