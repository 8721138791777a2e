----------------------------- MODULE MCAgentRun -----------------------------
(* Instances of AgentRun for TLC.                                            *)
EXTENDS AgentRun

AllProtocols == {"codex", "acp", "cli"}
AcpOnly == {"acp"}
EarlyIds == {1}      \* the agent's own requests, counted from one
LaterIds == {3, 4}   \* the same agent's third and fourth
=============================================================================
