--------------------------- MODULE ClaimLifecycle ---------------------------
(***************************************************************************)
(* What the orchestrator promises of the claim on each issue, seen through *)
(* claim_state (symphony-orchestration/src/claim_state.rs): which moves a  *)
(* claim may make, one issue at a time, and how many issues may run.       *)
(* Orchestrator is shown to implement it.                                  *)
(*                                                                         *)
(* Missing on purpose: Claimed -> Running, Claimed -> RetryQueued,         *)
(* Unclaimed -> RetryQueued and RetryQueued -> Claimed.  In particular an  *)
(* issue never re-enters the retry queue without having run, and one whose *)
(* claim outlived its worker is not dispatched before it is released.      *)
(***************************************************************************)
EXTENDS Naturals, FiniteSets

CONSTANTS Issues, Capacity

VARIABLE claim       \* issue |-> what claim_state says of it

ClaimStates == {"Unclaimed", "Claimed", "Running", "RetryQueued"}

InState(c) == {i \in Issues : claim[i] = c}

Init == claim = [i \in Issues |-> "Unclaimed"]

Move(i, from, to) == claim[i] \in from /\ claim' = [claim EXCEPT ![i] = to]

(* A new candidate, or a due retry, takes a slot.                            *)
Dispatch(i) ==
  /\ Cardinality(InState("Running")) < Capacity
  /\ Move(i, {"Unclaimed", "RetryQueued"}, "Running")

Exit(i) == Move(i, {"Running"}, "RetryQueued")

(* The entry goes; the claim stays unless it was released before.            *)
Stall(i) == Move(i, {"Running"}, "Claimed") \/ Move(i, {"Running"}, "Unclaimed")

Release(i) == Move(i, {"RetryQueued", "Claimed"}, "Unclaimed")

(* The process dies with its memory.                                         *)
Restart == claim' = [i \in Issues |-> "Unclaimed"]

Next == \/ \E i \in Issues : Dispatch(i) \/ Exit(i) \/ Stall(i) \/ Release(i)
        \/ Restart

Spec == Init /\ [][Next]_claim
=============================================================================
