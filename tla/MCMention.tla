------------------------------ MODULE MCMention ------------------------------
(* FixPr with a record of when the orchestrator last had its say about the   *)
(* pull request, which is what docs/SPEC_ADDENDUM_2.md B.5.1 measures the     *)
(* newness of a mention by.                                                  *)
EXTENDS FixPr

WithHandle == {TRUE}

VARIABLE reacted  \* when a worker was last sent, or the head pushed (history)

Init == InitFixPr /\ reacted = 0

Next == NextFixPr /\ reacted' = IF Push \/ asking' = "dispatch" THEN clock ELSE reacted

Spec == Init /\ [][Next]_<<fixPrVars, reacted>>

(* The comment at client.rs:452 and B.4 of the addendum: comments on the pull *)
(* request and its review count like those on the issue.  None is overlooked  *)
(* that mentions the handle and is newer than the last push and the last      *)
(* worker, while nothing changes and no request fails.                       *)
PrMentionsCount ==
  asking = "wait" /\ quiet /\ pull /\ handle =>
    \A place \in {"pr", "review"} :
      \A k \in DOMAIN FirstPage(comments[place]) :
        comments[place][k].mention => comments[place][k].at <= reacted
=============================================================================
