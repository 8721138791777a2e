------------------------------- MODULE FixPr -------------------------------
(***************************************************************************)
(* Whether an issue with an open pull request gets a worker: the requests  *)
(* dispatch_new_candidates makes one after the other (loop_.rs) while the  *)
(* pull request is pushed to, checked and commented on, and what it makes  *)
(* of the answers.  Decided anew at every tick.                            *)
(*                                                                         *)
(* Of a check run or a status only matters whether it counts as failed; of *)
(* a comment where and when it was written, and whether it mentions the    *)
(* handle.  Times are in whole seconds, as GitHub's.                       *)
(***************************************************************************)
EXTENDS Naturals, Sequences

CONSTANTS
  ChecksPerPage, CommentsPerPage,  \* PER_PAGE
  Handles,                         \* values of "mention_handle is set"
  MaxChecks, MaxComments, MaxClock \* bounds: check runs, comments, time

ASSUME FixPrAssumption ==
  /\ ChecksPerPage \in Nat \ {0} /\ CommentsPerPage \in Nat \ {0}
  /\ Handles \subseteq BOOLEAN /\ MaxChecks \in Nat

VARIABLES
  pull,      \* whether a pull request with the issue's head branch is open
  checks,    \* failed or not, for each check run of its head
  status,    \* whether the combined status of its head is failed
  comments,  \* in each place, oldest first
  updated,   \* updated_at of the pull request
  clock,
  asking,    \* the request to be made next; dispatch or wait: decided; idle
  handle,    \* whether a mention_handle is configured
  runs_page, \* page of check runs
  cutoff, any_check_failed, commit_failed, has_mention,  \* as in the code
  quiet,     \* nothing changed and no request failed since the decision began (history)
  failing    \* a failed check or status was there since then (history)

source == <<pull, checks, status, comments, updated, clock>>
read == <<handle, runs_page, cutoff, any_check_failed, commit_failed, has_mention>>
fixPrVars == <<source, asking, read, quiet, failing>>

-----------------------------------------------------------------------------
Places == {"issue", "pr", "review"}
Requests == {"pull", "checks", "status"} \cup Places

Failed(runs) == \E k \in DOMAIN runs : runs[k]
Failing == pull /\ (Failed(checks) \/ status)

(* The mentions a request for comments can see: of its first page alone, and  *)
(* written in a second after the cutoff.                                     *)
FirstPage(list) == SubSeq(list, 1, IF Len(list) < CommentsPerPage THEN Len(list) ELSE CommentsPerPage)

Qualifies(comment) == comment.mention /\ comment.at > cutoff
Seen(place) == \E k \in DOMAIN FirstPage(comments[place]) : Qualifies(comments[place][k])

-----------------------------------------------------------------------------
(* The tick.                                                                 *)
Ask(next) == asking' = next

(* Mutant: a mention found at an earlier tick is remembered.                  *)
BeginKeepsMention ==
  /\ asking \in {"idle", "dispatch", "wait"}
  /\ Ask("pull") /\ runs_page' = 1 /\ cutoff' = 0
  /\ any_check_failed' = FALSE /\ commit_failed' = FALSE /\ UNCHANGED has_mention
  /\ quiet' = TRUE /\ failing' = Failing
  /\ UNCHANGED <<source, handle>>

(* A tick comes to the issue.                                                *)
Begin ==
  /\ asking \in {"idle", "dispatch", "wait"}
  /\ Ask("pull") /\ runs_page' = 1 /\ cutoff' = 0
  /\ any_check_failed' = FALSE /\ commit_failed' = FALSE /\ has_mention' = FALSE
  /\ quiet' = TRUE /\ failing' = Failing
  /\ UNCHANGED <<source, handle>>

(* resolve_pr_for_issue.                                                     *)
ResolvePr ==
  /\ asking = "pull"
  /\ IF pull THEN Ask("checks") /\ cutoff' = updated ELSE Ask("wait") /\ UNCHANGED cutoff
  /\ UNCHANGED <<source, handle, runs_page, any_check_failed, commit_failed, has_mention, quiet, failing>>

(* What follows the checks: the status only while no check has failed.        *)
AfterStatus == IF handle THEN "issue" ELSE
               IF any_check_failed' \/ commit_failed' THEN "dispatch" ELSE "wait"
AfterChecks == IF any_check_failed' THEN AfterStatus ELSE "status"

(* Mutant: the first page is all.                                             *)
FirstPageOnly(runs) == TRUE
LastPage(runs) == Len(runs) < ChecksPerPage

(* fetch_check_runs_for_ref, one page.                                       *)
FetchCheckRuns ==
  /\ asking = "checks"
  /\ LET first == (runs_page - 1) * ChecksPerPage + 1
         end == IF first + ChecksPerPage > Len(checks) THEN Len(checks) ELSE first + ChecksPerPage - 1
         runs == SubSeq(checks, first, end)
     IN /\ any_check_failed' = (any_check_failed \/ Failed(runs))
        /\ UNCHANGED commit_failed
        /\ IF LastPage(runs) THEN Ask(AfterChecks) /\ UNCHANGED runs_page
                             ELSE runs_page' = runs_page + 1 /\ UNCHANGED asking
  /\ UNCHANGED <<source, handle, cutoff, has_mention, quiet, failing>>

FetchCommitStatus ==
  /\ asking = "status"
  /\ commit_failed' = status /\ UNCHANGED any_check_failed
  /\ Ask(AfterStatus)
  /\ UNCHANGED <<source, handle, runs_page, cutoff, has_mention, quiet, failing>>

(* fetch_has_qualifying_mention: issue, pull request, review comments; the    *)
(* first mention ends it.                                                    *)
AfterMentions == IF any_check_failed \/ commit_failed \/ has_mention' THEN "dispatch" ELSE "wait"
NextPlace == CASE asking = "issue" -> "pr" [] asking = "pr" -> "review" [] asking = "review" -> AfterMentions

FetchComments ==
  /\ asking \in Places
  /\ has_mention' = Seen(asking)
  /\ Ask(IF has_mention' THEN AfterMentions ELSE NextPlace)
  /\ UNCHANGED <<source, handle, runs_page, cutoff, any_check_failed, commit_failed, quiet, failing>>

(* Mutant: checks that cannot be read are taken for failed.                   *)
ChecksUnreadableFail ==
  /\ asking = "checks" /\ any_check_failed' = TRUE /\ UNCHANGED commit_failed /\ Ask(AfterChecks)
  /\ quiet' = FALSE
  /\ UNCHANGED <<source, handle, runs_page, cutoff, has_mention, failing>>

(* A failing request counts as no failure, pages read before being dropped.   *)
ChecksFail ==
  /\ asking = "checks" /\ any_check_failed' = FALSE /\ UNCHANGED commit_failed /\ Ask(AfterChecks)
  /\ quiet' = FALSE
  /\ UNCHANGED <<source, handle, runs_page, cutoff, has_mention, failing>>

(* The other requests: the issue is skipped; no failing status; no mention.   *)
(* A refused request for comments leaves the other places.                   *)
RequestFails ==
  /\ asking \in Requests \ {"checks"}
  /\ UNCHANGED <<any_check_failed, commit_failed, has_mention>>
  /\ \/ asking = "pull" /\ Ask("wait")
     \/ asking = "status" /\ Ask(AfterStatus)
     \/ asking \in Places /\ asking' \in {NextPlace, AfterMentions}
  /\ quiet' = FALSE
  /\ UNCHANGED <<source, handle, runs_page, cutoff, failing>>

-----------------------------------------------------------------------------
(* GitHub.                                                                   *)
Changes ==
  /\ quiet' = FALSE /\ failing' = (failing \/ Failing')
  /\ UNCHANGED <<clock, asking, read>>

(* A push: another head without checks, which updates the pull request.       *)
Push ==
  /\ pull' = TRUE /\ checks' = <<>> /\ status' = FALSE /\ updated' = clock
  /\ UNCHANGED comments /\ Changes

Merge ==
  /\ pull /\ pull' = FALSE /\ updated' = clock
  /\ UNCHANGED <<checks, status, comments>> /\ Changes

CheckEnds(failed) ==
  /\ pull /\ Len(checks) < MaxChecks
  /\ checks' = Append(checks, failed) /\ status' \in {status, failed}
  /\ UNCHANGED <<pull, comments, updated>> /\ Changes

(* A comment on the pull request, of either kind, updates it; one on the      *)
(* issue does not.                                                           *)
Comment(place, mention) ==
  /\ Len(comments["issue"]) + Len(comments["pr"]) + Len(comments["review"]) < MaxComments
  /\ comments' = [comments EXCEPT ![place] = Append(@, [at |-> clock, mention |-> mention])]
  /\ updated' = IF place = "issue" THEN updated ELSE clock
  /\ UNCHANGED <<pull, checks, status>> /\ Changes

TimePasses ==
  /\ clock < MaxClock /\ clock' = clock + 1
  /\ UNCHANGED <<pull, checks, status, comments, updated, asking, read, quiet, failing>>

FixPrIdle ==
  /\ pull = FALSE /\ checks = <<>> /\ status = FALSE /\ updated = 0 /\ clock = 1
  /\ comments = [p \in Places |-> <<>>]
  /\ asking = "idle" /\ runs_page = 1 /\ cutoff = 0
  /\ any_check_failed = FALSE /\ commit_failed = FALSE /\ has_mention = FALSE
  /\ quiet = TRUE /\ failing = FALSE

InitFixPr == FixPrIdle /\ handle \in Handles

NextFixPr ==
  \/ Begin \/ ResolvePr \/ FetchCheckRuns \/ FetchCommitStatus \/ FetchComments
  \/ ChecksFail \/ RequestFails
  \/ Push \/ Merge \/ TimePasses
  \/ \E failed \in BOOLEAN : CheckEnds(failed)
  \/ \E place \in Places, mention \in BOOLEAN : Comment(place, mention)

FixPrSpec == InitFixPr /\ [][NextFixPr]_fixPrVars

-----------------------------------------------------------------------------
FixPrTypeOK ==
  /\ asking \in Requests \cup {"idle", "dispatch", "wait"}
  /\ runs_page \in 1 .. MaxChecks \div ChecksPerPage + 1
  /\ updated <= clock /\ cutoff <= updated
  /\ asking \in Places => handle
  /\ asking \in {"checks", "status"} => ~commit_failed /\ ~has_mention

(* A worker is sent only for a failure that was there at some moment of the   *)
(* decision, or a mention after the pull request's last update as it was read:*)
(* an update, such as the agent's own push, settles all mentions before it,   *)
(* and requests that fail never count as failures.                           *)
MentionSince ==
  \E place \in Places : \E k \in DOMAIN comments[place] : Qualifies(comments[place][k])
DispatchHasReason == asking = "dispatch" => failing \/ MentionSince

(* While nothing changes and no request fails, no failed check, on whichever  *)
(* page, no failed status and no mention that Qualifies, on the first page,   *)
(* is overlooked.  (MCMention has what else the documents count as new.)      *)
WaitHasNoReason ==
  asking = "wait" /\ quiet /\ pull =>
    ~Failing /\ (handle => \A place \in Places : ~Seen(place))
=============================================================================
