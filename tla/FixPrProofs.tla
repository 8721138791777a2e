---------------------------- MODULE FixPrProofs -----------------------------
(***************************************************************************)
(* Proofs about FixPr, for every size of the pages and every bound on      *)
(* checks, comments and time.                                              *)
(***************************************************************************)
EXTENDS FixPr, SequenceTheorems, TLAPS

-----------------------------------------------------------------------------
Message == [at : Nat, mention : BOOLEAN]
Decided == {"idle", "dispatch", "wait"}

Typed ==
  /\ pull \in BOOLEAN /\ checks \in Seq(BOOLEAN) /\ status \in BOOLEAN
  /\ comments \in [Places -> Seq(Message)]
  /\ updated \in Nat /\ clock \in Nat /\ cutoff \in Nat
  /\ asking \in Requests \cup Decided /\ handle \in BOOLEAN /\ runs_page \in Nat \ {0}
  /\ any_check_failed \in BOOLEAN /\ commit_failed \in BOOLEAN /\ has_mention \in BOOLEAN
  /\ quiet \in BOOLEAN /\ failing \in BOOLEAN

(* Whatever counts as a failure was one since the decision began, also when   *)
(* the head has changed between the requests; a mention found is still there. *)
Caused ==
  /\ asking = "pull" => /\ Failing => failing
                        /\ ~any_check_failed /\ ~commit_failed /\ ~has_mention
                        /\ runs_page = 1
  /\ asking \in {"checks", "status"} => (Failed(checks) \/ status => failing)
  /\ any_check_failed \/ commit_failed => failing
  /\ has_mention => MentionSince
  /\ asking = "dispatch" => any_check_failed \/ commit_failed \/ has_mention

(* What has been read so far of a pull request nobody touches was told.       *)
Told ==
  quiet /\ pull =>
    /\ asking = "checks" =>
         \A k \in DOMAIN checks :
           checks[k] /\ k <= (runs_page - 1) * ChecksPerPage => any_check_failed
    /\ asking \in {"status", "wait"} \cup Places => (Failed(checks) => any_check_failed)
    /\ asking \in {"wait"} \cup Places => (status => any_check_failed \/ commit_failed)
    /\ asking \in {"pr", "review"} => ~Seen("issue")
    /\ asking = "review" => ~Seen("pr")
    /\ asking = "wait" => /\ ~any_check_failed /\ ~commit_failed
                          /\ handle => \A place \in Places : ~Seen(place)

IInv == Typed /\ Caused /\ Told

-----------------------------------------------------------------------------
(* Lists and their pages.                                                    *)
LEMMA AppendIs ==
  ASSUME NEW S, NEW list \in Seq(S), NEW x \in S
  PROVE  /\ Append(list, x) \in Seq(S)
         /\ DOMAIN list \subseteq DOMAIN Append(list, x)
         /\ \A k \in DOMAIN list : Append(list, x)[k] = list[k]
         /\ \A k \in DOMAIN Append(list, x) \ DOMAIN list : Append(list, x)[k] = x
  BY AppendProperties

(* A mention on the first page is a mention.                                 *)
LEMMA SeenIsThere ==
  ASSUME Typed, NEW place \in Places, Seen(place)
  PROVE  MentionSince
<1>1. DOMAIN FirstPage(comments[place]) \subseteq DOMAIN comments[place]
  BY FixPrAssumption DEF Typed, FirstPage
<1>. QED
  BY <1>1 DEF Seen, MentionSince

(* The page of check runs asked for is a part of them: between Start and End. *)
Start == (runs_page - 1) * ChecksPerPage
End == IF Start + 1 + ChecksPerPage > Len(checks) THEN Len(checks)
                                                  ELSE Start + 1 + ChecksPerPage - 1
Page == SubSeq(checks, Start + 1, End)

LEMMA StartsAreApart ==
  ASSUME Typed
  PROVE  /\ Start \in Nat
         /\ (runs_page + 1 - 1) * ChecksPerPage = Start + ChecksPerPage
<1>1. ASSUME NEW m \in Nat, NEW n \in Nat
      PROVE  m * n \in Nat /\ (m + 1) * n = m * n + n
  OBVIOUS
<1>2. runs_page - 1 \in Nat /\ runs_page + 1 - 1 = (runs_page - 1) + 1
  BY DEF Typed
<1>. QED
  BY <1>1, <1>2, FixPrAssumption DEF Start

LEMMA PageIsPart ==
  ASSUME Typed
  PROVE  /\ End \in Nat
         /\ \A k \in Start + 1 .. End : checks[k] => Failed(Page)
         /\ Failed(Page) => Failed(checks)
         /\ End = IF LastPage(Page) THEN Len(checks) ELSE Start + ChecksPerPage
<1>1. /\ Start \in Nat /\ ChecksPerPage \in Nat \ {0}
      /\ checks \in Seq(BOOLEAN) /\ Len(checks) \in Nat
  BY StartsAreApart, FixPrAssumption DEF Typed
<1>2. End \in Nat /\ End <= Len(checks)
  BY <1>1 DEF End
<1>3. \A k \in Start + 1 .. End : checks[k] \in BOOLEAN
  BY <1>1, <1>2
<1>4. /\ Len(Page) = IF Start + 1 <= End THEN End - (Start + 1) + 1 ELSE 0
      /\ \A k \in 1 .. End - (Start + 1) + 1 : Page[k] = checks[Start + 1 + k - 1]
      /\ Page \in Seq(BOOLEAN)
  BY <1>1, <1>2, <1>3, SubSeqProperties DEF Page
<1>5. ASSUME NEW k \in Start + 1 .. End, checks[k]
      PROVE  Failed(Page)
  <2>1. k - Start \in 1 .. Len(Page) /\ Page[k - Start] = checks[k]
    BY <1>1, <1>2, <1>4
  <2>2. k - Start \in DOMAIN Page /\ Page[k - Start]
    BY <1>4, <1>5, <2>1
  <2>. QED
    BY <2>2, Zenon DEF Failed
<1>6. ASSUME NEW k \in DOMAIN Page, Page[k]
      PROVE  Failed(checks)
  <2>1. Start + k \in 1 .. Len(checks) /\ checks[Start + k] = Page[k]
    BY <1>1, <1>2, <1>4
  <2>2. Start + k \in DOMAIN checks /\ checks[Start + k]
    BY <1>1, <1>6, <2>1
  <2>. QED
    BY <2>2, Zenon DEF Failed
<1>7. End = IF LastPage(Page) THEN Len(checks) ELSE Start + ChecksPerPage
  <2>1. CASE Start + 1 + ChecksPerPage > Len(checks)
    <3>1. End = Len(checks) /\ Len(Page) <= ChecksPerPage
      BY <1>1, <1>4, <2>1 DEF End
    <3>2. Len(Page) >= ChecksPerPage => Len(checks) = Start + ChecksPerPage
      BY <1>1, <1>4, <2>1, <3>1
    <3>. QED
      BY <1>1, <1>4, <3>1, <3>2 DEF LastPage
  <2>2. CASE Start + 1 + ChecksPerPage <= Len(checks)
    <3>1. End = Start + ChecksPerPage /\ Len(Page) = ChecksPerPage
      BY <1>1, <1>4, <2>2 DEF End
    <3>. QED
      BY <1>1, <3>1 DEF LastPage
  <2>. QED
    BY <1>1, <2>1, <2>2
<1>. QED
  BY <1>2, <1>5, <1>6, <1>7 DEF Failed

(* A comment is added at the end of one list; those there stay.              *)
LEMMA Written ==
  ASSUME Typed, NEW place \in Places, NEW mention \in BOOLEAN, Comment(place, mention)
  PROVE  /\ comments' \in [Places -> Seq(Message)]
         /\ \A p \in Places : \A k \in DOMAIN comments[p] :
              k \in DOMAIN comments'[p] /\ comments'[p][k] = comments[p][k]
         /\ \A p \in Places : \A k \in DOMAIN comments'[p] :
              \/ k \in DOMAIN comments[p] /\ comments'[p][k] = comments[p][k]
              \/ p = place /\ comments'[p][k].at = clock
<1> DEFINE x == [at |-> clock, mention |-> mention]
<1>1. x \in Message /\ comments[place] \in Seq(Message)
  BY DEF Typed, Message
<1>2. comments' = [comments EXCEPT ![place] = Append(comments[place], x)]
  BY DEF Comment
<1>3. comments'[place] = Append(comments[place], x)
      /\ \A p \in Places \ {place} : comments'[p] = comments[p]
  BY <1>2 DEF Typed
<1>4. x.at = clock
  OBVIOUS
<1> HIDE DEF x
<1>5. comments' \in [Places -> Seq(Message)]
  BY <1>1, <1>2, AppendIs DEF Typed
<1>6. ASSUME NEW k \in DOMAIN comments[place]
      PROVE  k \in DOMAIN comments'[place] /\ comments'[place][k] = comments[place][k]
  <2>1. k \in DOMAIN Append(comments[place], x)
        /\ Append(comments[place], x)[k] = comments[place][k]
    BY <1>1, AppendIs
  <2>. QED
    BY <1>3, <2>1
<1>7. ASSUME NEW k \in DOMAIN comments'[place], k \notin DOMAIN comments[place]
      PROVE  comments'[place][k] = x
  <2>1. k \in DOMAIN Append(comments[place], x)
    BY <1>3
  <2>2. Append(comments[place], x)[k] = x
    BY <1>1, <1>7, <2>1, AppendIs
  <2>. QED
    BY <1>3, <2>2
<1>8. ASSUME NEW k \in DOMAIN comments'[place], k \in DOMAIN comments[place]
      PROVE  comments'[place][k] = comments[place][k]
  BY <1>6, <1>8
<1>. QED
  BY <1>3, <1>4, <1>5, <1>6, <1>7, <1>8

-----------------------------------------------------------------------------
(* Every step keeps the types.                                               *)
LEMMA TypedStep ==
  ASSUME Typed, [NextFixPr]_fixPrVars PROVE Typed'
<1> USE DEF Typed, Message, Decided, Requests, Places
<1>1. CASE Begin
  <2>1. Failing \in BOOLEAN
    BY DEF Failing, Failed
  <2>2. failing' \in BOOLEAN
    BY <1>1, <2>1, Zenon DEF Begin
  <2>3. /\ asking' = "pull" /\ runs_page' = 1 /\ cutoff' = 0 /\ quiet' = TRUE
        /\ any_check_failed' = FALSE /\ commit_failed' = FALSE /\ has_mention' = FALSE
        /\ UNCHANGED <<pull, checks, status, comments, updated, clock, handle>>
    BY <1>1 DEF Begin, Ask, source
  <2>4. /\ pull' \in BOOLEAN /\ checks' \in Seq(BOOLEAN) /\ status' \in BOOLEAN
        /\ comments' \in [Places -> Seq(Message)]
        /\ updated' \in Nat /\ clock' \in Nat /\ cutoff' \in Nat /\ runs_page' \in Nat \ {0}
        /\ asking' \in Requests \cup Decided
    BY <2>3
  <2>5. /\ handle' \in BOOLEAN /\ any_check_failed' \in BOOLEAN /\ commit_failed' \in BOOLEAN
        /\ has_mention' \in BOOLEAN /\ quiet' \in BOOLEAN
    BY <2>3
  <2>. QED
    BY <2>2, <2>4, <2>5, Zenon DEF Typed
<1>2. CASE ResolvePr
  BY <1>2 DEF ResolvePr, Ask, source
<1>3. CASE FetchCheckRuns
  BY <1>3 DEF FetchCheckRuns, LastPage, AfterChecks, AfterStatus, Ask, source
<1>4. CASE FetchCommitStatus
  BY <1>4 DEF FetchCommitStatus, AfterStatus, Ask, source
<1>5. CASE FetchComments
  <2>1. Seen(asking) \in BOOLEAN
    BY DEF Seen
  <2>. QED
    BY <1>5, <2>1 DEF FetchComments, AfterMentions, NextPlace, Ask, source
<1>6. CASE ChecksFail
  BY <1>6 DEF ChecksFail, AfterChecks, AfterStatus, Ask, source
<1>7. CASE RequestFails
  BY <1>7 DEF RequestFails, AfterStatus, AfterMentions, NextPlace, Ask, source
<1>8. CASE Push
  <2>1. checks' \in Seq(BOOLEAN) /\ Failing' \in BOOLEAN
    BY <1>8 DEF Push, Failing, Failed
  <2>. QED
    BY <1>8, <2>1 DEF Push, Changes, read
<1>9. CASE Merge
  BY <1>9 DEF Merge, Changes, read
<1>10. CASE TimePasses
  BY <1>10 DEF TimePasses, read
<1>11. ASSUME NEW failed \in BOOLEAN, CheckEnds(failed) PROVE Typed'
  <2>1. checks' \in Seq(BOOLEAN)
    BY <1>11, AppendIs DEF CheckEnds
  <2>2. pull' \in BOOLEAN /\ Failing' \in BOOLEAN
    BY <1>11 DEF CheckEnds, Failing, Failed
  <2>. QED
    BY <1>11, <2>1, <2>2 DEF CheckEnds, Changes, read
<1>12. ASSUME NEW place \in Places, NEW mention \in BOOLEAN, Comment(place, mention)
       PROVE  Typed'
  <2>1. comments' \in [Places -> Seq(Message)]
    BY <1>12, Written
  <2>2. updated' \in Nat
    BY <1>12 DEF Comment
  <2>3. Failing' \in BOOLEAN
    BY <1>12 DEF Comment, Failing, Failed
  <2>. QED
    BY <1>12, <2>1, <2>2, <2>3 DEF Comment, Changes, read
<1>13. CASE UNCHANGED fixPrVars
  BY <1>13 DEF fixPrVars, source, read
<1>. QED
  BY <1>1, <1>2, <1>3, <1>4, <1>5, <1>6, <1>7, <1>8, <1>9, <1>10, <1>11, <1>12,
     <1>13 DEF NextFixPr

(* A failure or a mention that counts has been there.                        *)
LEMMA CausedStep ==
  ASSUME Typed, Caused, [NextFixPr]_fixPrVars PROVE Caused'
<1> USE DEF Typed, Message, Decided, Requests, Places, Caused, Failing, Failed,
            MentionSince, Qualifies, Seen, FirstPage
<1>1. CASE Begin
  BY <1>1 DEF Begin, Ask, source
<1>2. CASE ResolvePr
  BY <1>2 DEF ResolvePr, Ask, source
<1>3. CASE FetchCheckRuns
  <2>1. any_check_failed' = (any_check_failed \/ Failed(Page))
    BY <1>3 DEF FetchCheckRuns, Page, Start, End
  <2>2. any_check_failed' => any_check_failed \/ Failed(checks)
    BY <2>1, PageIsPart
  <2>. QED
    BY <1>3, <2>2 DEF FetchCheckRuns, AfterChecks, AfterStatus, Ask, source
<1>4. CASE FetchCommitStatus
  BY <1>4 DEF FetchCommitStatus, AfterStatus, Ask, source
<1>5. CASE FetchComments
  <2>1. Seen(asking) => MentionSince
    BY <1>5, SeenIsThere DEF FetchComments
  <2>2. MentionSince' <=> MentionSince
    BY <1>5 DEF FetchComments, source
  <2>. QED
    BY <1>5, <2>1, <2>2 DEF FetchComments, AfterMentions, NextPlace, Ask, source
<1>6. CASE ChecksFail
  BY <1>6 DEF ChecksFail, AfterChecks, AfterStatus, Ask, source
<1>7. CASE RequestFails
  BY <1>7 DEF RequestFails, AfterStatus, AfterMentions, NextPlace, Ask, source
<1>8. CASE Push
  BY <1>8 DEF Push, Changes, read
<1>9. CASE Merge
  BY <1>9 DEF Merge, Changes, read
<1>10. CASE TimePasses
  BY <1>10 DEF TimePasses, read
<1>11. ASSUME NEW failed \in BOOLEAN, CheckEnds(failed) PROVE Caused'
  BY <1>11 DEF CheckEnds, Changes, read
<1>12. ASSUME NEW place \in Places, NEW mention \in BOOLEAN, Comment(place, mention)
       PROVE  Caused'
  <2>1. MentionSince => MentionSince'
    <3>1. cutoff' = cutoff
      BY <1>12 DEF Comment, Changes, read
    <3>2. ASSUME NEW p \in Places, NEW k \in DOMAIN comments[p], Qualifies(comments[p][k])
          PROVE  k \in DOMAIN comments'[p] /\ Qualifies(comments[p][k])'
      BY <1>12, <3>1, <3>2, Written
    <3>. QED
      BY <3>2
  <2>2. Failed(checks)' = Failed(checks) /\ Failing' = Failing
    BY <1>12 DEF Comment
  <2>. QED
    BY <1>12, <2>1, <2>2 DEF Comment, Changes, read
<1>13. CASE UNCHANGED fixPrVars
  BY <1>13 DEF fixPrVars, source, read
<1>. QED
  BY <1>1, <1>2, <1>3, <1>4, <1>5, <1>6, <1>7, <1>8, <1>9, <1>10, <1>11, <1>12,
     <1>13 DEF NextFixPr

(* Nothing that was read is forgotten.                                       *)
LEMMA ToldStep ==
  ASSUME Typed, Caused, Told, [NextFixPr]_fixPrVars PROVE Told'
<1> USE DEF Typed, Message, Decided, Requests, Places, Caused, Told, Failed, Seen,
            FirstPage, Qualifies
<1>1. CASE Begin
  BY <1>1 DEF Begin, Ask, source
<1>2. CASE ResolvePr
  <2>1. asking' # "checks" \/ runs_page' = 1
    BY <1>2 DEF ResolvePr
  <2>2. (1 - 1) * ChecksPerPage = 0
    BY FixPrAssumption
  <2>3. \A k \in DOMAIN checks : k \in Nat /\ k > 0
    OBVIOUS
  <2>. QED
    BY <1>2, <2>1, <2>2, <2>3 DEF ResolvePr, Ask, source
<1>3. CASE FetchCheckRuns
  <2>1. /\ any_check_failed' = (any_check_failed \/ Failed(Page))
        /\ IF LastPage(Page) THEN Ask(AfterChecks) /\ UNCHANGED runs_page
                             ELSE runs_page' = runs_page + 1 /\ UNCHANGED asking
        /\ asking = "checks" /\ UNCHANGED <<checks, pull, quiet>>
    BY <1>3 DEF FetchCheckRuns, Page, Start, End, source
  <2>2. /\ Start \in Nat /\ ChecksPerPage \in Nat /\ Len(checks) \in Nat /\ End \in Nat
        /\ \A k \in DOMAIN checks : k \in Nat /\ 1 <= k /\ k <= Len(checks)
    BY StartsAreApart, PageIsPart, FixPrAssumption
  <2>3. ASSUME quiet, pull, NEW k \in DOMAIN checks, checks[k], k <= End
        PROVE  any_check_failed'
    <3>1. CASE k <= Start
      BY <2>1, <2>3, <3>1 DEF Start
    <3>2. CASE Start + 1 <= k
      BY <2>1, <2>2, <2>3, <3>2, PageIsPart
    <3>. QED
      BY <2>2, <3>1, <3>2
  <2>4. ASSUME quiet, pull, LastPage(Page), Failed(checks)
        PROVE  any_check_failed'
    <3>1. End = Len(checks)
      BY <2>4, PageIsPart
    <3>2. PICK k \in DOMAIN checks : checks[k]
      BY <2>4
    <3>. QED
      BY <2>2, <2>3, <2>4, <3>1, <3>2
  <2>5. ASSUME quiet, pull, ~LastPage(Page), NEW k \in DOMAIN checks, checks[k],
               k <= (runs_page' - 1) * ChecksPerPage
        PROVE  any_check_failed'
    <3>1. (runs_page' - 1) * ChecksPerPage = End
      BY <2>1, <2>5, StartsAreApart, PageIsPart
    <3>. QED
      BY <2>3, <2>5, <3>1
  <2> HIDE DEF Failed, Seen
  <2>6. CASE LastPage(Page)
    BY <1>3, <2>1, <2>4, <2>6 DEF FetchCheckRuns, AfterChecks, AfterStatus, Ask, source
  <2>7. CASE ~LastPage(Page)
    BY <1>3, <2>1, <2>5, <2>7 DEF FetchCheckRuns, source
  <2>. QED
    BY <2>6, <2>7
<1>4. CASE FetchCommitStatus
  BY <1>4 DEF FetchCommitStatus, AfterStatus, Ask, source
<1>5. CASE FetchComments
  BY <1>5 DEF FetchComments, AfterMentions, NextPlace, Ask, source
<1>6. CASE ChecksFail
  BY <1>6 DEF ChecksFail, AfterChecks, AfterStatus, Ask, source
<1>7. CASE RequestFails
  BY <1>7 DEF RequestFails, AfterStatus, AfterMentions, NextPlace, Ask, source
<1>8. CASE Push
  BY <1>8 DEF Push, Changes, read
<1>9. CASE Merge
  BY <1>9 DEF Merge, Changes, read
<1>10. CASE TimePasses
  BY <1>10 DEF TimePasses, read
<1>11. ASSUME NEW failed \in BOOLEAN, CheckEnds(failed) PROVE Told'
  BY <1>11 DEF CheckEnds, Changes, read
<1>12. ASSUME NEW place \in Places, NEW mention \in BOOLEAN, Comment(place, mention)
       PROVE  Told'
  BY <1>12 DEF Comment, Changes, read
<1>13. CASE UNCHANGED fixPrVars
  BY <1>13 DEF fixPrVars, source, read
<1>. QED
  BY <1>1, <1>2, <1>3, <1>4, <1>5, <1>6, <1>7, <1>8, <1>9, <1>10, <1>11, <1>12,
     <1>13 DEF NextFixPr

-----------------------------------------------------------------------------
(* A page of check runs is asked for only while the pages before it could be  *)
(* filled, and a status or a comment never on top of a failure of its own.    *)
Bounded ==
  /\ Len(checks) <= MaxChecks /\ (runs_page - 1) * ChecksPerPage <= MaxChecks
  /\ cutoff <= updated /\ updated <= clock
  /\ asking \in Places => handle
  /\ asking \in {"checks", "status"} => ~commit_failed /\ ~has_mention

(* A full page ends within the check runs.                                   *)
LEMMA FullPageFits ==
  ASSUME Typed, Len(checks) <= MaxChecks, ~LastPage(Page)
  PROVE  \A p : p = runs_page + 1 => (p - 1) * ChecksPerPage <= MaxChecks
<1>1. /\ Start \in Nat /\ ChecksPerPage \in Nat \ {0} /\ MaxChecks \in Nat
      /\ Len(checks) \in Nat
      /\ (runs_page + 1 - 1) * ChecksPerPage = Start + ChecksPerPage
  BY StartsAreApart, FixPrAssumption DEF Typed
<1>2. End = Start + ChecksPerPage /\ End <= Len(checks)
  BY <1>1, PageIsPart DEF End
<1>3. (runs_page + 1 - 1) * ChecksPerPage <= MaxChecks
  BY <1>1, <1>2
<1>. QED
  BY <1>3, FixPrAssumption DEF Typed

LEMMA BoundedStep ==
  ASSUME Typed, Caused, Bounded, [NextFixPr]_fixPrVars PROVE Bounded'
<1> USE DEF Bounded, Requests, Places
<1>1. /\ Len(checks) \in Nat /\ MaxChecks \in Nat /\ updated \in Nat /\ clock \in Nat
      /\ cutoff \in Nat
      /\ (1 - 1) * ChecksPerPage = 0
  BY FixPrAssumption DEF Typed
<1>2. CASE Begin
  BY <1>1, <1>2 DEF Begin, Ask, source
<1>3. CASE ResolvePr
  BY <1>1, <1>3 DEF ResolvePr, Ask, source, Caused
<1>4. CASE FetchCheckRuns
  <2>1. CASE LastPage(Page)
    BY <1>4, <2>1 DEF FetchCheckRuns, AfterChecks, AfterStatus, Ask, source, Page, Start, End
  <2>2. CASE ~LastPage(Page)
    <3>1. \A p : p = runs_page + 1 => (p - 1) * ChecksPerPage <= MaxChecks
      BY <2>2, FullPageFits
    <3>2. runs_page' = runs_page + 1 /\ UNCHANGED asking
      BY <1>4, <2>2 DEF FetchCheckRuns, Page, Start, End
    <3>3. UNCHANGED <<checks, updated, clock, handle, cutoff, has_mention, commit_failed>>
      BY <1>4 DEF FetchCheckRuns, source
    <3>4. (runs_page' - 1) * ChecksPerPage <= MaxChecks
      BY <3>1, <3>2
    <3>5. Len(checks') <= MaxChecks /\ cutoff' <= updated' /\ updated' <= clock'
      BY <3>3
    <3> QED
      BY <3>2, <3>3, <3>4, <3>5
  <2> QED
    BY <2>1, <2>2
<1>5. CASE FetchCommitStatus
  BY <1>5 DEF FetchCommitStatus, AfterStatus, Ask, source
<1>6. CASE FetchComments
  BY <1>6 DEF FetchComments, AfterMentions, NextPlace, Ask, source
<1>7. CASE ChecksFail
  BY <1>7 DEF ChecksFail, AfterChecks, AfterStatus, Ask, source
<1>8. CASE RequestFails
  BY <1>8 DEF RequestFails, AfterStatus, AfterMentions, NextPlace, Ask, source
<1>9. CASE Push
  BY <1>1, <1>9 DEF Push, Changes, read
<1>10. CASE Merge
  BY <1>1, <1>10 DEF Merge, Changes, read
<1>11. CASE TimePasses
  BY <1>1, <1>11 DEF TimePasses, read
<1>12. ASSUME NEW failed \in BOOLEAN, CheckEnds(failed) PROVE Bounded'
  <2>1. Len(checks') = Len(checks) + 1 /\ Len(checks) < MaxChecks
    BY <1>12, AppendProperties DEF CheckEnds, Typed
  <2> QED
    BY <1>1, <1>12, <2>1 DEF CheckEnds, Changes, read
<1>13. ASSUME NEW place \in Places, NEW mention \in BOOLEAN, Comment(place, mention)
       PROVE  Bounded'
  BY <1>1, <1>13 DEF Comment, Changes, read
<1>14. CASE UNCHANGED fixPrVars
  BY <1>14 DEF fixPrVars, source, read
<1> QED
  BY <1>2, <1>3, <1>4, <1>5, <1>6, <1>7, <1>8, <1>9, <1>10, <1>11, <1>12, <1>13, <1>14
     DEF NextFixPr

(* Of a number of full pages, the division tells how many there can be.       *)
LEMMA PagesAreCounted ==
  ASSUME NEW p \in Nat \ {0}, NEW size \in Nat \ {0}, NEW n \in Nat, (p - 1) * size <= n
  PROVE  p \in 1 .. n \div size + 1
  OBVIOUS

-----------------------------------------------------------------------------
(* IInv holds throughout.                                                    *)
LEMMA Inductive == FixPrSpec => []IInv
<1>1. InitFixPr => IInv
  <2> SUFFICES ASSUME InitFixPr PROVE IInv
    OBVIOUS
  <2> USE DEF InitFixPr, FixPrIdle, Requests, Decided, Places
  <2>1. Typed
    <3>1. comments \in [Places -> Seq(Message)] /\ checks \in Seq(BOOLEAN)
      OBVIOUS
    <3>2. handle \in BOOLEAN
      BY FixPrAssumption
    <3>3. /\ pull \in BOOLEAN /\ status \in BOOLEAN /\ quiet \in BOOLEAN
          /\ failing \in BOOLEAN /\ any_check_failed \in BOOLEAN
          /\ commit_failed \in BOOLEAN /\ has_mention \in BOOLEAN
      OBVIOUS
    <3>4. /\ updated \in Nat /\ clock \in Nat /\ cutoff \in Nat
          /\ runs_page \in Nat \ {0} /\ asking \in Requests \cup Decided
      OBVIOUS
    <3>. QED
      BY <3>1, <3>2, <3>3, <3>4, Zenon DEF Typed
  <2>2. Caused /\ Told
    BY DEF Caused, Told
  <2>. QED
    BY <2>1, <2>2 DEF IInv
<1>2. IInv /\ [NextFixPr]_fixPrVars => IInv'
  BY TypedStep, CausedStep, ToldStep DEF IInv
<1>. QED
  BY <1>1, <1>2, PTL DEF FixPrSpec

(* A decision asks for no page of check runs beyond those that exist, for     *)
(* comments only on behalf of a handle, and reads updated_at before them.     *)
THEOREM FixPrTypes == FixPrSpec => []FixPrTypeOK
<1>1. InitFixPr => Bounded
  BY FixPrAssumption DEF InitFixPr, FixPrIdle, Bounded, Places
<1>2. IInv /\ Bounded /\ [NextFixPr]_fixPrVars => Bounded'
  BY BoundedStep DEF IInv
<1>3. IInv /\ Bounded => FixPrTypeOK
  BY PagesAreCounted, FixPrAssumption
     DEF IInv, Typed, Bounded, FixPrTypeOK, Decided, Requests
<1> QED
  BY <1>1, <1>2, <1>3, Inductive, PTL DEF FixPrSpec

(* No worker is sent to a pull request without a failure or a new mention:    *)
(* requests that fail, and answers about different heads, never make one up.  *)
THEOREM DispatchIsCaused == FixPrSpec => []DispatchHasReason
<1>1. IInv => DispatchHasReason
  BY DEF IInv, Caused, DispatchHasReason
<1>. QED
  BY <1>1, Inductive, PTL

(* Undisturbed, no failure on any page and no visible mention is overlooked.  *)
THEOREM WaitIsJustified == FixPrSpec => []WaitHasNoReason
<1>1. IInv => WaitHasNoReason
  BY DEF IInv, Told, WaitHasNoReason, Failing
<1>. QED
  BY <1>1, Inductive, PTL
=============================================================================
