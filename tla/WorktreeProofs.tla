--------------------------- MODULE WorktreeProofs ---------------------------
(***************************************************************************)
(* Proofs about Worktree, for every set of runs and every bound on the     *)
(* tasks that live at the same time.                                       *)
(***************************************************************************)
EXTENDS Worktree, TLAPS

-----------------------------------------------------------------------------
(* The inductive invariant.                                                  *)

(* A task, or the git it has left behind, that has the making of the          *)
(* directory to itself: from the moment git registers the worktree until      *)
(* after_create has returned.                                                *)
Maker(r) ==
  \/ git[r] \in GitMakes
  \/ r \in Making /\ git[r] = "ok"

OneMaker == \A r, o \in Runs : Maker(r) /\ Maker(o) => r = o

(* What a maker finds: git's record keeps others away until there is a        *)
(* directory, then the directory does.                                       *)
Made ==
  \A r \in Runs :
    /\ git[r] \in GitMakes => record
    /\ git[r] = "place" => dir = "absent"
    /\ git[r] = "checkout" => hook = "unbegun" /\ (dir = "partial" \/ (blame # {} /\
           torn))
    /\ task[r] \in Adding /\ git[r] = "ok" => dir = "complete" /\ hook = "unbegun"
    /\ task[r] = "after_create" => git[r] = "ok" /\ dir = "complete"
    /\ task[r] \in {"check", "fetch"} => Idle(r)

DeadHasNoTasks == process # "up" => \A r \in Runs : task[r] = "none"

Ordered == DeadHasNoTasks /\ OneMaker /\ Made

Ready == dir = "complete" /\ hook = "done"

(* Whoever is past setup has a ready directory or a cause why not, and so has *)
(* whoever finds the directory made; the maker excuses it meanwhile.          *)
UnreadyIsBlamed ==
  /\ \A r \in Runs : task[r] \in {"before_run", "agent"} => Ready \/ blame # {}
  /\ IsGitWorktree => Ready \/ blame # {} \/ \E r \in Runs : r \in Making /\ Maker(r)

(* A git that may fail and take the directory away is blamed on before any    *)
(* task is in the directory.                                                 *)
Endangers == blame \cap {"abandoned", "overlap"} # {}
DangerIsBlamed ==
  \A o \in Runs : git[o] = "checkout" =>
    /\ task[o] \notin Adding => "abandoned" \in blame
    /\ \A r \in Runs : task[r] \in InUse => Endangers

OnlyTornDisagree ==
  ~torn => /\ dir # "husk"
           /\ dir = "absent" /\ record => \E r \in Runs : git[r] \in GitMakes

IInv ==
  /\ TypeOK /\ Ordered /\ UnreadyIsBlamed
  /\ DangerIsBlamed /\ WorkersDirectoryStays /\ OnlyTornDisagree

-----------------------------------------------------------------------------
(* One lemma per part, one step per action.                                  *)

(* Every step keeps the types.                                               *)
LEMMA TypeStep ==
  ASSUME TypeOK, [Next]_vars PROVE TypeOK'
<1> USE DEF TypeOK, Setup, Adding, GitRuns, GitResults, GitMakes, Causes, IsGitWorktree,
            Making
<1>1. ASSUME NEW r \in Runs, GitMakesBranch(r) PROVE TypeOK'
  BY <1>1 DEF GitMakesBranch, GitGoes, history
<1>2. ASSUME NEW r \in Runs, GitChecksPath(r) PROVE TypeOK'
  BY <1>2 DEF GitChecksPath, GitGoes, history
<1>3. ASSUME NEW r \in Runs, GitPlaces(r) PROVE TypeOK'
  BY <1>3 DEF GitPlaces, GitGoes
<1>4. ASSUME NEW r \in Runs, GitChecksOut(r) PROVE TypeOK'
  BY <1>4 DEF GitChecksOut, GitGoes, history
<1>5. ASSUME NEW r \in Runs, GitFails(r) PROVE TypeOK'
  BY <1>5 DEF GitFails, GitGoes, history
<1>6. ASSUME NEW r \in Runs, GitIsKilled(r) PROVE TypeOK'
  BY <1>6 DEF GitIsKilled, GitGoes, Blame
<1>7. ASSUME NEW r \in Runs, Spawn(r) PROVE TypeOK'
  BY <1>7 DEF Spawn, Goto, GitGoes, disk, history
<1>8. ASSUME NEW r \in Runs, Check(r) PROVE TypeOK'
  BY <1>8 DEF Check, Reuses, Exit, Goto, BlameIf, Blame, disk, history
<1>9. ASSUME NEW r \in Runs, MainRepoNotFound(r) PROVE TypeOK'
  BY <1>9 DEF MainRepoNotFound, Exit, Goto, disk, history
<1>10. ASSUME NEW r \in Runs, FetchOrigin(r) PROVE TypeOK'
  BY <1>10 DEF FetchOrigin, Goto, GitGoes, disk, history
<1>11. ASSUME NEW r \in Runs, Added(r) PROVE TypeOK'
  BY <1>11 DEF Added, Created, IsBranchAlreadyExists, AddForExistingBranch, Exit, Goto,
               GitGoes, disk, history
<1>12. ASSUME NEW r \in Runs, NEW result \in {"success", "failure", "timeout"},
              AfterCreateReturns(r, result)
       PROVE TypeOK'
  BY <1>12 DEF AfterCreateReturns, Goto, BlameIf, Blame, disk
<1>13. ASSUME NEW r \in Runs, NEW result \in {"success", "failure", "timeout"},
              BeforeRunReturns(r, result)
       PROVE TypeOK'
  BY <1>13 DEF BeforeRunReturns, Exit, Goto, disk, history
<1>14. ASSUME NEW r \in Runs, AgentReturns(r) PROVE TypeOK'
  BY <1>14 DEF AgentReturns, Exit, Goto, disk, history
<1>15. ASSUME NEW r \in Runs, Abort(r) PROVE TypeOK'
  BY <1>15 DEF Abort, Exit, Goto, BlameIf, Blame, disk
<1>16. ASSUME IssueChanges PROVE TypeOK'
  BY <1>16 DEF IssueChanges, disk, history
<1>17. ASSUME ProcessDies PROVE TypeOK'
  BY <1>17 DEF ProcessDies, BlameIf, Blame, disk
<1>18. ASSUME Restart PROVE TypeOK'
  BY <1>18 DEF Restart, disk, history
<1>19. ASSUME Cleanup PROVE TypeOK'
  BY <1>19 DEF Cleanup, InCleanup, Blame
<1>20. ASSUME NoCleanup PROVE TypeOK'
  BY <1>20 DEF NoCleanup, disk, history
<1>21. CASE UNCHANGED vars  BY <1>21 DEF vars, disk, history
<1>. QED
  BY <1>1, <1>2, <1>3, <1>4, <1>5, <1>6, <1>7, <1>8, <1>9, <1>10, <1>11,
     <1>12, <1>13, <1>14, <1>15, <1>16, <1>17, <1>18, <1>19, <1>20, <1>21
     DEF Next, Fault, Git, Works, HookTimesOut, HookReturns

(* One maker at a time, and what it finds.                                   *)
LEMMA OrderStep ==
  ASSUME TypeOK, Ordered, [Next]_vars PROVE Ordered'
<1> USE DEF TypeOK, Setup, Adding, GitRuns, GitResults, GitMakes, Ordered, DeadHasNoTasks,
            OneMaker, Made, Maker, IsGitWorktree, Making, InUse, Causes, Idle
<1>1. ASSUME NEW r \in Runs, GitMakesBranch(r) PROVE Ordered'
  BY <1>1 DEF GitMakesBranch, GitGoes, history
<1>2. ASSUME NEW r \in Runs, GitChecksPath(r) PROVE Ordered'
  <2>1. DeadHasNoTasks'
    BY <1>2 DEF GitChecksPath, GitGoes, history
  <2>2. OneMaker'
    BY <1>2 DEF GitChecksPath, GitGoes, history
  <2>3. Made'
    BY <1>2 DEF GitChecksPath, GitGoes, history
  <2>. QED
    BY <2>1, <2>2, <2>3
<1>3. ASSUME NEW r \in Runs, GitPlaces(r) PROVE Ordered'
  BY <1>3 DEF GitPlaces, GitGoes
<1>4. ASSUME NEW r \in Runs, GitChecksOut(r) PROVE Ordered'
  BY <1>4 DEF GitChecksOut, GitGoes, history
<1>5. ASSUME NEW r \in Runs, GitFails(r) PROVE Ordered'
  BY <1>5 DEF GitFails, GitGoes, history
<1>6. ASSUME NEW r \in Runs, GitIsKilled(r) PROVE Ordered'
  BY <1>6 DEF GitIsKilled, GitGoes, Blame
<1>7. ASSUME NEW r \in Runs, Spawn(r) PROVE Ordered'
  BY <1>7 DEF Spawn, Goto, GitGoes, disk, history
<1>8. ASSUME NEW r \in Runs, Check(r) PROVE Ordered'
  BY <1>8 DEF Check, Reuses, Exit, Goto, BlameIf, Blame, disk, history
<1>9. ASSUME NEW r \in Runs, MainRepoNotFound(r) PROVE Ordered'
  BY <1>9 DEF MainRepoNotFound, Exit, Goto, disk, history
<1>10. ASSUME NEW r \in Runs, FetchOrigin(r) PROVE Ordered'
  BY <1>10 DEF FetchOrigin, Goto, GitGoes, disk, history
<1>11. ASSUME NEW r \in Runs, Added(r) PROVE Ordered'
  BY <1>11 DEF Added, Created, IsBranchAlreadyExists, AddForExistingBranch, Exit, Goto,
               GitGoes, disk, history
<1>12. ASSUME NEW r \in Runs, NEW result \in {"success", "failure", "timeout"},
              AfterCreateReturns(r, result)
       PROVE Ordered'
  BY <1>12 DEF AfterCreateReturns, Goto, BlameIf, Blame, disk
<1>13. ASSUME NEW r \in Runs, NEW result \in {"success", "failure", "timeout"},
              BeforeRunReturns(r, result)
       PROVE Ordered'
  BY <1>13 DEF BeforeRunReturns, Exit, Goto, disk, history
<1>14. ASSUME NEW r \in Runs, AgentReturns(r) PROVE Ordered'
  BY <1>14 DEF AgentReturns, Exit, Goto, disk, history
<1>15. ASSUME NEW r \in Runs, Abort(r) PROVE Ordered'
  BY <1>15 DEF Abort, Exit, Goto, BlameIf, Blame, disk
<1>16. ASSUME IssueChanges PROVE Ordered'
  BY <1>16 DEF IssueChanges, disk, history
<1>17. ASSUME ProcessDies PROVE Ordered'
  BY <1>17 DEF ProcessDies, BlameIf, Blame, disk
<1>18. ASSUME Restart PROVE Ordered'
  BY <1>18 DEF Restart, disk, history
<1>19. ASSUME Cleanup PROVE Ordered'
  BY <1>19 DEF Cleanup, InCleanup, Blame
<1>20. ASSUME NoCleanup PROVE Ordered'
  BY <1>20 DEF NoCleanup, disk, history
<1>21. CASE UNCHANGED vars  BY <1>21 DEF vars, disk, history
<1>. QED
  BY <1>1, <1>2, <1>3, <1>4, <1>5, <1>6, <1>7, <1>8, <1>9, <1>10, <1>11,
     <1>12, <1>13, <1>14, <1>15, <1>16, <1>17, <1>18, <1>19, <1>20, <1>21
     DEF Next, Fault, Git, Works, HookTimesOut, HookReturns

(* A directory that is not ready has a cause.                                *)
LEMMA BlameStep ==
  ASSUME TypeOK, Ordered, UnreadyIsBlamed, [Next]_vars PROVE UnreadyIsBlamed'
<1> USE DEF TypeOK, Setup, Adding, GitRuns, GitResults, GitMakes, Ordered, DeadHasNoTasks,
            OneMaker, Made, Maker, IsGitWorktree, Making, InUse, Causes, Idle,
            UnreadyIsBlamed, Ready
<1>1. ASSUME NEW r \in Runs, GitMakesBranch(r) PROVE UnreadyIsBlamed'
  BY <1>1 DEF GitMakesBranch, GitGoes, history
<1>2. ASSUME NEW r \in Runs, GitChecksPath(r) PROVE UnreadyIsBlamed'
  BY <1>2 DEF GitChecksPath, GitGoes, history
<1>3. ASSUME NEW r \in Runs, GitPlaces(r) PROVE UnreadyIsBlamed'
  BY <1>3 DEF GitPlaces, GitGoes
<1>4. ASSUME NEW r \in Runs, GitChecksOut(r) PROVE UnreadyIsBlamed'
  BY <1>4 DEF GitChecksOut, GitGoes, history
<1>5. ASSUME NEW r \in Runs, GitFails(r) PROVE UnreadyIsBlamed'
  BY <1>5 DEF GitFails, GitGoes, history
<1>6. ASSUME NEW r \in Runs, GitIsKilled(r) PROVE UnreadyIsBlamed'
  BY <1>6 DEF GitIsKilled, GitGoes, Blame
<1>7. ASSUME NEW r \in Runs, Spawn(r) PROVE UnreadyIsBlamed'
  BY <1>7 DEF Spawn, Goto, GitGoes, disk, history
<1>8. ASSUME NEW r \in Runs, Check(r) PROVE UnreadyIsBlamed'
  BY <1>8 DEF Check, Reuses, Exit, Goto, BlameIf, Blame, disk, history
<1>9. ASSUME NEW r \in Runs, MainRepoNotFound(r) PROVE UnreadyIsBlamed'
  BY <1>9 DEF MainRepoNotFound, Exit, Goto, disk, history
<1>10. ASSUME NEW r \in Runs, FetchOrigin(r) PROVE UnreadyIsBlamed'
  BY <1>10 DEF FetchOrigin, Goto, GitGoes, disk, history
<1>11. ASSUME NEW r \in Runs, Added(r) PROVE UnreadyIsBlamed'
  BY <1>11 DEF Added, Created, IsBranchAlreadyExists, AddForExistingBranch, Exit, Goto,
               GitGoes, disk, history
<1>12. ASSUME NEW r \in Runs, NEW result \in {"success", "failure", "timeout"},
              AfterCreateReturns(r, result)
       PROVE UnreadyIsBlamed'
  BY <1>12 DEF AfterCreateReturns, Goto, BlameIf, Blame, disk
<1>13. ASSUME NEW r \in Runs, NEW result \in {"success", "failure", "timeout"},
              BeforeRunReturns(r, result)
       PROVE UnreadyIsBlamed'
  BY <1>13 DEF BeforeRunReturns, Exit, Goto, disk, history
<1>14. ASSUME NEW r \in Runs, AgentReturns(r) PROVE UnreadyIsBlamed'
  BY <1>14 DEF AgentReturns, Exit, Goto, disk, history
<1>15. ASSUME NEW r \in Runs, Abort(r) PROVE UnreadyIsBlamed'
  BY <1>15 DEF Abort, Exit, Goto, BlameIf, Blame, disk
<1>16. ASSUME IssueChanges PROVE UnreadyIsBlamed'
  BY <1>16 DEF IssueChanges, disk, history
<1>17. ASSUME ProcessDies PROVE UnreadyIsBlamed'
  BY <1>17 DEF ProcessDies, BlameIf, Blame, disk
<1>18. ASSUME Restart PROVE UnreadyIsBlamed'
  BY <1>18 DEF Restart, disk, history
<1>19. ASSUME Cleanup PROVE UnreadyIsBlamed'
  BY <1>19 DEF Cleanup, InCleanup, Blame
<1>20. ASSUME NoCleanup PROVE UnreadyIsBlamed'
  BY <1>20 DEF NoCleanup, disk, history
<1>21. CASE UNCHANGED vars  BY <1>21 DEF vars, disk, history
<1>. QED
  BY <1>1, <1>2, <1>3, <1>4, <1>5, <1>6, <1>7, <1>8, <1>9, <1>10, <1>11,
     <1>12, <1>13, <1>14, <1>15, <1>16, <1>17, <1>18, <1>19, <1>20, <1>21
     DEF Next, Fault, Git, Works, HookTimesOut, HookReturns

(* A worker's directory is there, and what endangers it is on record.        *)
LEMMA DangerStep ==
  ASSUME TypeOK, Ordered, UnreadyIsBlamed, DangerIsBlamed, WorkersDirectoryStays,
         [Next]_vars
  PROVE (DangerIsBlamed /\ WorkersDirectoryStays)'
<1> USE DEF TypeOK, Setup, Adding, GitRuns, GitResults, GitMakes, Ordered, DeadHasNoTasks,
            OneMaker, Made, Maker, IsGitWorktree, Making, InUse, Causes, Idle,
            UnreadyIsBlamed, Ready, DangerIsBlamed, Endangers, WorkersDirectoryStays
<1>1. ASSUME NEW r \in Runs, GitMakesBranch(r)
      PROVE (DangerIsBlamed /\ WorkersDirectoryStays)'
  BY <1>1 DEF GitMakesBranch, GitGoes, history
<1>2. ASSUME NEW r \in Runs, GitChecksPath(r)
      PROVE (DangerIsBlamed /\ WorkersDirectoryStays)'
  BY <1>2 DEF GitChecksPath, GitGoes, history
<1>3. ASSUME NEW r \in Runs, GitPlaces(r) PROVE (DangerIsBlamed /\ WorkersDirectoryStays)'
  BY <1>3 DEF GitPlaces, GitGoes
<1>4. ASSUME NEW r \in Runs, GitChecksOut(r)
      PROVE (DangerIsBlamed /\ WorkersDirectoryStays)'
  BY <1>4 DEF GitChecksOut, GitGoes, history
<1>5. ASSUME NEW r \in Runs, GitFails(r) PROVE (DangerIsBlamed /\ WorkersDirectoryStays)'
  BY <1>5 DEF GitFails, GitGoes, history
<1>6. ASSUME NEW r \in Runs, GitIsKilled(r)
      PROVE (DangerIsBlamed /\ WorkersDirectoryStays)'
  BY <1>6 DEF GitIsKilled, GitGoes, Blame
<1>7. ASSUME NEW r \in Runs, Spawn(r) PROVE (DangerIsBlamed /\ WorkersDirectoryStays)'
  BY <1>7 DEF Spawn, Goto, GitGoes, disk, history
<1>8. ASSUME NEW r \in Runs, Check(r) PROVE (DangerIsBlamed /\ WorkersDirectoryStays)'
  BY <1>8 DEF Check, Reuses, Exit, Goto, BlameIf, Blame, disk, history
<1>9. ASSUME NEW r \in Runs, MainRepoNotFound(r)
      PROVE (DangerIsBlamed /\ WorkersDirectoryStays)'
  BY <1>9 DEF MainRepoNotFound, Exit, Goto, disk, history
<1>10. ASSUME NEW r \in Runs, FetchOrigin(r)
       PROVE (DangerIsBlamed /\ WorkersDirectoryStays)'
  BY <1>10 DEF FetchOrigin, Goto, GitGoes, disk, history
<1>11. ASSUME NEW r \in Runs, Added(r) PROVE (DangerIsBlamed /\ WorkersDirectoryStays)'
  BY <1>11 DEF Added, Created, IsBranchAlreadyExists, AddForExistingBranch, Exit, Goto,
               GitGoes, disk, history
<1>12. ASSUME NEW r \in Runs, NEW result \in {"success", "failure", "timeout"},
              AfterCreateReturns(r, result)
       PROVE (DangerIsBlamed /\ WorkersDirectoryStays)'
  BY <1>12 DEF AfterCreateReturns, Goto, BlameIf, Blame, disk
<1>13. ASSUME NEW r \in Runs, NEW result \in {"success", "failure", "timeout"},
              BeforeRunReturns(r, result)
       PROVE (DangerIsBlamed /\ WorkersDirectoryStays)'
  BY <1>13 DEF BeforeRunReturns, Exit, Goto, disk, history
<1>14. ASSUME NEW r \in Runs, AgentReturns(r)
       PROVE (DangerIsBlamed /\ WorkersDirectoryStays)'
  BY <1>14 DEF AgentReturns, Exit, Goto, disk, history
<1>15. ASSUME NEW r \in Runs, Abort(r) PROVE (DangerIsBlamed /\ WorkersDirectoryStays)'
  BY <1>15 DEF Abort, Exit, Goto, BlameIf, Blame, disk
<1>16. ASSUME IssueChanges PROVE (DangerIsBlamed /\ WorkersDirectoryStays)'
  BY <1>16 DEF IssueChanges, disk, history
<1>17. ASSUME ProcessDies PROVE (DangerIsBlamed /\ WorkersDirectoryStays)'
  BY <1>17 DEF ProcessDies, BlameIf, Blame, disk
<1>18. ASSUME Restart PROVE (DangerIsBlamed /\ WorkersDirectoryStays)'
  BY <1>18 DEF Restart, disk, history
<1>19. ASSUME Cleanup PROVE (DangerIsBlamed /\ WorkersDirectoryStays)'
  BY <1>19 DEF Cleanup, InCleanup, Blame
<1>20. ASSUME NoCleanup PROVE (DangerIsBlamed /\ WorkersDirectoryStays)'
  BY <1>20 DEF NoCleanup, disk, history
<1>21. CASE UNCHANGED vars  BY <1>21 DEF vars, disk, history
<1>. QED
  BY <1>1, <1>2, <1>3, <1>4, <1>5, <1>6, <1>7, <1>8, <1>9, <1>10, <1>11,
     <1>12, <1>13, <1>14, <1>15, <1>16, <1>17, <1>18, <1>19, <1>20, <1>21
     DEF Next, Fault, Git, Works, HookTimesOut, HookReturns

(* Directory and record only disagree once a directory was torn.             *)
LEMMA TornStep ==
  ASSUME TypeOK, Ordered, OnlyTornDisagree, [Next]_vars PROVE OnlyTornDisagree'
<1> USE DEF TypeOK, Setup, Adding, GitRuns, GitResults, GitMakes, Ordered, DeadHasNoTasks,
            OneMaker, Made, Maker, IsGitWorktree, Making, InUse, Causes, Idle,
            OnlyTornDisagree
<1>1. ASSUME NEW r \in Runs, GitMakesBranch(r) PROVE OnlyTornDisagree'
  BY <1>1 DEF GitMakesBranch, GitGoes, history
<1>2. ASSUME NEW r \in Runs, GitChecksPath(r) PROVE OnlyTornDisagree'
  BY <1>2 DEF GitChecksPath, GitGoes, history
<1>3. ASSUME NEW r \in Runs, GitPlaces(r) PROVE OnlyTornDisagree'
  BY <1>3 DEF GitPlaces, GitGoes
<1>4. ASSUME NEW r \in Runs, GitChecksOut(r) PROVE OnlyTornDisagree'
  BY <1>4 DEF GitChecksOut, GitGoes, history
<1>5. ASSUME NEW r \in Runs, GitFails(r) PROVE OnlyTornDisagree'
  BY <1>5 DEF GitFails, GitGoes, history
<1>6. ASSUME NEW r \in Runs, GitIsKilled(r) PROVE OnlyTornDisagree'
  BY <1>6 DEF GitIsKilled, GitGoes, Blame
<1>7. ASSUME NEW r \in Runs, Spawn(r) PROVE OnlyTornDisagree'
  BY <1>7 DEF Spawn, Goto, GitGoes, disk, history
<1>8. ASSUME NEW r \in Runs, Check(r) PROVE OnlyTornDisagree'
  BY <1>8 DEF Check, Reuses, Exit, Goto, BlameIf, Blame, disk, history
<1>9. ASSUME NEW r \in Runs, MainRepoNotFound(r) PROVE OnlyTornDisagree'
  BY <1>9 DEF MainRepoNotFound, Exit, Goto, disk, history
<1>10. ASSUME NEW r \in Runs, FetchOrigin(r) PROVE OnlyTornDisagree'
  BY <1>10 DEF FetchOrigin, Goto, GitGoes, disk, history
<1>11. ASSUME NEW r \in Runs, Added(r) PROVE OnlyTornDisagree'
  BY <1>11 DEF Added, Created, IsBranchAlreadyExists, AddForExistingBranch, Exit, Goto,
               GitGoes, disk, history
<1>12. ASSUME NEW r \in Runs, NEW result \in {"success", "failure", "timeout"},
              AfterCreateReturns(r, result)
       PROVE OnlyTornDisagree'
  BY <1>12 DEF AfterCreateReturns, Goto, BlameIf, Blame, disk
<1>13. ASSUME NEW r \in Runs, NEW result \in {"success", "failure", "timeout"},
              BeforeRunReturns(r, result)
       PROVE OnlyTornDisagree'
  BY <1>13 DEF BeforeRunReturns, Exit, Goto, disk, history
<1>14. ASSUME NEW r \in Runs, AgentReturns(r) PROVE OnlyTornDisagree'
  BY <1>14 DEF AgentReturns, Exit, Goto, disk, history
<1>15. ASSUME NEW r \in Runs, Abort(r) PROVE OnlyTornDisagree'
  BY <1>15 DEF Abort, Exit, Goto, BlameIf, Blame, disk
<1>16. ASSUME IssueChanges PROVE OnlyTornDisagree'
  BY <1>16 DEF IssueChanges, disk, history
<1>17. ASSUME ProcessDies PROVE OnlyTornDisagree'
  BY <1>17 DEF ProcessDies, BlameIf, Blame, disk
<1>18. ASSUME Restart PROVE OnlyTornDisagree'
  BY <1>18 DEF Restart, disk, history
<1>19. ASSUME Cleanup PROVE OnlyTornDisagree'
  BY <1>19 DEF Cleanup, InCleanup, Blame
<1>20. ASSUME NoCleanup PROVE OnlyTornDisagree'
  BY <1>20 DEF NoCleanup, disk, history
<1>21. CASE UNCHANGED vars  BY <1>21 DEF vars, disk, history
<1>. QED
  BY <1>1, <1>2, <1>3, <1>4, <1>5, <1>6, <1>7, <1>8, <1>9, <1>10, <1>11,
     <1>12, <1>13, <1>14, <1>15, <1>16, <1>17, <1>18, <1>19, <1>20, <1>21
     DEF Next, Fault, Git, Works, HookTimesOut, HookReturns

-----------------------------------------------------------------------------
(* The theorems.                                                             *)

(* IInv holds at the start and is kept by every step.                        *)
LEMMA Inductive == Spec => []IInv
<1>1. Init => IInv
  BY DEF Init, IInv, TypeOK, Setup, Adding, GitRuns, GitMakes, GitResults, Causes,
         Ordered,
         DeadHasNoTasks, OneMaker, Made, Maker, Making, Idle, UnreadyIsBlamed, Ready,
         IsGitWorktree, DangerIsBlamed, Endangers, InUse, WorkersDirectoryStays,
         OnlyTornDisagree
<1>2. IInv /\ [Next]_vars => IInv'
  BY TypeStep, OrderStep, BlameStep, DangerStep, TornStep DEF IInv
<1>. QED
  BY <1>1, <1>2, PTL DEF Spec

(* Every value stays of its kind.                                            *)
THEOREM TypesHold == Spec => []TypeOK
<1>1. IInv => TypeOK
  BY DEF IInv
<1>. QED
  BY <1>1, Inductive, PTL

(* after_create is started once in a directory, whatever git of other tasks  *)
(* does meanwhile: only the one maker starts it, on an untouched hook.       *)
THEOREM CreatedOnce == Spec => OncePerCreation
<1>1. IInv /\ [Next]_vars
        => (\A r \in Runs : task[r] # "after_create" /\ task'[r] = "after_create"
                            => hook = "unbegun" /\ dir = "complete")
  <2> SUFFICES ASSUME IInv, [Next]_vars, NEW r \in Runs,
                      task[r] # "after_create", task'[r] = "after_create"
               PROVE  hook = "unbegun" /\ dir = "complete"
    OBVIOUS
  <2> USE DEF IInv, TypeOK
  <2>1. PICK o \in Runs : Added(o) /\ git[o] = "ok" /\ o = r
    BY DEF Next, Fault, Git, Works, HookTimesOut, HookReturns, vars, GitMakesBranch,
           GitGoes, history, GitChecksPath, GitPlaces, GitChecksOut,
           GitFails, GitIsKilled, Blame, Spawn, Goto, disk, Check, Reuses, Exit,
           BlameIf, MainRepoNotFound, FetchOrigin, Added, Created,
           IsBranchAlreadyExists, AddForExistingBranch, AfterCreateReturns, BeforeRunReturns,
           AgentReturns, Abort, IssueChanges, ProcessDies, Restart, Cleanup,
           InCleanup, NoCleanup
  <2>. QED
    BY <2>1 DEF Added, Ordered, Made
<1>. QED
  BY <1>1, Inductive, PTL DEF Spec, OncePerCreation

(* An agent works in a finished and set-up directory or there is a cause for *)
(* its being otherwise: setup never fails to notice on its own.              *)
THEOREM UnreadinessHasCause == Spec => []UnreadyHasCause
<1>1. IInv => UnreadyHasCause
  BY DEF IInv, UnreadyIsBlamed, Ready, UnreadyHasCause
<1>. QED
  BY <1>1, Inductive, PTL

(* No worker loses its directory but to a git left behind by another task.   *)
THEOREM DirectoryStays == Spec => []WorkersDirectoryStays
<1>1. IInv => WorkersDirectoryStays
  BY DEF IInv
<1>. QED
  BY <1>1, Inductive, PTL

(* Directory and record only part for good after a removal or a killed git.  *)
THEOREM StuckMeansTorn == Spec => []StuckWasTorn
<1>1. IInv => StuckWasTorn
  BY DEF IInv, TypeOK, OnlyTornDisagree, StuckWasTorn, Stuck, Idle, GitRuns, GitMakes
<1>. QED
  BY <1>1, Inductive, PTL
=============================================================================
