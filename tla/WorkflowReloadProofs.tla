------------------------ MODULE WorkflowReloadProofs ------------------------
(***************************************************************************)
(* Proofs about WorkflowReload, for every set of versions with any front   *)
(* matter, every environment and any number of writes.                     *)
(***************************************************************************)
EXTENDS WorkflowReload, TLAPS

-----------------------------------------------------------------------------
(* What from_workflow_config lets pass lacks at most a repository, a key or a *)
(* command: labels, base branch and paths are refused there, and a path that  *)
(* becomes empty when its variable is resolved is the current directory, so  *)
(* that validation never sees it.                                            *)
THEOREM ValidationCatchesThree ==
  ASSUME NEW raw, Builds(raw)
  PROVE  ValidateDispatch(Build(raw)) <=>
           \A field \in {"repo", "api_key", "command"} : Build(raw)[field] # Empty
<1> DEFINE config == Build(raw)
<1>1. /\ config.claim_label # Empty /\ config.pr_open_label # Empty
      /\ config.pr_base_branch # Empty
  BY ConfigurationAssumption DEF Builds, Given, Build, Trim, OrDefault
<1>2. config.root # Empty /\ config.main_repo_path # Empty
  BY ConfigurationAssumption DEF Build, ResolveWorktreeRoot
<1>. QED
  BY <1>1, <1>2 DEF ValidateDispatch

(* A content that loads has its front matter in full: one cut there has none, *)
(* and the tracker section is required.                                      *)
LEMMA LoadedHasFrontMatter ==
  ASSUME NEW c, LoadsAsWorkflow(c)
  PROVE  /\ c.part \notin {"absent", "front"}
         /\ ValidateDispatch(Build(FrontMatterOf[c.version]))
<1>1. c.part # "absent"
  BY DEF LoadsAsWorkflow
<1>2. c.part # "front"
  <2>1. ~Builds(NoFrontMatter)
    BY DEF Builds, NoFrontMatter
  <2>. QED
    BY <2>1 DEF LoadsAsWorkflow, FrontMatter
<1>. QED
  BY <1>1, <1>2 DEF LoadsAsWorkflow, FrontMatter

(* What is in use, or about to be, loads, and is no newer than the file.      *)
UsedLoads ==
  /\ Running => LoadsAsWorkflow(workflow_state)
  /\ at = "install" => LoadsAsWorkflow(content)

Ordered ==
  /\ workflow_state.mtime <= file.mtime /\ content.mtime <= file.mtime
  /\ at = "install" => workflow_state.mtime <= content.mtime

IInv == TypeOK /\ UsedLoads /\ Ordered

-----------------------------------------------------------------------------
(* A write gives the file a later time and leaves the task alone.            *)
LEMMA WriteStep ==
  ASSUME TypeOK, NEW v \in Versions, NEW part \in Parts, Write(v, part)
  PROVE  /\ file' \in Files /\ file'.mtime = file.mtime + 1
         /\ UNCHANGED <<workflow_state, task>>
  BY ReloadAssumption DEF TypeOK, Write, Files

(* Every action of people is such a write.                                   *)
LEMMA PeopleWrite ==
  ASSUME TypeOK, Save \/ Truncate \/ Grow \/ Remove
  PROVE  \E v \in Versions, part \in Parts : Write(v, part)
<1>1. file.version \in Versions
  BY DEF TypeOK, Files
<1>. QED
  BY <1>1 DEF Save, Truncate, Grow, Remove, Parts

(* IInv is inductive: one step per action.                                   *)
LEMMA Step ==
  ASSUME IInv, [Next]_vars PROVE IInv'
<1> USE DEF IInv, TypeOK, UsedLoads, Ordered, Running
<1> /\ file.mtime \in Nat /\ MaxWrites \in Nat /\ workflow_state.mtime \in Nat
    /\ content.mtime \in Nat
  BY ReloadAssumption DEF Files
<1>1. CASE Start
  BY <1>1 DEF Start
<1>2. CASE CheckMtime
  <2>1. modified' \in 0 .. MaxWrites
    BY <1>2 DEF CheckMtime, Files
  <2>. QED
    BY <1>2, <2>1 DEF CheckMtime
<1>3. CASE ReadContent
  BY <1>3 DEF ReadContent
<1>4. CASE Install
  BY <1>4 DEF Install
<1>5. CASE Save \/ Truncate \/ Grow \/ Remove
  <2>1. file' \in Files /\ file'.mtime = file.mtime + 1 /\ UNCHANGED <<workflow_state, task>>
    BY <1>5, PeopleWrite, WriteStep
  <2>. QED
    BY <2>1 DEF task
<1>6. CASE UNCHANGED vars
  BY <1>6 DEF vars, task
<1>. QED
  BY <1>1, <1>2, <1>3, <1>4, <1>5, <1>6 DEF Next, ReloadTask

(* IInv holds throughout.                                                    *)
LEMMA Inductive == Spec => []IInv
<1>1. Init => IInv
  BY ReloadAssumption DEF Init, IInv, TypeOK, UsedLoads, Ordered, Running, Files
<1>. QED
  BY <1>1, Step, PTL DEF Spec

-----------------------------------------------------------------------------
(* Every value stays of its kind, and a reload in progress was caused by a    *)
(* time of modification that was not kept before.                            *)
THEOREM TypesHold == Spec => []TypeOK
<1>1. IInv => TypeOK
  BY DEF IInv
<1>. QED
  BY <1>1, Inductive, PTL

(* Whatever people write or remove, the workflow in use stays one that loads  *)
(* and passes validation.                                                    *)
THEOREM ValidStaysInUse == Spec => []LastGoodIsKept
<1>1. IInv => LastGoodIsKept
  BY LoadedHasFrontMatter DEF IInv, UsedLoads, LastGoodIsKept
<1>. QED
  BY <1>1, Inductive, PTL

(* No reload puts back an earlier content.                                   *)
THEOREM ReloadsGoForward == Spec => NeverBackwards
<1>1. IInv /\ [Next]_vars
        => (Running => workflow_state'.mtime >= workflow_state.mtime)
  <2> SUFFICES ASSUME IInv, [Next]_vars, Running
               PROVE  workflow_state'.mtime >= workflow_state.mtime
    OBVIOUS
  <2>1. workflow_state.mtime \in Nat /\ content.mtime \in Nat
    BY DEF IInv, TypeOK, Files
  <2>2. \/ UNCHANGED workflow_state
        \/ at = "install" /\ workflow_state' = content
    BY DEF Running, Next, ReloadTask, Start, CheckMtime, ReadContent, Install, Save, Truncate,
           Grow, Remove, Write, vars
  <2>. QED
    BY <2>1, <2>2 DEF IInv, Ordered
<1>. QED
  BY <1>1, Inductive, PTL DEF Spec, NeverBackwards
=============================================================================
