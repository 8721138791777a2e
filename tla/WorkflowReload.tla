--------------------------- MODULE WorkflowReload ---------------------------
(***************************************************************************)
(* The workflow file and the task that reloads it (reload.rs): the time of *)
(* modification, the content and the lock are three awaits, while people   *)
(* edit the file, at once or piece by piece.                               *)
(*                                                                         *)
(* Every write gives the file a later time of modification than any before *)
(* it.  Of a content matter which version it is of and how much of it is   *)
(* there: a file cut in the front matter is all prompt (load_workflow), one*)
(* cut in the prompt has its configuration and a shorter prompt.           *)
(***************************************************************************)
EXTENDS Configuration

CONSTANTS
  Versions,       \* what people save
  FrontMatterOf,  \* of each version, when it is complete
  None,           \* last_mtime before the first reload
  MaxWrites       \* bound: writes of the file

ASSUME ReloadAssumption == MaxWrites \in Nat /\ None \notin Nat

VARIABLES
  file,            \* mtime, version, and what there is of it: absent, front, body, whole
  workflow_state,  \* the content in use
  at,              \* main: not started; sleep, read, install: the task; failed: main gave up
  modified,        \* time of modification the task has seen
  content,         \* content the task has read
  last_mtime

task == <<at, modified, content, last_mtime>>
vars == <<file, workflow_state, task>>

-----------------------------------------------------------------------------
Parts == {"absent", "front", "body", "whole"}
Files == [mtime : 0 .. MaxWrites, version : Versions, part : Parts]

(* load_workflow.                                                            *)
FrontMatter(c) == IF c.part = "front" THEN NoFrontMatter ELSE FrontMatterOf[c.version]

(* Mutant: what can be built is taken without validation.                     *)
ParsesAndBuilds(c) == c.part # "absent" /\ Builds(FrontMatter(c))

(* load_workflow and from_workflow_config, with validate_dispatch, succeed.   *)
LoadsAsWorkflow(c) ==
  /\ c.part # "absent" /\ Builds(FrontMatter(c))
  /\ ValidateDispatch(Build(FrontMatter(c)))

(* main reads the file once, before the task is spawned.                      *)
Start ==
  /\ at = "main"
  /\ IF LoadsAsWorkflow(file) THEN at' = "sleep" /\ workflow_state' = file
                              ELSE at' = "failed" /\ UNCHANGED workflow_state
  /\ UNCHANGED <<file, modified, content, last_mtime>>

(* Mutant: the file is read at every poll.                                    *)
CheckMtimeAlways ==
  /\ at = "sleep" /\ file.part # "absent"
  /\ modified' = file.mtime /\ at' = "read"
  /\ UNCHANGED <<file, workflow_state, content, last_mtime>>

(* resolve_workflow_path and the time of modification, every poll_secs.       *)
CheckMtime ==
  /\ at = "sleep" /\ file.part # "absent" /\ file.mtime # last_mtime
  /\ modified' = file.mtime /\ at' = "read"
  /\ UNCHANGED <<file, workflow_state, content, last_mtime>>

(* Mutant: an earlier content is not read again.                              *)
ReadContentCached ==
  /\ at = "read" /\ file.part # "absent"
  /\ content' = content /\ at' = "install"
  /\ UNCHANGED <<file, workflow_state, modified, last_mtime>>

(* The content as it is now.  A file that has gone or is no workflow is read  *)
(* again at the next poll, as last_mtime stays.                              *)
ReadContent ==
  /\ at = "read" /\ UNCHANGED <<file, workflow_state, modified, last_mtime>>
  /\ IF LoadsAsWorkflow(file) THEN content' = file /\ at' = "install"
                              ELSE at' = "sleep" /\ UNCHANGED content

(* Mutant: the time is asked for once more after the content was read.        *)
InstallWithPresentTime ==
  /\ at = "install" /\ at' = "sleep"
  /\ workflow_state' = content /\ last_mtime' = file.mtime
  /\ UNCHANGED <<file, modified, content>>

(* The write lock is there.  The time kept is the one asked for before the    *)
(* read: if the file has changed since, the next poll sees it.               *)
Install ==
  /\ at = "install" /\ at' = "sleep"
  /\ workflow_state' = content /\ last_mtime' = modified
  /\ UNCHANGED <<file, modified, content>>

-----------------------------------------------------------------------------
(* People.                                                                   *)
Write(version, part) ==
  /\ file.mtime < MaxWrites
  /\ file' = [mtime |-> file.mtime + 1, version |-> version, part |-> part]
  /\ UNCHANGED <<workflow_state, task>>

(* Another file is put in its place; it is truncated; it grows; it goes.      *)
Save == \E v \in Versions : Write(v, "whole")
Truncate == \E v \in Versions : Write(v, "front")
Grow == \/ file.part = "front" /\ Write(file.version, "body")
        \/ file.part \in {"front", "body"} /\ Write(file.version, "whole")
Remove == file.part # "absent" /\ Write(file.version, "absent")

Init ==
  /\ file \in [mtime : {0}, version : Versions, part : Parts]
  /\ workflow_state = file /\ at = "main"
  /\ modified = 0 /\ content = file /\ last_mtime = None

ReloadTask == CheckMtime \/ ReadContent \/ Install

Next == Start \/ ReloadTask \/ Save \/ Truncate \/ Grow \/ Remove

(* The runtime polls main and the task; nothing is assumed of people.         *)
Spec == Init /\ [][Next]_vars /\ WF_vars(Start) /\ WF_vars(ReloadTask)

-----------------------------------------------------------------------------
Running == at \in {"sleep", "read", "install"}

TypeOK ==
  /\ file \in Files /\ workflow_state \in Files /\ content \in Files
  /\ at \in {"main", "failed", "sleep", "read", "install"}
  /\ modified \in 0 .. MaxWrites /\ last_mtime \in {None} \cup 0 .. MaxWrites
  /\ at \in {"read", "install"} => last_mtime # modified /\ modified <= file.mtime

(* Whatever is saved, half-written or removed, the content in use has a       *)
(* configuration: the preflight validation of a tick never fails.            *)
LastGoodIsKept ==
  Running => /\ workflow_state.part \notin {"absent", "front"}
             /\ ValidateDispatch(Build(FrontMatterOf[workflow_state.version]))

(* No reload goes back to an earlier content than the one in use.             *)
NeverBackwards ==
  [][Running => workflow_state'.mtime >= workflow_state.mtime]_vars

(* A workflow that stays in the file comes into use, and replaces what was    *)
(* read half-written, or between two edits.                                  *)
FileComesIntoUse ==
  \A f \in Files :
    LoadsAsWorkflow(f) /\ <>[](Running /\ file = f) => <>[](workflow_state = f)
=============================================================================
