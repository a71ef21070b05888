---------------------------- MODULE SessionStore ----------------------------
(***************************************************************************)
(* The life of ONE Analysis Session on disk, as the concurrent `kat`       *)
(* processes that name it see it (cli/src/session_store.rs, and the gate   *)
(* of cli/src/run.rs and cli/src/run/execution.rs that publishes a Run).   *)
(*                                                                         *)
(* A Session is a directory tree with a marker file, moved to a tombstone  *)
(* when it is deleted.  What keeps the processes apart is a lease file     *)
(* outside the tree: every ordinary command holds a shared lock on it from *)
(* before it looks at the tree until its Response is delivered, and        *)
(* deletion needs the exclusive lock.  Both locks are non-blocking.        *)
(*                                                                         *)
(* One action is one file-system call, or one run of calls that no other   *)
(* process can tell apart; any process may be killed between two actions.  *)
(* Session and Run ids are fresh UUIDs: the id of this Session is          *)
(* generated once, by Creator, and an id of Runs is allocated once.        *)
(***************************************************************************)
EXTENDS Naturals

CONSTANTS
  Procs,      \* `kat` processes; an idle one may run another command
  Creator,    \* the process that runs `kat session create`
  Runs,       \* Run ids that may be generated
  NoRun,      \* not a Run id
  MaxFaults   \* bound on the crashes and failed file-system calls together

ASSUME CreatorAssumption == Creator \in Procs
ASSUME NoRunAssumption == NoRun \notin Runs
ASSUME MaxFaultsAssumption == MaxFaults \in Nat

VARIABLES
  leaseFile,  \* .leases/<id>.lock: "absent" or "present"
  session,    \* sessions/<id>: "absent", or a directory "bare", "laid" out, "marked"
  tombstone,  \* .deletions/<id>: "absent" or "present"
  runs,       \* runs/<run>: its candidate directory and manifest.json
  scratch,    \* scratch/<run>: "none", a "dir", or something "foreign" put in its place
  lock,       \* the lock each process holds on the lease file
  pc,         \* the next step of each process
  run,        \* the Run a process has allocated or is reading
  faults,     \* crashes and failed calls so far
  leaked,     \* history: Runs whose owner crashed or failed to clean up
  forged      \* history: Runs in which the Workflow has put a manifest.json itself

vars == <<leaseFile, session, tombstone, runs, scratch, lock, pc, run, faults, leaked, forged>>

Tree == <<leaseFile, session, tombstone>>
Files == <<runs, scratch>>

-----------------------------------------------------------------------------
(* The steps of the commands. *)

CreatePC == {"newLease", "newLock", "newRoot", "newLayout", "newMarker"}
UndoPC == {"undoRoot", "undoLease"}
OpenPC == {"openLock", "openMissing", "openValidate"}
OwnPC == {"allocScratch", "execute", "finishOk", "finishFailed", "gate", "publish",
          "dropScratch", "dropCandidate"}
ReadPC == {"read"}
ReportPC == {"report", "reportRun", "release"}
UsePC == {"using"} \cup OwnPC \cup ReadPC \cup ReportPC
DeletePC == {"deleteMissing", "deleteLock", "deleteCheck", "deleteValidate",
             "deleteRename", "deleteTree"}

\* Answers of a command that no longer holds its lease.
AnswerPC == {"notFound", "corrupted", "unavailable", "invalidLayout", "inUse",
             "invalidState", "deleted", "failed"}

PC == {"idle"} \cup CreatePC \cup UndoPC \cup OpenPC \cup UsePC \cup DeletePC \cup AnswerPC

TypeOK ==
  /\ leaseFile \in {"absent", "present"}
  /\ session \in {"absent", "bare", "laid", "marked"}
  /\ tombstone \in {"absent", "present"}
  /\ runs \in [Runs -> {"unused", "candidate", "premature", "published", "gone"}]
  /\ scratch \in [Runs -> {"none", "dir", "foreign"}]
  /\ lock \in [Procs -> {"none", "shared", "exclusive"}]
  /\ pc \in [Procs -> PC]
  /\ run \in [Procs -> Runs \cup {NoRun}]
  /\ faults \in 0..MaxFaults
  /\ leaked \in SUBSET Runs
  /\ forged \in SUBSET Runs

Init ==
  /\ leaseFile = "absent"
  /\ session = "absent"
  /\ tombstone = "absent"
  /\ runs = [r \in Runs |-> "unused"]
  /\ scratch = [r \in Runs |-> "none"]
  /\ lock = [p \in Procs |-> "none"]
  /\ pc = [p \in Procs |-> IF p = Creator THEN "newLease" ELSE "idle"]
  /\ run = [p \in Procs |-> NoRun]
  /\ faults = 0
  /\ leaked = {}
  /\ forged = {}

-----------------------------------------------------------------------------
(* Helpers. *)

Step(p, from, to) == pc[p] = from /\ pc' = [pc EXCEPT ![p] = to]

\* A file-system call of this step fails, within the bound.
Fault == faults < MaxFaults /\ faults' = faults + 1

\* Mutation of CanExclude: deletion disregards shared holders.
CanExcludeOverShared(p) == \A q \in Procs \ {p} : lock[q] # "exclusive"

\* try_lock_shared and try_lock on the process's own open file.
CanShare(p) == \A q \in Procs \ {p} : lock[q] # "exclusive"
CanExclude(p) == \A q \in Procs \ {p} : lock[q] = "none"
Lock(p, mode) == lock' = [lock EXCEPT ![p] = mode]
Unlock(p) == Lock(p, "none")

\* Mutation of Validation: an error kind that no command knows.
ValidationUnknown ==
  CASE session = "absent" -> "missing"
    [] session = "marked" -> "valid"
    [] OTHER -> "invalidLayout"

\* The result of validate_session_layout: the marker decides, for it is
\* published after the directories it vouches for.
Validation ==
  CASE session = "absent" -> "notFound"
    [] session = "marked" -> "valid"
    [] OTHER -> "invalidLayout"

Present(r) == runs[r] \in {"candidate", "premature", "published"}

-----------------------------------------------------------------------------
(* kat session create: SessionStore::create_with_id. *)

NewLease(p) ==
  /\ Step(p, "newLease", "newLock")
  /\ leaseFile' = "present"
  /\ UNCHANGED <<session, tombstone, Files, lock, run, faults, leaked, forged>>

NewLock(p) ==
  \/ /\ Step(p, "newLock", "newRoot")
     /\ CanShare(p)
     /\ Lock(p, "shared")
     /\ UNCHANGED <<Tree, Files, run, faults, leaked, forged>>
  \/ /\ Step(p, "newLock", "undoLease")
     /\ ~CanShare(p)
     /\ UNCHANGED <<Tree, Files, lock, run, faults, leaked, forged>>

NewRoot(p) ==
  \/ /\ Step(p, "newRoot", "newLayout")
     /\ session' = "bare"
     /\ UNCHANGED <<leaseFile, tombstone, Files, lock, run, faults, leaked, forged>>
  \/ /\ Step(p, "newRoot", "undoLease")
     /\ Unlock(p)
     /\ Fault
     /\ UNCHANGED <<Tree, Files, run, leaked, forged>>

\* The three directories; a failure among them leaves a bare directory.
NewLayout(p) ==
  \/ /\ Step(p, "newLayout", "newMarker")
     /\ session' = "laid"
     /\ UNCHANGED <<leaseFile, tombstone, Files, lock, run, faults, leaked, forged>>
  \/ /\ Step(p, "newLayout", "undoRoot")
     /\ Unlock(p)
     /\ Fault
     /\ UNCHANGED <<Tree, Files, run, leaked, forged>>

\* publish_session_marker: the no-replace rename of session.json.
NewMarker(p) ==
  \/ /\ Step(p, "newMarker", "report")
     /\ session' = "marked"
     /\ UNCHANGED <<leaseFile, tombstone, Files, lock, run, faults, leaked, forged>>
  \/ /\ Step(p, "newMarker", "undoRoot")
     /\ Unlock(p)
     /\ Fault
     /\ UNCHANGED <<Tree, Files, run, leaked, forged>>

\* The lease is dropped before the failed Session is taken down, and the
\* result of the removals is ignored.
UndoRoot(p) ==
  /\ Step(p, "undoRoot", "undoLease")
  /\ \/ session' = "absent" /\ UNCHANGED faults
     \/ Fault /\ UNCHANGED session
  /\ UNCHANGED <<leaseFile, tombstone, Files, lock, run, leaked, forged>>

UndoLease(p) ==
  /\ Step(p, "undoLease", "failed")
  /\ \/ leaseFile' = "absent" /\ UNCHANGED faults
     \/ Fault /\ UNCHANGED leaseFile
  /\ UNCHANGED <<session, tombstone, Files, lock, run, leaked, forged>>

Create(p) ==
  \/ NewLease(p) \/ NewLock(p) \/ NewRoot(p) \/ NewLayout(p) \/ NewMarker(p)
  \/ UndoRoot(p) \/ UndoLease(p)

-----------------------------------------------------------------------------
(* SessionStore::open, the start of every ordinary command. *)

OpenLease(p) ==
  /\ \/ leaseFile = "present" /\ Step(p, "idle", "openLock")
     \/ leaseFile = "absent" /\ Step(p, "idle", "openMissing")
  /\ UNCHANGED <<Tree, Files, lock, run, faults, leaked, forged>>

\* The tree is looked up after the lease was found missing.
OpenMissing(p) ==
  /\ Step(p, "openMissing", IF session = "absent" THEN "notFound" ELSE "corrupted")
  /\ UNCHANGED <<Tree, Files, lock, run, faults, leaked, forged>>

OpenLock(p) ==
  \/ /\ Step(p, "openLock", "openValidate")
     /\ CanShare(p)
     /\ Lock(p, "shared")
     /\ UNCHANGED <<Tree, Files, run, faults, leaked, forged>>
  \/ /\ Step(p, "openLock", "unavailable")
     /\ ~CanShare(p)
     /\ UNCHANGED <<Tree, Files, lock, run, faults, leaked, forged>>

\* Mutation of OpenValidate: the lease is dropped once the layout is valid.
OpenValidateUnleased(p) ==
  \/ /\ Step(p, "openValidate", IF Validation = "valid" THEN "using" ELSE Validation)
     /\ Unlock(p)
     /\ UNCHANGED <<Tree, Files, run, faults, leaked, forged>>

OpenValidate(p) ==
  \/ /\ Step(p, "openValidate", "using")
     /\ Validation = "valid"
     /\ UNCHANGED <<Tree, Files, lock, run, faults, leaked, forged>>
  \/ /\ Step(p, "openValidate", Validation)
     /\ Validation # "valid"
     /\ Unlock(p)
     /\ UNCHANGED <<Tree, Files, run, faults, leaked, forged>>

Open(p) == OpenLease(p) \/ OpenMissing(p) \/ OpenLock(p) \/ OpenValidate(p)

-----------------------------------------------------------------------------
(* kat query, kat inspect: a Run is resolved, then its Outputs are read, and *)
(* the Response delivered, all under the lease.                             *)

\* Mutation of ResolveRun: a Run without a manifest is resolved as well.
ResolveRunUnpublished(p) ==
  /\ \E r \in Runs :
       /\ Step(p, "using", "read")
       /\ Present(r)
       /\ run' = [run EXCEPT ![p] = r]
  /\ UNCHANGED <<Tree, Files, lock, faults, leaked, forged>>

\* run_manifest::resolve takes any well-formed manifest.json, whoever wrote it.
ResolveRun(p) ==
  \/ \E r \in Runs :
       /\ Step(p, "using", "read")
       /\ runs[r] \in {"premature", "published"}
       /\ run' = [run EXCEPT ![p] = r]
       /\ UNCHANGED <<Tree, Files, lock, faults, leaked, forged>>
  \/ /\ Step(p, "using", "report")   \* no such Run, or nothing to read
     /\ UNCHANGED <<Tree, Files, lock, run, faults, leaked, forged>>

ReadRun(p) ==
  /\ Step(p, "read", "report")
  /\ UNCHANGED <<Tree, Files, lock, run, faults, leaked, forged>>

\* publish_to: the lease is dropped after the Response has been flushed.
Report(p) ==
  /\ \/ Step(p, "report", "release")
     \/ Step(p, "reportRun", "release")
  /\ UNCHANGED <<Tree, Files, lock, run, faults, leaked, forged>>

Release(p) ==
  /\ Step(p, "release", "idle")
  /\ Unlock(p)
  /\ run' = [run EXCEPT ![p] = NoRun]
  /\ UNCHANGED <<Tree, Files, faults, leaked, forged>>

Read(p) == ResolveRun(p) \/ ReadRun(p) \/ Report(p) \/ Release(p)

-----------------------------------------------------------------------------
(* kat run: RunAllocation, execute_and_publish, and the drop of a failure. *)

\* A directory that was made but does not resolve to itself is taken back.
AllocCandidate(p) ==
  \E r \in Runs :
    /\ \/ Step(p, "using", "allocScratch") /\ UNCHANGED faults
       \/ Step(p, "using", "dropCandidate") /\ Fault
    /\ runs[r] = "unused"
    /\ runs' = [runs EXCEPT ![r] = "candidate"]
    /\ run' = [run EXCEPT ![p] = r]
    /\ UNCHANGED <<Tree, scratch, lock, leaked, forged>>

AllocScratch(p) ==
  \/ /\ Step(p, "allocScratch", "execute")
     /\ scratch' = [scratch EXCEPT ![run[p]] = "dir"]
     /\ UNCHANGED <<Tree, runs, lock, run, faults, leaked, forged>>
  \/ /\ Step(p, "allocScratch", "dropCandidate")
     /\ Fault
     /\ UNCHANGED <<Tree, Files, lock, run, leaked, forged>>
  \/ /\ Step(p, "allocScratch", "dropScratch")
     /\ scratch' = [scratch EXCEPT ![run[p]] = "dir"]
     /\ Fault
     /\ UNCHANGED <<Tree, runs, lock, run, leaked, forged>>

\* The Workflow Runtime and everything before it.  While it runs, and whatever
\* its outcome, the Workflow may remove or replace its scratch directory, and
\* may put a manifest.json in its candidate directory or take it out again.
Execute(p) ==
  /\ \/ Step(p, "execute", "finishOk")
     \/ Step(p, "execute", "finishFailed")
     \/ pc[p] = "execute" /\ UNCHANGED pc
  /\ \E s \in {"none", "dir", "foreign"} : scratch' = [scratch EXCEPT ![run[p]] = s]
  /\ \/ /\ runs' = [runs EXCEPT ![run[p]] = "premature"]
        /\ forged' = forged \cup {run[p]}
     \/ /\ runs' = [runs EXCEPT ![run[p]] = "candidate"]
        /\ UNCHANGED forged
  /\ UNCHANGED <<Tree, lock, run, faults, leaked>>

\* Mutation of FinishScratch: a failed removal does not refuse the Run.
FinishScratchLenient(p) ==
  /\ \/ Step(p, "finishOk", "gate")
     \/ Step(p, "finishFailed", "dropScratch")
  /\ \/ scratch' = [scratch EXCEPT ![run[p]] = "none"] /\ UNCHANGED faults
     \/ Fault /\ UNCHANGED scratch
  /\ UNCHANGED <<Tree, runs, lock, run, leaked, forged>>

\* finish_execution: the scratch entry is removed whatever the outcome was;
\* a replaced entry is removed but refuses the Run, and so does a failed removal.
FinishScratch(p) ==
  LET removed == scratch' = [scratch EXCEPT ![run[p]] = "none"]
  IN /\ \/ /\ Step(p, "finishOk", "gate")
           /\ scratch[run[p]] # "foreign"
           /\ removed
           /\ UNCHANGED faults
        \/ /\ Step(p, "finishOk", "dropScratch")
           /\ \/ scratch[run[p]] = "foreign" /\ removed /\ UNCHANGED faults
              \/ scratch[run[p]] # "none" /\ Fault /\ UNCHANGED scratch
        \/ /\ Step(p, "finishFailed", "dropScratch")
           /\ \/ removed /\ UNCHANGED faults
              \/ scratch[run[p]] # "none" /\ Fault /\ UNCHANGED scratch
     /\ UNCHANGED <<Tree, runs, lock, run, leaked, forged>>

\* Outputs, child ledger and Operation log, each of which may refuse the Run.
Gate(p) ==
  /\ \/ Step(p, "gate", "publish")
     \/ Step(p, "gate", "dropScratch")
  /\ UNCHANGED <<Tree, Files, lock, run, faults, leaked, forged>>

\* publish_run_manifest: a manifest that is already there is removed and the
\* Run refused; otherwise a no-replace rename publishes it.
Publish(p) ==
  \/ /\ Step(p, "publish", "reportRun")
     /\ runs[run[p]] = "candidate"
     /\ runs' = [runs EXCEPT ![run[p]] = "published"]
     /\ UNCHANGED <<Tree, scratch, lock, run, faults, leaked, forged>>
  \/ /\ Step(p, "publish", "dropScratch")
     /\ runs[run[p]] = "premature"
     /\ runs' = [runs EXCEPT ![run[p]] = "candidate"]
     /\ UNCHANGED <<Tree, scratch, lock, run, faults, leaked, forged>>
  \/ /\ Step(p, "publish", "dropScratch")
     /\ Fault
     /\ UNCHANGED <<Tree, Files, lock, run, leaked, forged>>

\* Drop for RunAllocation: both removals are attempted and their results
\* ignored, while the lease is still held.
DropScratch(p) ==
  /\ Step(p, "dropScratch", "dropCandidate")
  /\ \/ /\ scratch' = [scratch EXCEPT ![run[p]] = "none"]
        /\ UNCHANGED <<faults, leaked>>
     \/ /\ scratch[run[p]] # "none"
        /\ Fault
        /\ leaked' = leaked \cup {run[p]}
        /\ UNCHANGED scratch
  /\ UNCHANGED <<Tree, runs, lock, run, forged>>

DropCandidate(p) ==
  /\ Step(p, "dropCandidate", "report")
  /\ \/ /\ runs' = [runs EXCEPT ![run[p]] = "gone"]
        /\ UNCHANGED <<faults, leaked>>
     \/ /\ Fault
        /\ leaked' = leaked \cup {run[p]}
        /\ UNCHANGED runs
  /\ UNCHANGED <<Tree, scratch, lock, run, forged>>

RunWorkflow(p) ==
  \/ AllocCandidate(p) \/ AllocScratch(p) \/ Execute(p) \/ FinishScratch(p)
  \/ Gate(p) \/ Publish(p) \/ DropScratch(p) \/ DropCandidate(p)

-----------------------------------------------------------------------------
(* kat session delete: SessionStore::delete. *)

DeleteLease(p) ==
  /\ \/ leaseFile = "present" /\ Step(p, "idle", "deleteLock")
     \/ leaseFile = "absent" /\ Step(p, "idle", "deleteMissing")
  /\ UNCHANGED <<Tree, Files, lock, run, faults, leaked, forged>>

DeleteMissing(p) ==
  /\ Step(p, "deleteMissing",
          IF session = "absent" /\ tombstone = "absent" THEN "notFound" ELSE "corrupted")
  /\ UNCHANGED <<Tree, Files, lock, run, faults, leaked, forged>>

\* Mutation of DeleteLock: the exclusive lock is waited for.
DeleteLockWaiting(p) ==
  /\ Step(p, "deleteLock", "deleteCheck")
  /\ CanExclude(p)
  /\ Lock(p, "exclusive")
  /\ UNCHANGED <<Tree, Files, run, faults, leaked, forged>>

DeleteLock(p) ==
  \/ /\ Step(p, "deleteLock", "deleteCheck")
     /\ CanExclude(p)
     /\ Lock(p, "exclusive")
     /\ UNCHANGED <<Tree, Files, run, faults, leaked, forged>>
  \/ /\ Step(p, "deleteLock", "inUse")
     /\ ~CanExclude(p)
     /\ UNCHANGED <<Tree, Files, lock, run, faults, leaked, forged>>

\* Mutation of DeleteCheck: a tombstone alone counts as not found.
DeleteCheckForgetful(p) ==
  \/ /\ Step(p, "deleteCheck", "deleteValidate") /\ session # "absent" /\ tombstone = "absent"
     /\ UNCHANGED <<Tree, Files, lock, run, faults, leaked, forged>>
  \/ /\ Step(p, "deleteCheck", "notFound") /\ session = "absent"
     /\ Unlock(p)
     /\ UNCHANGED <<Tree, Files, run, faults, leaked, forged>>

\* A tombstone alone is a deletion that stopped half way: it is resumed.
DeleteCheck(p) ==
  \/ /\ \/ Step(p, "deleteCheck", "deleteValidate") /\ session # "absent" /\ tombstone = "absent"
        \/ Step(p, "deleteCheck", "deleteTree") /\ session = "absent" /\ tombstone = "present"
     /\ UNCHANGED <<Tree, Files, lock, run, faults, leaked, forged>>
  \/ /\ session = "absent" <=> tombstone = "absent"
     /\ Step(p, "deleteCheck", IF tombstone = "absent" THEN "notFound" ELSE "invalidState")
     /\ Unlock(p)
     /\ UNCHANGED <<Tree, Files, run, faults, leaked, forged>>

DeleteValidate(p) ==
  \/ /\ Step(p, "deleteValidate", "deleteRename")
     /\ Validation = "valid"
     /\ UNCHANGED <<Tree, Files, lock, run, faults, leaked, forged>>
  \/ /\ Step(p, "deleteValidate", Validation)
     /\ Validation # "valid"
     /\ Unlock(p)
     /\ UNCHANGED <<Tree, Files, run, faults, leaked, forged>>

DeleteRename(p) ==
  \/ /\ Step(p, "deleteRename", "deleteTree")
     /\ session' = "absent"
     /\ tombstone' = "present"
     /\ UNCHANGED <<leaseFile, Files, lock, run, faults, leaked, forged>>
  \/ /\ Step(p, "deleteRename", "failed")
     /\ Unlock(p)
     /\ Fault
     /\ UNCHANGED <<Tree, Files, run, leaked, forged>>

\* remove_tombstone is a recursive removal, one entry after another; it may
\* stop at any of them and leave a partial tree behind.
DeleteEntry(p) ==
  /\ pc[p] = "deleteTree"
  /\ \E r \in Runs :
       \/ /\ Present(r)
          /\ runs' = [runs EXCEPT ![r] = "gone"]
          /\ UNCHANGED scratch
       \/ /\ scratch[r] # "none"
          /\ scratch' = [scratch EXCEPT ![r] = "none"]
          /\ UNCHANGED runs
  /\ UNCHANGED <<Tree, lock, pc, run, faults, leaked, forged>>

\* Mutation of DeleteTree: a failed recursive removal is ignored.
DeleteTreeIgnoring(p) ==
  /\ Step(p, "deleteTree", "deleted")
  /\ \/ /\ \A r \in Runs : ~Present(r) /\ scratch[r] = "none"
        /\ tombstone' = "absent"
        /\ UNCHANGED faults
     \/ Fault /\ UNCHANGED tombstone
  /\ Unlock(p)
  /\ UNCHANGED <<leaseFile, session, Files, run, leaked, forged>>

DeleteTree(p) ==
  \/ /\ Step(p, "deleteTree", "deleted")
     /\ \A r \in Runs : ~Present(r) /\ scratch[r] = "none"
     /\ tombstone' = "absent"
     /\ Unlock(p)
     /\ UNCHANGED <<leaseFile, session, Files, run, faults, leaked, forged>>
  \/ /\ Step(p, "deleteTree", "failed")
     /\ Unlock(p)
     /\ Fault
     /\ UNCHANGED <<Tree, Files, run, leaked, forged>>

Delete(p) ==
  \/ DeleteLease(p) \/ DeleteMissing(p) \/ DeleteLock(p) \/ DeleteCheck(p)
  \/ DeleteValidate(p) \/ DeleteRename(p) \/ DeleteEntry(p) \/ DeleteTree(p)

-----------------------------------------------------------------------------
(* Ends of a process. *)

\* The answer is printed and the process exits.
Exit(p) ==
  /\ pc[p] \in AnswerPC
  /\ pc' = [pc EXCEPT ![p] = "idle"]
  /\ UNCHANGED <<Tree, Files, lock, run, faults, leaked, forged>>

\* The process is killed: the operating system releases its lock, and no
\* destructor runs.
Crash(p) ==
  /\ pc[p] \notin {"idle", "newLease"} \cup AnswerPC
  /\ pc' = [pc EXCEPT ![p] = "idle"]
  /\ Unlock(p)
  /\ run' = [run EXCEPT ![p] = NoRun]
  /\ leaked' = IF pc[p] \in OwnPC THEN leaked \cup {run[p]} ELSE leaked
  /\ Fault
  /\ UNCHANGED <<Tree, Files, forged>>

Act(p) == Create(p) \/ Open(p) \/ Read(p) \/ RunWorkflow(p) \/ Delete(p) \/ Exit(p)

Next == \E p \in Procs : Act(p) \/ Crash(p)

Spec == Init /\ [][Next]_vars

\* A command that has started goes on, whatever the others do, except while
\* its Workflow runs: nothing bounds the time a Workflow takes, and no user
\* has to start another command.
Continue(p) == pc[p] \notin {"idle", "execute"} /\ Act(p)

FairSpec == Spec /\ \A p \in Procs : WF_vars(Continue(p))

-----------------------------------------------------------------------------
(* Properties. *)

\* From its validation to the end of its Response, an ordinary command works
\* on a Session that stays in place and complete: neither deletion nor a
\* failed creation takes the tree away from under it.
SessionInUseStays == \A p \in Procs : pc[p] \in UsePC => session = "marked"

\* The Run a process has just published and is about to report is there, with
\* the manifest the publication gate wrote.  So is the Run a process reads,
\* with one exception: a Run whose Workflow forged a manifest can be resolved
\* as well, and the gate or the clean-up may take it from under its reader.
TargetRunIsPublished ==
  \A p \in Procs : pc[p] \in {"read", "reportRun"} =>
    /\ session = "marked"
    /\ run[p] \in Runs
    /\ \/ runs[run[p]] = "published"
       \/ pc[p] = "read" /\ run[p] \in forged

\* What an ordinary command works on stays: the Session from its validation to
\* the end of its Response, and the Run it reads or reports.
WhatIsUsedStays == SessionInUseStays /\ TargetRunIsPublished

\* Cleaning the scratch directory is a publication gate: no published Run ever
\* has one, also when its process was killed, and also inside a tombstone.
PublishedRunHasNoScratch ==
  \A r \in Runs : runs[r] = "published" => scratch[r] = "none"

\* An unpublished candidate or a scratch entry that belongs to no running
\* command was left by a crash or by a failed removal, never by a normal end.
LeftoversAreAccounted ==
  \A r \in Runs :
    runs[r] \in {"candidate", "premature"} \/ scratch[r] # "none" =>
      r \in leaked \/ \E p \in Procs : pc[p] \in OwnPC /\ run[p] = r

\* What a Run leaves on disk is a published Run without scratch, or is owned
\* by a command that will clean it, or was left by a crash or a failed removal.
DiskIsAccounted == PublishedRunHasNoScratch /\ LeftoversAreAccounted

\* The lease file is there before the Session is published and for ever after,
\* also while a deletion is half done: whoever names the Session finds the
\* lock that protects it, and a deletion that stopped can be resumed.
LeaseFileOutlivesSession ==
  /\ session = "marked" \/ tombstone = "present" => leaseFile = "present"
  /\ \A p \in Procs : pc[p] = "deleted" => leaseFile = "present"

\* Deletion reports success only when nothing of the Session is left.
DeletedIsGone ==
  \A p \in Procs : pc[p] = "deleted" =>
    /\ session = "absent" /\ tombstone = "absent"
    /\ \A r \in Runs : ~Present(r) /\ scratch[r] = "none"

\* A deletion removes everything but the lease file, and is reported only then;
\* until then it can be resumed under that lease.
DeletionIsWhole == LeaseFileOutlivesSession /\ DeletedIsGone

\* A published Run disappears only inside the tombstone of its whole Session,
\* and never while any command is using the Session.
PublishedRunsAreKept ==
  [][\A r \in Runs : runs[r] = "published" /\ runs'[r] # "published" =>
       tombstone = "present" /\ session = "absent" /\ \A p \in Procs : pc[p] \notin UsePC]_vars

\* The locks are tried, never waited for: a deletion answers although a
\* Workflow, or another deletion, never ends.
DeletionAnswers ==
  \A p \in Procs : pc[p] \in DeletePC ~> pc[p] \notin DeletePC

\* However often a deletion was cut short, retrying it completes it: a
\* tombstone cannot outlast deletions that keep obtaining the lease.
RetriedDeletionCompletes ==
  []<>(\E p \in Procs : pc[p] = "deleteCheck") => []<>(tombstone = "absent")

-----------------------------------------------------------------------------
(* The contract this module implements. *)

Phase ==
  CASE session = "marked" -> "live"
    [] session # "marked" /\ pc[Creator] \in CreatePC -> "unborn"
    [] OTHER -> "dead"

Contract == INSTANCE SessionContract WITH
  phase <- Phase,
  users <- {p \in Procs : pc[p] \in UsePC},
  published <- {r \in Runs : session = "marked" /\ runs[r] = "published"}

\* The steps of all commands, crashes included, keep the promises of an
\* Analysis Session.
ImplementsContract == Contract!ContractSpec
=============================================================================
