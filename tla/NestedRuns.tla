----------------------------- MODULE NestedRuns -----------------------------
(***************************************************************************)
(* Runs that start Runs.  A Workflow may call other Workflows of its       *)
(* Session (ctx.run), also from several threads at once; each call is a    *)
(* child Run that the Host executes and publishes through the same gate as *)
(* its parent (cli/src/run/nested.rs, cli/src/run/execution.rs), and the   *)
(* manifest of the parent lists its published children.                    *)
(*                                                                         *)
(* Meanwhile another process enumerates the published Runs of the Session  *)
(* (run_manifest::resolve_all, behind `kat inspect` and `kat analysis`),   *)
(* one directory entry after another, and follows the lists of children.   *)
(*                                                                         *)
(* A root Run is one `kat run` process; its descendants run on threads of  *)
(* that process and die with it.  The Session itself stays in place        *)
(* throughout: that is what module SessionStore shows.                     *)
(***************************************************************************)
EXTENDS FiniteSets, Naturals

CONSTANTS
  Runs,      \* Run ids that may be generated
  Targets,   \* the (PACK, Workflow) pairs that can be called
  NoRun,     \* neither a Run id nor a target: the parent of a root
  MaxCrashes \* bound on the Host processes that are killed

ASSUME NoRunAssumption == NoRun \notin Runs
ASSUME MaxCrashesAssumption == MaxCrashes \in Nat

VARIABLES
  stage,     \* how far the execution of each Run is
  disk,      \* the directory of each Run: "none", "candidate", "published", "gone"
  manifest,  \* child_runs of each published manifest
  parent,    \* the Run that called each Run
  host,      \* the root of its tree: the process that executes it
  target,    \* the Workflow each Run executes
  chain,     \* active_chain: the targets from the root down to the Run
  ledger,    \* direct_children: the published children a Run knows of
  crashes,   \* Host processes killed so far
  look,      \* the step of the process that enumerates the Runs
  unseen,    \* directory entries its enumeration has still to visit
  view,      \* the Runs it has selected
  before     \* history: the Runs that were published when it began

tree == <<parent, host, target, chain>>
viewer == <<look, unseen, view, before>>
vars == <<stage, disk, manifest, tree, ledger, crashes, viewer>>

Active == {"running", "drainOk", "drainFailed", "gate", "publish", "record", "answer", "drop"}
Over == {"ended", "dead"}
LookStages == {"idle", "scan", "resolve", "close", "done", "notFound", "invalidFacts"}

TypeOK ==
  /\ stage \in [Runs -> {"unused"} \cup Active \cup Over]
  /\ disk \in [Runs -> {"none", "candidate", "published", "gone"}]
  /\ manifest \in [Runs -> SUBSET Runs]
  /\ parent \in [Runs -> Runs \cup {NoRun}]
  /\ host \in [Runs -> Runs \cup {NoRun}]
  /\ target \in [Runs -> Targets \cup {NoRun}]
  /\ chain \in [Runs -> SUBSET Targets]
  /\ ledger \in [Runs -> SUBSET Runs]
  /\ crashes \in 0..MaxCrashes
  /\ look \in LookStages
  /\ unseen \subseteq Runs /\ view \subseteq Runs /\ before \subseteq Runs

Init ==
  /\ stage = [r \in Runs |-> "unused"]
  /\ disk = [r \in Runs |-> "none"]
  /\ manifest = [r \in Runs |-> {}]
  /\ parent = [r \in Runs |-> NoRun]
  /\ host = [r \in Runs |-> NoRun]
  /\ target = [r \in Runs |-> NoRun]
  /\ chain = [r \in Runs |-> {}]
  /\ ledger = [r \in Runs |-> {}]
  /\ crashes = 0
  /\ look = "idle" /\ unseen = {} /\ view = {} /\ before = {}

-----------------------------------------------------------------------------
(* Helpers. *)

Step(r, from, to) == stage[r] = from /\ stage' = [stage EXCEPT ![r] = to]

Children(r) == {c \in Runs : parent[c] = r}
Published == {r \in Runs : disk[r] = "published"}

\* Allocation of a fresh Run of t under parent p, executed by process h, below
\* the targets of above.
Allocate(r, p, h, t, above) ==
  /\ Step(r, "unused", "running")
  /\ disk' = [disk EXCEPT ![r] = "candidate"]
  /\ parent' = [parent EXCEPT ![r] = p]
  /\ host' = [host EXCEPT ![r] = h]
  /\ target' = [target EXCEPT ![r] = t]
  /\ chain' = [chain EXCEPT ![r] = above \cup {t}]

\* Mutation of Drained: the Host does not wait for the calls in progress.
DrainedAtOnce(r) == stage[r] \in {"drainOk", "drainFailed"}

\* The control pump has returned: every worker, one for each call, is done.
Drained(r) ==
  /\ stage[r] \in {"drainOk", "drainFailed"}
  /\ \A c \in Children(r) : stage[c] \notin Active

-----------------------------------------------------------------------------
(* Execution: run.rs, run/nested.rs and run/execution.rs. *)

\* kat run: the root of a tree, for_root.
Root(r) ==
  \E t \in Targets :
    /\ Allocate(r, NoRun, r, t, {})
    /\ UNCHANGED <<manifest, ledger, crashes, viewer>>

\* Mutation of Call: the child starts a chain of its own.
CallUnchained(r) ==
  \E c \in Runs, t \in Targets \ chain[r] :
    /\ stage[r] = "running"
    /\ Allocate(c, r, host[r], t, {})
    /\ UNCHANGED <<manifest, ledger, crashes, viewer>>

\* execute and execute_child: a target of the active chain is refused, any
\* other gets a child Run.  Nothing keeps a Workflow from calling again
\* before an earlier call has returned.
Call(r) ==
  \E c \in Runs, t \in Targets \ chain[r] :
    /\ stage[r] = "running"
    /\ Allocate(c, r, host[r], t, chain[r])
    /\ UNCHANGED <<manifest, ledger, crashes, viewer>>

\* The Runtime ends after its calls have returned; the outcome is a Response
\* or a failure.
Return(r) ==
  /\ \/ Step(r, "running", "drainOk")
     \/ Step(r, "running", "drainFailed")
  /\ \A c \in Children(r) : stage[c] \notin Active
  /\ UNCHANGED <<disk, manifest, tree, ledger, crashes, viewer>>

\* The Runtime ends while the Host still executes calls of it: it died, or
\* its channel was poisoned and the Workflow went on without the answers.
Quit(r) ==
  /\ \/ Step(r, "running", "drainOk")
     \/ Step(r, "running", "drainFailed")
  /\ \E c \in Children(r) : stage[c] \in Active
  /\ UNCHANGED <<disk, manifest, tree, ledger, crashes, viewer>>

\* execute_workflow_runtime returns, and finish_execution cleans up.
Finish(r) ==
  /\ Drained(r)
  /\ \/ Step(r, "drainOk", "gate")
     \/ Step(r, "drainOk", "drop")
     \/ Step(r, "drainFailed", "drop")
  /\ UNCHANGED <<disk, manifest, tree, ledger, crashes, viewer>>

\* The manifest is assembled from the Outputs and the ledger, or refused.
Gate(r) ==
  /\ \/ /\ Step(r, "gate", "publish")
        /\ manifest' = [manifest EXCEPT ![r] = ledger[r]]
     \/ /\ Step(r, "gate", "drop")
        /\ UNCHANGED manifest
  /\ UNCHANGED <<disk, tree, ledger, crashes, viewer>>

\* publish_run_manifest; execute_child goes on to deliver_published_child.
Publish(r) ==
  /\ \/ /\ Step(r, "publish", IF parent[r] = NoRun THEN "ended" ELSE "record")
        /\ disk' = [disk EXCEPT ![r] = "published"]
     \/ /\ Step(r, "publish", "drop")
        /\ UNCHANGED disk
  /\ UNCHANGED <<manifest, tree, ledger, crashes, viewer>>

\* Mutation of Record: children are recorded when the parent's Runtime is over.
RecordLate(r) ==
  /\ Step(r, "record", "answer")
  /\ stage[parent[r]] # "running"
  /\ ledger' = [ledger EXCEPT ![parent[r]] = @ \cup {r}]
  /\ UNCHANGED <<disk, manifest, tree, crashes, viewer>>

\* The ledger is written before anything that can fail the call.
Record(r) ==
  /\ Step(r, "record", "answer")
  /\ ledger' = [ledger EXCEPT ![parent[r]] = @ \cup {r}]
  /\ UNCHANGED <<disk, manifest, tree, crashes, viewer>>

\* The child is resolved again and its Outputs, or a failure, are sent back:
\* the worker of the call is done.
Answer(r) ==
  /\ Step(r, "answer", "ended")
  /\ UNCHANGED <<disk, manifest, tree, ledger, crashes, viewer>>

\* Drop of the allocation of a Run that is not published; the failure of a
\* child is the answer of its call.
Drop(r) ==
  /\ Step(r, "drop", "ended")
  /\ disk' = [disk EXCEPT ![r] = "gone"]
  /\ UNCHANGED <<manifest, tree, ledger, crashes, viewer>>

\* The process of a tree is killed, with all its threads.
Crash(h) ==
  /\ crashes < MaxCrashes
  /\ crashes' = crashes + 1
  /\ stage[h] \in Active /\ parent[h] = NoRun
  /\ stage' = [r \in Runs |-> IF host[r] = h /\ stage[r] \in Active THEN "dead" ELSE stage[r]]
  /\ UNCHANGED <<disk, manifest, tree, ledger, viewer>>

-----------------------------------------------------------------------------
(* Enumeration: run_manifest::resolve_all. *)

\* The directory is opened.  An entry that comes or goes while it is read may
\* be listed or not; one that is there all the time is.
Scan ==
  /\ look = "idle" /\ look' = "scan"
  /\ unseen' \in {s \in SUBSET Runs : {r \in Runs : disk[r] \in {"candidate", "published"}} \subseteq s}
  /\ view' = {}
  /\ before' = Published
  /\ UNCHANGED <<stage, disk, manifest, tree, ledger, crashes>>

\* An entry is selected if it has a manifest when it is looked at.
Visit ==
  /\ look = "scan" /\ UNCHANGED look
  /\ \E r \in unseen :
       /\ unseen' = unseen \ {r}
       /\ view' = view \cup ({r} \cap Published)
  /\ UNCHANGED <<stage, disk, manifest, tree, ledger, crashes, before>>

\* Each selected Run is resolved.
Resolve ==
  /\ look = "scan" /\ unseen = {}
  /\ look' = IF view \subseteq Published THEN "close" ELSE "notFound"
  /\ UNCHANGED <<stage, disk, manifest, tree, ledger, crashes, unseen, view, before>>

\* The children of selected Runs that are not selected themselves.
Missing == {c \in Runs \ view : \E r \in view : c \in manifest[r]}

\* Mutation of Complete: a child that was not selected is passed over.
CompleteOpen ==
  /\ look = "close" /\ look' = "done"
  /\ UNCHANGED <<stage, disk, manifest, tree, ledger, crashes, unseen, view, before>>

\* complete_child_run_references: the children that the enumeration missed
\* are resolved, one after another.
Complete ==
  /\ look = "close"
  /\ \/ Missing = {} /\ look' = "done" /\ UNCHANGED view
     \/ \E c \in Missing :
          IF c \in Published
          THEN view' = view \cup {c} /\ UNCHANGED look
          ELSE look' = "invalidFacts" /\ UNCHANGED view
  /\ UNCHANGED <<stage, disk, manifest, tree, ledger, crashes, unseen, before>>

Reply ==
  /\ look \in {"done", "notFound", "invalidFacts"} /\ look' = "idle"
  /\ unseen' = {} /\ view' = {} /\ before' = {}
  /\ UNCHANGED <<stage, disk, manifest, tree, ledger, crashes>>

-----------------------------------------------------------------------------

HostStep(r) ==
  \/ Finish(r) \/ Gate(r) \/ Publish(r) \/ Record(r) \/ Answer(r) \/ Drop(r)

TreeNext ==
  \E r \in Runs : Root(r) \/ Call(r) \/ Return(r) \/ Quit(r) \/ HostStep(r) \/ Crash(r)

ViewNext == Scan \/ Visit \/ Resolve \/ Complete \/ Reply

Next == TreeNext \/ ViewNext

Spec == Init /\ [][Next]_vars

\* Threads of the Host go on, and a Workflow whose calls have all returned
\* returns some day.
Fairness == \A r \in Runs : WF_vars(HostStep(r)) /\ WF_vars(Return(r))

-----------------------------------------------------------------------------
(* Properties. *)

\* A published manifest lists exactly the children of the Run that were
\* published: none was still under way when the manifest was written, none was
\* forgotten because its answer got lost, none is listed that failed.
ManifestIsExact ==
  \A r \in Published : manifest[r] = Children(r) \cap Published

\* A line of calls: with every Run its parent, and no two children of one Run.
IsLine(line) ==
  \A r, c \in line :
    /\ parent[r] \in line \cup {NoRun}
    /\ parent[r] = parent[c] => r = c

\* A Workflow never runs inside itself, however many other Workflows lie
\* between: along a line of calls no target occurs twice.
NeverInsideItself ==
  \A line \in SUBSET Runs : IsLine(line) =>
    \A r, c \in line : target[r] = target[c] => r = c

\* An enumeration never takes a healthy Session for a corrupted one, however
\* its directory reads interleave with Runs that are published.
NeverSeenCorrupted == look \notin {"notFound", "invalidFacts"}

\* What an enumeration returns is closed: with every Run all its children.
ViewIsClosed == look = "done" => \A r \in view : manifest[r] \subseteq view

\* It holds every Run that was published when the enumeration began.
ViewIsComplete == look = "done" => before \subseteq view /\ view \subseteq Published

\* report_tree can always lay it out: no Run has two parents in it, and a
\* child never is, directly or not, its own parent.
ViewIsForest ==
  look = "done" => \A r, s \in view :
    /\ r # s => manifest[r] \cap manifest[s] = {}
    /\ s \in manifest[r] => chain[r] \subseteq chain[s] /\ chain[r] # chain[s]

\* An enumeration is sound: it never fails on a healthy Session, and what it
\* returns is closed and complete and is a forest.
EnumerationIsSound == NeverSeenCorrupted /\ ViewIsClosed /\ ViewIsComplete /\ ViewIsForest

\* A published Run stays: also when the Run that called it fails or dies.
PublishedStays == [][\A r \in Runs : disk[r] = "published" => disk'[r] = "published"]_vars

\* A tree of Runs ends: a parent waits for its children and they for nothing
\* of their parent.
TreesEnd == \A r \in Runs : stage[r] \in Active ~> stage[r] \in Over
=============================================================================
