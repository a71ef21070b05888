-------------------------- MODULE AnalysisArchive --------------------------
(***************************************************************************)
(* The Analysis Record of one Session (cli/src/analysis_store.rs): one     *)
(* document, analysis/record.json, that concurrent commands read, extend   *)
(* and replace.                                                            *)
(*                                                                         *)
(*   kat analysis show       reads it and lays it out along the Runs       *)
(*   kat analysis save       replaces nodes, if nobody wrote since the     *)
(*                           revision its author names                     *)
(*   kat query --archive     appends the evidence of a query               *)
(*   kat knowledge read      adopts a snapshot of PACK knowledge, unless   *)
(*                           there is one                                  *)
(*                                                                         *)
(* Each takes a lock on analysis/write.lock, waits for it, and replaces    *)
(* the document by an atomic rename.  Each command stands for its process; *)
(* every one holds the lease of the Session, so that the Session stays     *)
(* and its published Runs are never fewer (modules SessionStore and        *)
(* NestedRuns).  Texts are left out; a node is the Run it is about.        *)
(***************************************************************************)
EXTENDS Naturals, FiniteSets

CONSTANTS
  Procs,        \* commands, each with the user who issues it again and again
  Runs,         \* Runs that may be published in the Session
  Topics,       \* knowledge that can be selected: an entry or a reference
  Ids,          \* material ids that may be generated
  Nothing,      \* not a Run, a topic or an id
  MaxRevision,  \* the last revision; 2^64 - 1 in the code
  MaxFaults     \* bound on kills and failed replacements

ASSUME NothingAssumption == Nothing \notin Runs \cup Topics \cup Ids
ASSUME RunsAssumption == Runs \cap Topics = {}
ASSUME IdsAssumption == IsFiniteSet(Ids)
ASSUME BoundsAssumption == MaxRevision \in Nat \ {0} /\ MaxFaults \in Nat

VARIABLES
  directory,  \* whether analysis/ is there
  record,     \* record.json; revision 0 is its absence
  lock,       \* the lock each process holds on write.lock
  pc,         \* the next step of each process
  about,      \* the Run a query is about, or the topic of an adoption
  ticket,     \* the material id a process has generated
  draft,      \* the record a process has read, or is about to put in place
  known,      \* the record its user has been shown
  published,  \* the published Runs of the Session
  receipts,   \* history: the receipts that were delivered
  updates,    \* history: the updates of each topic that were put in place
  faults

local == <<pc, about, ticket, draft>>
history == <<receipts, updates>>
vars == <<directory, record, lock, local, known, published, history, faults>>

Record == [revision : 0..MaxRevision, nodes : SUBSET Runs,
           materials : [Ids -> Runs \cup Topics \cup {Nothing}]]
NoRecord == [revision |-> 0, nodes |-> {}, materials |-> [i \in Ids |-> Nothing]]

ReadPC == {"showRead", "queryRead"}
DecidePC == {"saveDecide", "appendDecide", "adoptDecide", "updateDecide"}
WaitPC == {"showLock", "queryLock", "saveLock", "appendLock", "adoptLock", "updateLock"}
CommitPC == {"saveCommit", "appendCommit", "adoptCommit", "updateCommit"}
ReportPC == {"saveReport", "receipt"}
PC == {"idle", "showRuns", "queryRun", "unlaid"} \cup ReadPC \cup DecidePC \cup WaitPC
        \cup CommitPC \cup ReportPC

TypeOK ==
  /\ directory \in BOOLEAN
  /\ record \in Record
  /\ lock \in [Procs -> {"none", "shared", "exclusive"}]
  /\ pc \in [Procs -> PC]
  /\ about \in [Procs -> Runs \cup Topics \cup {Nothing}]
  /\ ticket \in [Procs -> Ids \cup {Nothing}]
  /\ draft \in [Procs -> Record]
  /\ known \in [Procs -> Record]
  /\ published \subseteq Runs
  /\ receipts \subseteq [id : Ids, about : Runs \cup Topics, revision : 1..MaxRevision]
  /\ updates \in [Topics -> Nat]
  /\ faults \in 0..MaxFaults

Init ==
  /\ directory = FALSE
  /\ record = NoRecord
  /\ lock = [p \in Procs |-> "none"]
  /\ pc = [p \in Procs |-> "idle"]
  /\ about = [p \in Procs |-> Nothing]
  /\ ticket = [p \in Procs |-> Nothing]
  /\ draft = [p \in Procs |-> NoRecord]
  /\ known = [p \in Procs |-> NoRecord]
  /\ published = {}
  /\ receipts = {}
  /\ updates = [k \in Topics |-> 0]
  /\ faults = 0

-----------------------------------------------------------------------------
(* Helpers. *)

Step(p, from, to) == pc[p] = from /\ pc' = [pc EXCEPT ![p] = to]
Fault == faults < MaxFaults /\ faults' = faults + 1
Lock(p, mode) == lock' = [lock EXCEPT ![p] = mode]
Draft(p, r) == draft' = [draft EXCEPT ![p] = r]

Exists(r) == r.revision > 0

\* The end of a command, whatever it had read or generated is forgotten.
End(p) ==
  /\ pc' = [pc EXCEPT ![p] = "idle"]
  /\ about' = [about EXCEPT ![p] = Nothing]
  /\ ticket' = [ticket EXCEPT ![p] = Nothing]
  /\ Draft(p, NoRecord)
  /\ Lock(p, "none")

\* A fresh UUID: nobody has generated it before.
Fresh == {i \in Ids : record.materials[i] = Nothing /\ \A p \in Procs : ticket[p] # i}

\* advance_revision refuses the revision after the last.
CanAdvance == record.revision < MaxRevision
Advanced == [record EXCEPT !.revision = @ + 1]
Saved(nodes) == [Advanced EXCEPT !.nodes = @ \cup nodes]
Extended(i, m) == [Advanced EXCEPT !.materials[i] = m]

\* find_knowledge.
Snapshots(k) == {i \in Ids : record.materials[i] = k}

-----------------------------------------------------------------------------
(* The lock, and the ways a command stops. *)

SharedLock(p) ==
  /\ \/ Step(p, "showLock", "showRead")
     \/ Step(p, "queryLock", "queryRead")
  /\ \A q \in Procs \ {p} : lock[q] # "exclusive"
  /\ Lock(p, "shared")
  /\ UNCHANGED <<directory, record, about, ticket, draft, known, published, history, faults>>

\* Mutation of ExclusiveLock: writers only keep other writers out while they
\* hold the lock they found free.
ExclusiveLockShared(p) ==
  /\ \/ Step(p, "saveLock", "saveDecide")
     \/ Step(p, "appendLock", "appendDecide")
     \/ Step(p, "adoptLock", "adoptDecide")
     \/ Step(p, "updateLock", "updateDecide")
  /\ \A q \in Procs \ {p} : lock[q] # "exclusive"
  /\ Lock(p, "shared")
  /\ UNCHANGED <<directory, record, about, ticket, draft, known, published, history, faults>>

ExclusiveLock(p) ==
  /\ \/ Step(p, "saveLock", "saveDecide")
     \/ Step(p, "appendLock", "appendDecide")
     \/ Step(p, "adoptLock", "adoptDecide")
     \/ Step(p, "updateLock", "updateDecide")
  /\ \A q \in Procs \ {p} : lock[q] = "none"
  /\ Lock(p, "exclusive")
  /\ UNCHANGED <<directory, record, about, ticket, draft, known, published, history, faults>>

\* A command is refused: a conflict, an ambiguous or invalid selection, a Run
\* that is not published, no revision left, a query or a source that fails.
Refuse(p) ==
  /\ pc[p] \in DecidePC \cup {"queryRun", "unlaid"}
  /\ End(p)
  /\ UNCHANGED <<directory, record, known, published, history, faults>>

\* The process is killed, or it cannot write the replacement.
Stop(p) ==
  /\ pc[p] # "idle"
  /\ End(p)
  /\ Fault
  /\ UNCHANGED <<directory, record, known, published, history>>

-----------------------------------------------------------------------------
(* kat analysis show *)

ShowBegin(p) ==
  /\ Step(p, "idle", "showLock")
  /\ Exists(record)
  /\ UNCHANGED <<directory, record, lock, about, ticket, draft, known, published, history, faults>>

\* The record is read under the lock, the Runs are enumerated after it.
ShowRead(p) ==
  /\ Step(p, "showRead", "showRuns")
  /\ Draft(p, record)
  /\ Lock(p, "none")
  /\ UNCHANGED <<directory, record, about, ticket, known, published, history, faults>>

\* report_tree refuses a record with a node that is not a published Run.
ShowRuns(p) ==
  /\ pc[p] = "showRuns"
  /\ IF draft[p].nodes \subseteq published
     THEN End(p) /\ known' = [known EXCEPT ![p] = draft[p]]
     ELSE /\ pc' = [pc EXCEPT ![p] = "unlaid"]
          /\ UNCHANGED <<lock, about, ticket, draft, known>>
  /\ UNCHANGED <<directory, record, published, history, faults>>

-----------------------------------------------------------------------------
(* kat analysis save, with the revision its user was shown. *)

SaveBegin(p) ==
  /\ Step(p, "idle", "saveLock")
  /\ \/ known[p].revision = 0 /\ directory' = TRUE
     \/ known[p].revision > 0 /\ Exists(record) /\ UNCHANGED directory
  /\ UNCHANGED <<record, lock, about, ticket, draft, known, published, history, faults>>

\* Mutation of SaveDecide: the Runs of the nodes are not looked up.
SaveDecideUnpublished(p) ==
  /\ Step(p, "saveDecide", "saveCommit")
  /\ record.revision = known[p].revision
  /\ CanAdvance
  /\ \E nodes \in SUBSET Runs : Draft(p, Saved(nodes))
  /\ UNCHANGED <<directory, record, lock, about, ticket, known, published, history, faults>>

\* Mutation of SaveDecide: a later revision will do.
SaveDecideLater(p) ==
  /\ Step(p, "saveDecide", "saveCommit")
  /\ record.revision >= known[p].revision
  /\ CanAdvance
  /\ \E nodes \in SUBSET published : Draft(p, Saved(nodes))
  /\ UNCHANGED <<directory, record, lock, about, ticket, known, published, history, faults>>

\* The whole batch is applied to the record, or none of it.
SaveDecide(p) ==
  /\ Step(p, "saveDecide", "saveCommit")
  /\ record.revision = known[p].revision
  /\ CanAdvance
  /\ \E nodes \in SUBSET published : Draft(p, Saved(nodes))
  /\ UNCHANGED <<directory, record, lock, about, ticket, known, published, history, faults>>

\* The answer of a save is the record it has put in place.
SaveReport(p) ==
  /\ pc[p] = "saveReport"
  /\ known' = [known EXCEPT ![p] = draft[p]]
  /\ End(p)
  /\ UNCHANGED <<directory, record, published, history, faults>>

-----------------------------------------------------------------------------
(* kat query --archive: the record is looked at before the query is executed *)
(* and read again when its result is appended, at whatever revision it has.  *)

QueryBegin(p) ==
  /\ Step(p, "idle", "queryLock")
  /\ Exists(record)
  /\ \E r \in Runs : about' = [about EXCEPT ![p] = r]
  /\ UNCHANGED <<directory, record, lock, ticket, draft, known, published, history, faults>>

QueryRead(p) ==
  /\ Step(p, "queryRead", "queryRun")
  /\ Lock(p, "none")
  /\ UNCHANGED <<directory, record, about, ticket, draft, known, published, history, faults>>

QueryRun(p) ==
  /\ Step(p, "queryRun", "appendLock")
  /\ about[p] \in published
  /\ UNCHANGED <<directory, record, lock, about, ticket, draft, known, published, history, faults>>

AppendDecide(p) ==
  /\ Step(p, "appendDecide", "appendCommit")
  /\ CanAdvance
  /\ \E i \in Fresh :
       /\ ticket' = [ticket EXCEPT ![p] = i]
       /\ Draft(p, Extended(i, about[p]))
  /\ UNCHANGED <<directory, record, lock, about, known, published, history, faults>>

-----------------------------------------------------------------------------
(* kat knowledge read, with or without --update. *)

AdoptBegin(p) ==
  /\ \/ Step(p, "idle", "adoptLock")
     \/ Step(p, "idle", "updateLock")
  /\ Exists(record)
  /\ \E k \in Topics : about' = [about EXCEPT ![p] = k]
  /\ UNCHANGED <<directory, record, lock, ticket, draft, known, published, history, faults>>

\* Mutation of AdoptDecide: the snapshots that are there are not looked up.
AdoptDecideAnew(p) ==
  /\ Step(p, "adoptDecide", "adoptCommit")
  /\ CanAdvance
  /\ \E i \in Fresh :
       /\ ticket' = [ticket EXCEPT ![p] = i]
       /\ Draft(p, Extended(i, about[p]))
  /\ UNCHANGED <<directory, record, lock, about, known, published, history, faults>>

\* The only snapshot of a topic is returned as it is; of several none is chosen.
AdoptDecide(p) ==
  \/ /\ Step(p, "adoptDecide", "adoptCommit")
     /\ Snapshots(about[p]) = {}
     /\ CanAdvance
     /\ \E i \in Fresh :
          /\ ticket' = [ticket EXCEPT ![p] = i]
          /\ Draft(p, Extended(i, about[p]))
     /\ UNCHANGED <<directory, record, lock, about, known, published, history, faults>>
  \/ /\ Step(p, "adoptDecide", "receipt")
     /\ \E i \in Ids :
          /\ Snapshots(about[p]) = {i}
          /\ ticket' = [ticket EXCEPT ![p] = i]
     /\ Draft(p, record)
     /\ Lock(p, "none")
     /\ UNCHANGED <<directory, record, about, known, published, history, faults>>

\* An update names the revision its user was shown, as a save does.
UpdateDecide(p) ==
  /\ Step(p, "updateDecide", "updateCommit")
  /\ record.revision = known[p].revision
  /\ CanAdvance
  /\ \E i \in Fresh :
       /\ ticket' = [ticket EXCEPT ![p] = i]
       /\ Draft(p, Extended(i, about[p]))
  /\ UNCHANGED <<directory, record, lock, about, known, published, history, faults>>

-----------------------------------------------------------------------------
(* The atomic replacement of record.json, and the answer to the user. *)

Commit(p) ==
  /\ \/ Step(p, "saveCommit", "saveReport") /\ UNCHANGED updates
     \/ Step(p, "appendCommit", "receipt") /\ UNCHANGED updates
     \/ Step(p, "adoptCommit", "receipt") /\ UNCHANGED updates
     \/ Step(p, "updateCommit", "receipt") /\ updates' = [updates EXCEPT ![about[p]] = @ + 1]
  /\ record' = draft[p]
  /\ Lock(p, "none")
  /\ UNCHANGED <<directory, about, ticket, draft, known, published, receipts, faults>>

\* The receipt is delivered; what fails after the replacement (removing an
\* inline result, the Operation log, the Response) loses the receipt only.
Receipt(p) ==
  /\ pc[p] = "receipt"
  /\ receipts' \in {receipts, receipts \cup {[id |-> ticket[p], about |-> about[p], revision |-> draft[p].revision]}}
  /\ End(p)
  /\ UNCHANGED <<directory, record, known, published, updates, faults>>

\* A Run of the Session is published.
PublishRun ==
  /\ \E r \in Runs \ published : published' = published \cup {r}
  /\ UNCHANGED <<directory, record, lock, local, known, history, faults>>

Act(p) ==
  \/ SharedLock(p) \/ ExclusiveLock(p) \/ Refuse(p) \/ Stop(p)
  \/ ShowBegin(p) \/ ShowRead(p) \/ ShowRuns(p)
  \/ SaveBegin(p) \/ SaveDecide(p) \/ SaveReport(p)
  \/ QueryBegin(p) \/ QueryRead(p) \/ QueryRun(p) \/ AppendDecide(p)
  \/ AdoptBegin(p) \/ AdoptDecide(p) \/ UpdateDecide(p)
  \/ Commit(p) \/ Receipt(p)

Next == PublishRun \/ \E p \in Procs : Act(p)

Spec == Init /\ [][Next]_vars

-----------------------------------------------------------------------------
(* Properties. *)

\* No write is lost: each replacement is the next revision, takes no node away
\* and leaves every piece of evidence as it was.  Between two revisions
\* anything may happen; a replacement made from an older copy would undo it.
NoLostUpdate ==
  [][record' # record =>
       /\ record'.revision = record.revision + 1
       /\ record.nodes \subseteq record'.nodes
       /\ \A i \in Ids : record.materials[i] # Nothing => record'.materials[i] = record.materials[i]]_vars

\* A save, and an update of knowledge, replaces exactly the record its author
\* was shown: whatever was written in between turns it away.
AuthorSawWhatIsReplaced ==
  [][record' # record =>
       \E p \in Procs :
         \/ pc[p] \in {"saveCommit", "updateCommit"} /\ record = known[p]
         \/ pc[p] \in {"appendCommit", "adoptCommit"} /\ record'.nodes = record.nodes]_vars

\* A receipt holds for ever: the material it names is what it says it is, and
\* no revision adds two materials.
ReceiptsHold ==
  /\ \A t \in receipts : record.materials[t.id] = t.about /\ t.revision <= record.revision
  /\ Cardinality({i \in Ids : record.materials[i] # Nothing}) + 1 <= record.revision \/ ~Exists(record)

\* A report that was saved can always be shown, whatever is published or saved
\* while it is read: every node stays a published Run.
SavedReportIsShown ==
  /\ record.nodes \subseteq published
  /\ \A p \in Procs : pc[p] # "unlaid"

\* What the archive has acknowledged or shown stays true.
ArchiveIsReliable == ReceiptsHold /\ SavedReportIsShown

\* A topic gets a second snapshot only by an update its user asked for, also
\* when several processes adopt it for the first time together.
SnapshotsAreDeliberate == \A k \in Topics : Cardinality(Snapshots(k)) <= 1 + updates[k]
=============================================================================
