----------------------- MODULE AnalysisArchiveProofs -----------------------
(***************************************************************************)
(* Theorems about AnalysisArchive, for any number of commands, Runs,       *)
(* topics and revisions.  The argument: writers are alone (LockInv); what  *)
(* has been read is in the past of the record (CopyInv), so an author who  *)
(* names its revision has seen the record itself; a decided replacement is *)
(* made from the record as it is (CommitInv) and keeps what there is.      *)
(***************************************************************************)
EXTENDS AnalysisArchive, FiniteSetTheorems, TLAPS

\* Who decides or replaces has the lock to himself.
Alone == DecidePC \cup CommitPC
LockInv ==
  /\ \A p \in Procs : lock[p] = "exclusive" <=> pc[p] \in Alone
  /\ \A p, q \in Procs : p # q /\ lock[p] = "exclusive" => lock[q] = "none"

\* r is the record, or was it at an earlier revision.
Past(r) ==
  /\ r.revision <= record.revision
  /\ r.revision = record.revision => r = record
  /\ r.nodes \subseteq record.nodes
  /\ \A i \in Ids : r.materials[i] # Nothing => record.materials[i] = r.materials[i]
CopyInv ==
  \A p \in Procs :
    /\ Past(known[p])
    /\ pc[p] \in {"showRuns", "saveReport", "receipt"} => Past(draft[p])

\* What a command is about, and that it found a record.
AppendPC == {"queryLock", "queryRead", "queryRun", "appendLock", "appendDecide", "appendCommit"}
AdoptPC == {"adoptLock", "adoptDecide", "adoptCommit"}
UpdatePC == {"updateLock", "updateDecide", "updateCommit"}
AboutInv ==
  \A p \in Procs :
    /\ pc[p] \in AppendPC => about[p] \in Runs
    /\ pc[p] \in AdoptPC \cup UpdatePC => about[p] \in Topics
    /\ pc[p] \in AppendPC \cup AdoptPC \cup UpdatePC \cup {"receipt", "saveReport"} => Exists(record)
    /\ pc[p] # "unlaid"

\* The record d that is about to replace r: made from r as it is, by a save or
\* with the material t about m, where k is what its author was shown.
Decided(d, r, runs, step, k, t, m) ==
  /\ d.revision = r.revision + 1
  /\ r.nodes \subseteq d.nodes /\ d.nodes \subseteq runs
  /\ step \in {"saveCommit", "updateCommit"} => k = r
  /\ step = "saveCommit" => d.materials = r.materials
  /\ step # "saveCommit" =>
       /\ t \in Ids /\ r.materials[t] = Nothing
       /\ d.nodes = r.nodes
       /\ d.materials = [r.materials EXCEPT ![t] = m]
  /\ step = "adoptCommit" => \A i \in Ids : r.materials[i] # m
CommitInv ==
  \A p \in Procs :
    pc[p] \in CommitPC => Decided(draft[p], record, published, pc[p], known[p], ticket[p], about[p])

\* What is acknowledged, and what is about to be, is in the record.
ReceiptInv ==
  /\ \A p \in Procs : pc[p] = "receipt" =>
       /\ ticket[p] \in Ids /\ about[p] \in Runs \cup Topics
       /\ draft[p].materials[ticket[p]] = about[p] /\ draft[p].revision > 0
  /\ \A t \in receipts : record.materials[t.id] = t.about /\ t.revision <= record.revision

\* Revision 0 is the absence of the record.
RecordInv ==
  /\ record.revision = 0 => record = NoRecord
  /\ record.nodes \subseteq published

\* The materials, each of which took a replacement of its own.
Taken == {i \in Ids : record.materials[i] # Nothing}
CountInv ==
  /\ Exists(record) => Cardinality(Taken) + 1 <= record.revision
  /\ SnapshotsAreDeliberate

\* The inductive invariant.
IInv ==
  TypeOK /\ LockInv /\ CopyInv /\ AboutInv /\ CommitInv /\ ReceiptInv /\ RecordInv /\ CountInv

(* The first state. *)
LEMMA InitIInv == Init => IInv
<1> SUFFICES ASSUME Init PROVE IInv
  OBVIOUS
<1> USE NothingAssumption, BoundsAssumption DEF Init
<1>1. NoRecord \in Record
  BY DEF Record, NoRecord
<1>2. TypeOK
  <2>1. directory \in BOOLEAN
    OBVIOUS
  <2>2. updates \in [Topics -> Nat] /\ faults \in 0..MaxFaults
    OBVIOUS
  <2> QED
    BY <1>1, <2>1, <2>2 DEF TypeOK, PC
<1> USE DEF NoRecord
<1>3. LockInv /\ CopyInv /\ AboutInv /\ CommitInv /\ ReceiptInv /\ RecordInv
  BY DEF LockInv, CopyInv, AboutInv, CommitInv, ReceiptInv, RecordInv, Past, Alone, DecidePC, CommitPC,
         AppendPC, AdoptPC, UpdatePC
<1>4. CountInv
  <2>1. \A k \in Topics : Snapshots(k) = {}
    BY DEF Snapshots
  <2>2. Cardinality({}) = 0
    BY FS_EmptySet
  <2>3. ~Exists(record)
    BY DEF Exists
  <2>4. ASSUME NEW k \in Topics PROVE Cardinality(Snapshots(k)) <= 1 + updates[k]
    <3>1. Cardinality(Snapshots(k)) = 0 /\ updates[k] = 0
      BY <2>1, <2>2
    <3> QED
      BY <3>1
  <2> QED
    BY <2>3, <2>4 DEF CountInv, SnapshotsAreDeliberate
<1> QED
  BY <1>2, <1>3, <1>4 DEF IInv

(* The record one revision on, written out. *)
LEMMA AdvancedRecord ==
  ASSUME TypeOK
  PROVE Advanced = [revision |-> record.revision + 1, nodes |-> record.nodes,
                    materials |-> record.materials]
<1>1. record = [revision |-> record.revision, nodes |-> record.nodes, materials |-> record.materials]
  BY DEF TypeOK, Record
<1> QED
  BY <1>1 DEF Advanced

(* The record with a save, written out. *)
LEMMA SavedRecord ==
  ASSUME TypeOK, NEW nodes
  PROVE Saved(nodes) = [revision |-> record.revision + 1, nodes |-> record.nodes \cup nodes,
                        materials |-> record.materials]
BY AdvancedRecord DEF Saved

(* The record with one more material, written out. *)
LEMMA ExtendedRecord ==
  ASSUME TypeOK, NEW i, NEW m
  PROVE Extended(i, m) = [revision |-> record.revision + 1, nodes |-> record.nodes,
                          materials |-> [record.materials EXCEPT ![i] = m]]
BY AdvancedRecord DEF Extended

(* A save makes a record of a record. *)
LEMMA SavedType ==
  ASSUME TypeOK, CanAdvance, NEW nodes \in SUBSET Runs
  PROVE Saved(nodes) \in Record
<1> DEFINE n == record.revision + 1
<1>1. /\ record.revision \in 0..MaxRevision
      /\ record.nodes \in SUBSET Runs
      /\ record.materials \in [Ids -> Runs \cup Topics \cup {Nothing}]
  BY DEF TypeOK, Record
<1>2. n \in 0..MaxRevision
  BY <1>1, BoundsAssumption DEF CanAdvance
<1>3. record.nodes \cup nodes \in SUBSET Runs
  BY <1>1
<1> QED
  BY <1>1, <1>2, <1>3, SavedRecord DEF Record

(* So does a further material. *)
LEMMA ExtendedType ==
  ASSUME TypeOK, CanAdvance, NEW i \in Ids, NEW m \in Runs \cup Topics
  PROVE Extended(i, m) \in Record
<1> DEFINE n == record.revision + 1
<1>1. /\ record.revision \in 0..MaxRevision
      /\ record.nodes \in SUBSET Runs
      /\ record.materials \in [Ids -> Runs \cup Topics \cup {Nothing}]
  BY DEF TypeOK, Record
<1>2. n \in 0..MaxRevision
  BY <1>1, BoundsAssumption DEF CanAdvance
<1>3. [record.materials EXCEPT ![i] = m] \in [Ids -> Runs \cup Topics \cup {Nothing}]
  BY <1>1
<1> QED
  BY <1>1, <1>2, <1>3, ExtendedRecord DEF Record

(* Type correctness takes what the commands are about and what they have drafted. *)
LEMMA TypeStep == TypeOK /\ AboutInv /\ CommitInv /\ ReceiptInv /\ [Next]_vars => TypeOK'
<1> SUFFICES ASSUME TypeOK, AboutInv, CommitInv, ReceiptInv, [Next]_vars PROVE TypeOK'
  OBVIOUS
<1> USE NothingAssumption, BoundsAssumption DEF TypeOK
<1>0. NoRecord \in Record
  BY DEF NoRecord, Record
<1>1. ASSUME UNCHANGED vars PROVE TypeOK'
  BY <1>1 DEF vars, local, history
<1>2. ASSUME PublishRun PROVE TypeOK'
  BY <1>2 DEF PublishRun, local, history
<1>3. ASSUME NEW p \in Procs, Act(p) PROVE TypeOK'
  <2>1. ASSUME CanAdvance, NEW nodes \in SUBSET Runs
        PROVE Saved(nodes) \in Record
    BY <2>1, SavedType
  <2>2. ASSUME CanAdvance, NEW i \in Ids, NEW m \in Runs \cup Topics PROVE Extended(i, m) \in Record
    BY <2>2, ExtendedType
  <2> USE DEF PC, ReadPC, DecidePC, WaitPC, CommitPC, ReportPC
  <2> USE DEF Step, Lock, Draft, history
  <2>3. ASSUME End(p) PROVE /\ pc' \in [Procs -> PC] /\ lock' \in [Procs -> {"none", "shared", "exclusive"}]
                            /\ about' \in [Procs -> Runs \cup Topics \cup {Nothing}]
                            /\ ticket' \in [Procs -> Ids \cup {Nothing}]
                            /\ draft' \in [Procs -> Record]
    BY <2>3, <1>0 DEF End
  <2>4. CASE SharedLock(p)
    BY <2>4 DEF SharedLock
  <2>5. CASE ExclusiveLock(p)
    BY <2>5 DEF ExclusiveLock
  <2>6. CASE Refuse(p)
    BY <2>6, <2>3 DEF Refuse
  <2>7. CASE Stop(p)
    BY <2>7, <2>3 DEF Stop, Fault
  <2>8. CASE ShowBegin(p)
    BY <2>8 DEF ShowBegin
  <2>9. CASE ShowRead(p)
    BY <2>9 DEF ShowRead
  <2>10. CASE ShowRuns(p)
    BY <2>10, <2>3 DEF ShowRuns
  <2>11. CASE SaveBegin(p)
    BY <2>11 DEF SaveBegin
  <2>12. CASE SaveDecide(p)
    BY <2>12, <2>1 DEF SaveDecide
  <2>13. CASE SaveReport(p)
    BY <2>13, <2>3 DEF SaveReport
  <2>14. CASE QueryBegin(p) \/ QueryRead(p) \/ QueryRun(p)
    BY <2>14 DEF QueryBegin, QueryRead, QueryRun
  <2>15. CASE AppendDecide(p)
    BY <2>15, <2>2 DEF AppendDecide, AboutInv, AppendPC, Fresh
  <2>16. CASE AdoptBegin(p)
    BY <2>16 DEF AdoptBegin
  <2>17. CASE AdoptDecide(p)
    BY <2>17, <2>2 DEF AdoptDecide, AboutInv, AdoptPC, Fresh
  <2>18. CASE UpdateDecide(p)
    BY <2>18, <2>2 DEF UpdateDecide, AboutInv, UpdatePC, Fresh
  <2>19. CASE Commit(p)
    BY <2>19 DEF Commit, AboutInv, UpdatePC
  <2>20. CASE Receipt(p)
    <3>1. pc[p] = "receipt" /\ draft[p] \in Record
      BY <2>20 DEF Receipt
    <3>2. draft[p].revision \in 1..MaxRevision
      BY <3>1 DEF ReceiptInv, Record
    <3>3. [id |-> ticket[p], about |-> about[p], revision |-> draft[p].revision]
            \in [id : Ids, about : Runs \cup Topics, revision : 1..MaxRevision]
      BY <3>1, <3>2 DEF ReceiptInv
    <3> QED
      BY <2>20, <2>3, <3>3 DEF Receipt
  <2> QED
    BY <1>3, <2>4, <2>5, <2>6, <2>7, <2>8, <2>9, <2>10, <2>11, <2>12, <2>13, <2>14, <2>15, <2>16,
       <2>17, <2>18, <2>19, <2>20 DEF Act
<1> QED
  BY <1>1, <1>2, <1>3 DEF Next

(* Whose turn it is at the lock. *)
LEMMA LockStep == TypeOK /\ LockInv /\ [Next]_vars => LockInv'
<1> SUFFICES ASSUME TypeOK, LockInv, [Next]_vars PROVE LockInv'
  OBVIOUS
<1>0. pc \in [Procs -> PC] /\ lock \in [Procs -> {"none", "shared", "exclusive"}]
  BY DEF TypeOK
<1> USE <1>0 DEF LockInv, Alone, DecidePC, CommitPC
<1>1. ASSUME UNCHANGED vars PROVE LockInv'
  BY <1>1 DEF vars, local
<1>2. ASSUME PublishRun PROVE LockInv'
  BY <1>2 DEF PublishRun, local
<1>3. ASSUME NEW p \in Procs, Act(p) PROVE LockInv'
  <2> USE DEF Step, Lock
  <2>1. CASE SharedLock(p)
    BY <2>1 DEF SharedLock
  <2>2. CASE ExclusiveLock(p)
    BY <2>2 DEF ExclusiveLock
  <2>3. CASE End(p)
    BY <2>3 DEF End
  <2>4. CASE Refuse(p) \/ Stop(p) \/ SaveReport(p) \/ Receipt(p)
    BY <2>3, <2>4 DEF Refuse, Stop, SaveReport, Receipt
  <2>5. CASE ShowBegin(p) \/ ShowRead(p) \/ SaveBegin(p) \/ QueryBegin(p) \/ QueryRead(p) \/ QueryRun(p)
    BY <2>5 DEF ShowBegin, ShowRead, SaveBegin, QueryBegin, QueryRead, QueryRun
  <2>6. CASE ShowRuns(p)
    BY <2>3, <2>6 DEF ShowRuns
  <2>7. CASE SaveDecide(p) \/ AppendDecide(p) \/ AdoptBegin(p) \/ UpdateDecide(p)
    BY <2>7 DEF SaveDecide, AppendDecide, AdoptBegin, UpdateDecide
  <2>8. CASE AdoptDecide(p)
    BY <2>8 DEF AdoptDecide
  <2>9. CASE Commit(p)
    BY <2>9 DEF Commit
  <2> QED
    BY <1>3, <2>1, <2>2, <2>4, <2>5, <2>6, <2>7, <2>8, <2>9 DEF Act
<1> QED
  BY <1>1, <1>2, <1>3 DEF Next


(* A replacement is the next revision and keeps what there is. *)
LEMMA Replacement ==
  ASSUME IInv, NEW p \in Procs, Commit(p)
  PROVE /\ pc[p] \in CommitPC
        /\ record' = draft[p] /\ record' \in Record
        /\ record'.revision = record.revision + 1
        /\ record.nodes \subseteq record'.nodes /\ record'.nodes \subseteq published
        /\ \A i \in Ids : record.materials[i] # Nothing => record'.materials[i] = record.materials[i]
<1>1. pc[p] \in CommitPC /\ record' = draft[p]
  BY DEF Commit, Step, CommitPC
<1>2. draft[p] \in Record /\ record \in Record
  BY DEF IInv, TypeOK
<1>3. /\ record'.revision = record.revision + 1
      /\ record.nodes \subseteq record'.nodes /\ record'.nodes \subseteq published
  BY <1>1 DEF IInv, CommitInv, Decided
<1>4. ASSUME NEW i \in Ids, record.materials[i] # Nothing
      PROVE  draft[p].materials[i] = record.materials[i]
  <2>1. CASE pc[p] = "saveCommit"
    BY <1>1, <2>1 DEF IInv, CommitInv, Decided
  <2>2. CASE pc[p] \in CommitPC \ {"saveCommit"}
    <3>1. /\ record.materials[ticket[p]] = Nothing
          /\ draft[p].materials = [record.materials EXCEPT ![ticket[p]] = about[p]]
      BY <2>2 DEF IInv, CommitInv, Decided
    <3>2. record.materials \in [Ids -> Runs \cup Topics \cup {Nothing}]
      BY <1>2 DEF Record
    <3> QED
      BY <1>4, <3>1, <3>2
  <2> QED
    BY <1>1, <2>1, <2>2
<1> QED
  BY <1>1, <1>2, <1>3, <1>4

(* Every other step leaves the record alone. *)
LEMMA NoReplacement ==
  ASSUME NEW p \in Procs, Act(p), ~Commit(p)
  PROVE record' = record /\ published' = published /\ updates' = updates
<1> USE DEF history
<1>1. CASE SharedLock(p) \/ ExclusiveLock(p) \/ Refuse(p) \/ Stop(p)
  BY <1>1 DEF SharedLock, ExclusiveLock, Refuse, Stop
<1>2. CASE ShowBegin(p) \/ ShowRead(p) \/ ShowRuns(p) \/ SaveBegin(p) \/ SaveDecide(p) \/ SaveReport(p)
  BY <1>2 DEF ShowBegin, ShowRead, ShowRuns, SaveBegin, SaveDecide, SaveReport
<1>3. CASE QueryBegin(p) \/ QueryRead(p) \/ QueryRun(p) \/ AppendDecide(p)
  BY <1>3 DEF QueryBegin, QueryRead, QueryRun, AppendDecide
<1>4. CASE AdoptBegin(p) \/ AdoptDecide(p) \/ UpdateDecide(p) \/ Receipt(p)
  BY <1>4 DEF AdoptBegin, AdoptDecide, UpdateDecide, Receipt
<1> QED
  BY <1>1, <1>2, <1>3, <1>4 DEF Act

(* What has been read stays in the past of the record. *)
LEMMA PastStep ==
  ASSUME IInv, [Next]_vars, NEW r \in Record, Past(r)
  PROVE  /\ r.revision <= record'.revision
         /\ r.revision = record'.revision => r = record'
         /\ r.nodes \subseteq record'.nodes
         /\ \A i \in Ids : r.materials[i] # Nothing => record'.materials[i] = r.materials[i]
<1>1. CASE record' = record
  BY <1>1 DEF Past
<1>2. CASE \E p \in Procs : Commit(p)
  <2>1. PICK p \in Procs : Commit(p)
    BY <1>2
  <2>2. /\ record'.revision = record.revision + 1
        /\ record.nodes \subseteq record'.nodes
        /\ \A i \in Ids : record.materials[i] # Nothing => record'.materials[i] = record.materials[i]
    BY <2>1, Replacement
  <2>3. r.revision \in Nat /\ record.revision \in Nat
    BY BoundsAssumption DEF IInv, TypeOK, Record
  <2> QED
    BY <2>2, <2>3 DEF Past
<1>3. CASE \A p \in Procs : ~Commit(p)
  <2>1. CASE UNCHANGED vars
    BY <1>1, <2>1 DEF vars
  <2>2. CASE PublishRun
    BY <1>1, <2>2 DEF PublishRun
  <2>3. CASE \E p \in Procs : Act(p)
    BY <1>1, <1>3, <2>3, NoReplacement
  <2> QED
    BY <2>1, <2>2, <2>3 DEF Next
<1> QED
  BY <1>2, <1>3

(* What a process or its user has read is, or was, the record. *)
LEMMA CopyStep == IInv /\ [Next]_vars => CopyInv'
<1> SUFFICES ASSUME IInv, [Next]_vars PROVE CopyInv'
  OBVIOUS
<1>0. /\ pc \in [Procs -> PC] /\ draft \in [Procs -> Record] /\ known \in [Procs -> Record]
      /\ record \in Record /\ CopyInv
  BY DEF IInv, TypeOK
<1> DEFINE PastNext(r) == /\ r.revision <= record'.revision
                          /\ r.revision = record'.revision => r = record'
                          /\ r.nodes \subseteq record'.nodes
                          /\ \A i \in Ids : r.materials[i] # Nothing => record'.materials[i] = r.materials[i]
<1>a. \A r \in Record : Past(r) => PastNext(r)
  BY PastStep
<1>b. Past(record)
  <2>1. record.revision \in Nat
    BY <1>0, BoundsAssumption DEF Record
  <2> QED
    BY <2>1 DEF Past
<1> SUFFICES ASSUME NEW q \in Procs
             PROVE  /\ PastNext(known'[q])
                    /\ pc'[q] \in {"showRuns", "saveReport", "receipt"} => PastNext(draft'[q])
  BY DEF CopyInv, Past
<1> HIDE DEF PastNext
<1>c. /\ PastNext(known[q])
      /\ pc[q] \in {"showRuns", "saveReport", "receipt"} => PastNext(draft[q])
      /\ PastNext(record)
  BY <1>0, <1>a, <1>b DEF CopyInv
<1>1. CASE UNCHANGED vars
  BY <1>1, <1>c DEF vars, local
<1>2. CASE PublishRun
  BY <1>2, <1>c DEF PublishRun, local
<1>3. ASSUME NEW p \in Procs, Act(p)
      PROVE /\ PastNext(known'[q])
            /\ pc'[q] \in {"showRuns", "saveReport", "receipt"} => PastNext(draft'[q])
  <2> USE <1>0, <1>c DEF Step, Lock, Draft
  <2>1. CASE SharedLock(p) \/ ExclusiveLock(p)
    BY <2>1 DEF SharedLock, ExclusiveLock
  <2>2. ASSUME End(p)
        PROVE pc'[q] \in {"showRuns", "saveReport", "receipt"} => PastNext(draft'[q])
    BY <2>2 DEF End
  <2>3. CASE Refuse(p) \/ Stop(p) \/ SaveReport(p) \/ Receipt(p)
    BY <2>2, <2>3 DEF Refuse, Stop, SaveReport, Receipt
  <2>4. CASE ShowBegin(p) \/ ShowRead(p) \/ SaveBegin(p) \/ QueryBegin(p) \/ QueryRead(p) \/ QueryRun(p)
    BY <2>4 DEF ShowBegin, ShowRead, SaveBegin, QueryBegin, QueryRead, QueryRun
  <2>5. CASE ShowRuns(p)
    BY <2>2, <2>5 DEF ShowRuns
  <2>6. CASE SaveDecide(p) \/ AppendDecide(p) \/ AdoptBegin(p) \/ UpdateDecide(p)
    BY <2>6 DEF SaveDecide, AppendDecide, AdoptBegin, UpdateDecide
  <2>7. CASE AdoptDecide(p)
    BY <2>7 DEF AdoptDecide
  <2>8. CASE Commit(p)
    <3>1. PastNext(record')
      <4>1. record' \in Record
        BY <2>8, Replacement
      <4>2. record'.revision \in Nat
        BY <4>1, BoundsAssumption DEF Record
      <4> QED
        BY <4>2 DEF PastNext
    <3>2. record' = draft[p]
      BY <2>8 DEF Commit
    <3> QED
      BY <2>8, <3>1, <3>2 DEF Commit
  <2> QED
    BY <1>3, <2>1, <2>3, <2>4, <2>5, <2>6, <2>7, <2>8 DEF Act
<1> QED
  BY <1>1, <1>2, <1>3 DEF Next


(* The record is born empty, and what it reports on is published. *)
LEMMA RecordStep == IInv /\ [Next]_vars => RecordInv'
<1> SUFFICES ASSUME IInv, [Next]_vars PROVE RecordInv'
  OBVIOUS
<1>0. RecordInv /\ record.revision \in Nat
  BY BoundsAssumption DEF IInv, TypeOK, Record
<1>1. CASE UNCHANGED vars
  BY <1>0, <1>1 DEF vars, RecordInv
<1>2. CASE PublishRun
  BY <1>0, <1>2 DEF PublishRun, RecordInv
<1>3. ASSUME NEW p \in Procs, Act(p) PROVE RecordInv'
  <2>1. CASE Commit(p)
    <3>1. record'.revision = record.revision + 1 /\ record'.nodes \subseteq published
      BY <2>1, Replacement
    <3>2. published' = published
      BY <2>1 DEF Commit
    <3> QED
      BY <1>0, <3>1, <3>2 DEF RecordInv
  <2>2. CASE ~Commit(p)
    BY <1>0, <1>3, <2>2, NoReplacement DEF RecordInv
  <2> QED
    BY <2>1, <2>2
<1> QED
  BY <1>1, <1>2, <1>3 DEF Next

(* What a command is about, and that nothing but a save comes before the record. *)
LEMMA AboutStep == IInv /\ [Next]_vars => AboutInv'
<1> SUFFICES ASSUME IInv, [Next]_vars PROVE AboutInv'
  OBVIOUS
<1>0. /\ pc \in [Procs -> PC] /\ about \in [Procs -> Runs \cup Topics \cup {Nothing}]
      /\ AboutInv
  BY DEF IInv, TypeOK
<1>a. Exists(record) => Exists(record')
  <2>1. record.revision \in Nat
    BY BoundsAssumption DEF IInv, TypeOK, Record
  <2>2. Past(record)
    BY <2>1 DEF Past
  <2>3. record \in Record /\ record' \in Record
    BY TypeStep DEF IInv, TypeOK
  <2>4. record.revision <= record'.revision
    BY <2>2, <2>3, PastStep
  <2>5. record'.revision \in Nat
    BY <2>3, BoundsAssumption DEF Record
  <2> QED
    BY <2>1, <2>4, <2>5 DEF Exists
<1> DEFINE Rec == Exists(record)
           RecN == Exists(record')
<1> HIDE DEF Rec, RecN
<1> SUFFICES ASSUME NEW q \in Procs
             PROVE  /\ pc'[q] \in AppendPC => about'[q] \in Runs
                    /\ pc'[q] \in AdoptPC \cup UpdatePC => about'[q] \in Topics
                    /\ pc'[q] \in AppendPC \cup AdoptPC \cup UpdatePC \cup {"receipt", "saveReport"} => RecN
                    /\ pc'[q] # "unlaid"
  BY DEF AboutInv, RecN
<1>b. Rec => RecN
  BY <1>a DEF Rec, RecN
<1>c. /\ pc[q] \in AppendPC => about[q] \in Runs
      /\ pc[q] \in AdoptPC \cup UpdatePC => about[q] \in Topics
      /\ pc[q] \in AppendPC \cup AdoptPC \cup UpdatePC \cup {"receipt", "saveReport"} => Rec
      /\ pc[q] # "unlaid"
  BY <1>0 DEF AboutInv, Rec
<1> USE DEF AppendPC, AdoptPC, UpdatePC
<1>1. CASE UNCHANGED vars
  BY <1>1, <1>b, <1>c DEF vars, local
<1>2. CASE PublishRun
  BY <1>2, <1>b, <1>c DEF PublishRun, local
<1>3. ASSUME NEW p \in Procs, Act(p)
      PROVE  /\ pc'[q] \in AppendPC => about'[q] \in Runs
             /\ pc'[q] \in AdoptPC \cup UpdatePC => about'[q] \in Topics
             /\ pc'[q] \in AppendPC \cup AdoptPC \cup UpdatePC \cup {"receipt", "saveReport"} => RecN
             /\ pc'[q] # "unlaid"
  <2> USE <1>0, <1>b, <1>c DEF Step
  <2>1. CASE SharedLock(p) \/ ExclusiveLock(p)
    BY <2>1 DEF SharedLock, ExclusiveLock
  <2>2. ASSUME End(p)
        PROVE /\ pc'[q] \in AppendPC => about'[q] \in Runs
              /\ pc'[q] \in AdoptPC \cup UpdatePC => about'[q] \in Topics
              /\ pc'[q] \in AppendPC \cup AdoptPC \cup UpdatePC \cup {"receipt", "saveReport"} => RecN
              /\ pc'[q] # "unlaid"
    BY <2>2 DEF End
  <2>3. CASE Refuse(p) \/ Stop(p) \/ SaveReport(p) \/ Receipt(p)
    BY <2>2, <2>3 DEF Refuse, Stop, SaveReport, Receipt
  <2>4. CASE ShowBegin(p) \/ ShowRead(p) \/ SaveBegin(p) \/ QueryRead(p) \/ QueryRun(p)
    BY <2>4 DEF ShowBegin, ShowRead, SaveBegin, QueryRead, QueryRun
  <2>5. CASE QueryBegin(p) \/ AdoptBegin(p)
    BY <2>5 DEF QueryBegin, AdoptBegin, Rec
  <2>6. CASE ShowRuns(p)
    <3>1. draft[p].nodes \subseteq published
      BY <2>6 DEF ShowRuns, IInv, CopyInv, Past, RecordInv
    <3> QED
      BY <2>2, <2>6, <3>1 DEF ShowRuns
  <2>7. CASE SaveDecide(p) \/ AppendDecide(p) \/ UpdateDecide(p)
    BY <2>7 DEF SaveDecide, AppendDecide, UpdateDecide
  <2>8. CASE AdoptDecide(p)
    BY <2>8 DEF AdoptDecide
  <2>9. CASE Commit(p)
    <3>1. RecN
      <4>1. record'.revision = record.revision + 1
        BY <2>9, Replacement
      <4>2. record.revision \in Nat
        BY BoundsAssumption DEF IInv, TypeOK, Record
      <4> QED
        BY <4>1, <4>2 DEF RecN, Exists
    <3> QED
      BY <2>9, <3>1 DEF Commit
  <2> QED
    BY <1>3, <2>1, <2>3, <2>4, <2>5, <2>6, <2>7, <2>8, <2>9 DEF Act
<1> QED
  BY <1>1, <1>2, <1>3 DEF Next


(* A replacement that is decided is made from the record as it is. *)
LEMMA CommitStep == IInv /\ [Next]_vars => CommitInv'
<1> SUFFICES ASSUME IInv, [Next]_vars, NEW q \in Procs, pc'[q] \in CommitPC
             PROVE  Decided(draft'[q], record', published', pc'[q], known'[q], ticket'[q], about'[q])
  BY DEF CommitInv
<1>0. /\ pc \in [Procs -> PC] /\ about \in [Procs -> Runs \cup Topics \cup {Nothing}]
      /\ ticket \in [Procs -> Ids \cup {Nothing}]
      /\ draft \in [Procs -> Record] /\ known \in [Procs -> Record] /\ record \in Record
  BY DEF IInv, TypeOK
<1>a. pc[q] \in CommitPC => Decided(draft[q], record, published, pc[q], known[q], ticket[q], about[q])
  BY DEF IInv, CommitInv
<1>b. ASSUME NEW pub, published \subseteq pub, pc[q] \in CommitPC
      PROVE  Decided(draft[q], record, pub, pc[q], known[q], ticket[q], about[q])
  BY <1>a, <1>b DEF Decided
<1>1. CASE UNCHANGED vars
  BY <1>1, <1>a DEF vars, local
<1>2. CASE PublishRun
  <2>1. published \subseteq published'
    BY <1>2 DEF PublishRun
  <2>2. pc'[q] = pc[q] /\ draft' = draft /\ record' = record /\ known' = known
        /\ ticket' = ticket /\ about' = about
    BY <1>2 DEF PublishRun, local
  <2> QED
    BY <1>b, <2>1, <2>2
<1>3. ASSUME NEW p \in Procs, Act(p)
      PROVE  Decided(draft'[q], record', published', pc'[q], known'[q], ticket'[q], about'[q])
  <2> USE <1>0 DEF Step
  <2>1. CASE q # p
    <3>1. /\ draft'[q] = draft[q] /\ known'[q] = known[q] /\ pc'[q] = pc[q]
          /\ ticket'[q] = ticket[q] /\ about'[q] = about[q]
      <4> USE <2>1 DEF Draft
      <4>0. ASSUME End(p) PROVE /\ draft'[q] = draft[q] /\ pc'[q] = pc[q]
                                /\ ticket'[q] = ticket[q] /\ about'[q] = about[q]
        BY <4>0 DEF End
      <4>1. CASE SharedLock(p) \/ ExclusiveLock(p)
        BY <4>1 DEF SharedLock, ExclusiveLock
      <4>2. CASE Refuse(p) \/ Stop(p) \/ SaveReport(p) \/ Receipt(p)
        BY <4>0, <4>2 DEF Refuse, Stop, SaveReport, Receipt
      <4>3. CASE ShowBegin(p) \/ ShowRead(p) \/ SaveBegin(p) \/ SaveDecide(p)
        BY <4>3 DEF ShowBegin, ShowRead, SaveBegin, SaveDecide
      <4>4. CASE ShowRuns(p)
        BY <4>0, <4>4 DEF ShowRuns
      <4>5. CASE QueryBegin(p) \/ QueryRead(p) \/ QueryRun(p) \/ AppendDecide(p)
        BY <4>5 DEF QueryBegin, QueryRead, QueryRun, AppendDecide
      <4>6. CASE AdoptBegin(p) \/ AdoptDecide(p) \/ UpdateDecide(p) \/ Commit(p)
        BY <4>6 DEF AdoptBegin, AdoptDecide, UpdateDecide, Commit
      <4> QED
        BY <1>3, <4>1, <4>2, <4>3, <4>4, <4>5, <4>6 DEF Act
    <3>2. ~Commit(p)
      <4>1. lock[q] = "exclusive"
        BY <3>1 DEF IInv, LockInv, Alone
      <4>2. lock[p] = "none"
        BY <2>1, <4>1 DEF IInv, LockInv
      <4>3. pc[p] \notin CommitPC
        BY <4>2 DEF IInv, LockInv, Alone
      <4> QED
        BY <4>3 DEF Commit, CommitPC
    <3>3. record' = record /\ published' = published
      BY <1>3, <3>2, NoReplacement
    <3> QED
      BY <1>a, <3>1, <3>3
  <2>2. CASE q = p
    <3> USE <2>2 DEF CommitPC, Draft
    <3>1. CASE SaveDecide(p)
      <4>1. PICK nodes \in SUBSET published : draft'[p] = Saved(nodes)
        BY <3>1 DEF SaveDecide
      <4>2. /\ draft'[p].revision = record.revision + 1
            /\ draft'[p].nodes = record.nodes \cup nodes
            /\ draft'[p].materials = record.materials
        BY <4>1, SavedRecord DEF IInv
      <4>3. known[p] = record
        BY <3>1 DEF SaveDecide, IInv, CopyInv, Past
      <4>4. record.nodes \subseteq published
        BY DEF IInv, RecordInv
      <4>5. /\ record' = record /\ published' = published /\ known' = known
            /\ pc'[p] = "saveCommit"
        BY <3>1 DEF SaveDecide
      <4> QED
        BY <4>2, <4>3, <4>4, <4>5 DEF Decided
    <3>2. ASSUME NEW i \in Fresh, ticket' = [ticket EXCEPT ![p] = i],
                 draft' = [draft EXCEPT ![p] = Extended(i, about[p])],
                 record' = record, published' = published, known' = known, about' = about,
                 pc'[p] \in {"appendCommit", "adoptCommit", "updateCommit"},
                 pc'[p] = "updateCommit" => record.revision = known[p].revision,
                 pc'[p] = "adoptCommit" => Snapshots(about[p]) = {}
          PROVE  Decided(draft'[q], record', published', pc'[q], known'[q], ticket'[q], about'[q])
      <4>1. i \in Ids /\ record.materials[i] = Nothing /\ ticket'[p] = i
        BY <3>2 DEF Fresh
      <4>2. draft'[p] = Extended(i, about[p])
        BY <3>2
      <4>3. /\ draft'[p].revision = record.revision + 1
            /\ draft'[p].nodes = record.nodes
            /\ draft'[p].materials = [record.materials EXCEPT ![i] = about[p]]
        BY <4>2, ExtendedRecord DEF IInv
      <4>4. record.nodes \subseteq published
        BY DEF IInv, RecordInv
      <4>5. pc'[p] = "updateCommit" => known[p] = record
        BY <3>2 DEF IInv, CopyInv, Past
      <4> QED
        BY <3>2, <4>1, <4>3, <4>4, <4>5 DEF Decided, Snapshots
    <3>3. CASE AppendDecide(p)
      BY <3>2, <3>3 DEF AppendDecide
    <3>4. CASE UpdateDecide(p)
      BY <3>2, <3>4 DEF UpdateDecide
    <3>5. CASE AdoptDecide(p)
      BY <3>2, <3>5 DEF AdoptDecide
    <3>6. CASE ~SaveDecide(p) /\ ~AppendDecide(p) /\ ~UpdateDecide(p) /\ ~AdoptDecide(p)
      <4>0. ASSUME End(p) PROVE FALSE
        BY <4>0 DEF End
      <4>1. CASE SharedLock(p) \/ ExclusiveLock(p)
        BY <4>1 DEF SharedLock, ExclusiveLock
      <4>2. CASE Refuse(p) \/ Stop(p) \/ SaveReport(p) \/ Receipt(p)
        BY <4>0, <4>2 DEF Refuse, Stop, SaveReport, Receipt
      <4>3. CASE ShowBegin(p) \/ ShowRead(p) \/ SaveBegin(p)
        BY <4>3 DEF ShowBegin, ShowRead, SaveBegin
      <4>4. CASE ShowRuns(p)
        BY <4>0, <4>4 DEF ShowRuns
      <4>5. CASE QueryBegin(p) \/ QueryRead(p) \/ QueryRun(p) \/ AdoptBegin(p)
        BY <4>5 DEF QueryBegin, QueryRead, QueryRun, AdoptBegin
      <4>6. CASE Commit(p)
        BY <4>6 DEF Commit
      <4> QED
        BY <1>3, <3>6, <4>1, <4>2, <4>3, <4>4, <4>5, <4>6 DEF Act
    <3> QED
      BY <3>1, <3>3, <3>4, <3>5, <3>6
  <2> QED
    BY <2>1, <2>2
<1> QED
  BY <1>1, <1>2, <1>3 DEF Next


(* What a process is about to acknowledge is in the record it has put there, *)
(* and what was acknowledged is in every record since. *)
LEMMA ReceiptStep == IInv /\ [Next]_vars => ReceiptInv'
<1> SUFFICES ASSUME IInv, [Next]_vars PROVE ReceiptInv'
  OBVIOUS
<1>0. /\ pc \in [Procs -> PC] /\ about \in [Procs -> Runs \cup Topics \cup {Nothing}]
      /\ ticket \in [Procs -> Ids \cup {Nothing}]
      /\ draft \in [Procs -> Record] /\ record \in Record
      /\ receipts \subseteq [id : Ids, about : Runs \cup Topics, revision : 1..MaxRevision]
  BY DEF IInv, TypeOK
<1>a. \A p \in Procs : pc[p] = "receipt" =>
         /\ ticket[p] \in Ids /\ about[p] \in Runs \cup Topics
         /\ draft[p].materials[ticket[p]] = about[p] /\ draft[p].revision > 0
  BY DEF IInv, ReceiptInv
<1>b. ASSUME NEW t \in [id : Ids, about : Runs \cup Topics, revision : 1..MaxRevision],
             record.materials[t.id] = t.about, t.revision <= record.revision
      PROVE  record'.materials[t.id] = t.about /\ t.revision <= record'.revision
  <2>1. record.revision \in Nat /\ t.revision \in Nat /\ t.id \in Ids /\ t.about # Nothing
    BY <1>0, BoundsAssumption, NothingAssumption DEF Record
  <2>2. Past(record)
    BY <2>1 DEF Past
  <2>3. record' \in Record
    BY TypeStep DEF IInv, TypeOK
  <2>4. record'.revision \in Nat
    BY <2>3, BoundsAssumption DEF Record
  <2>5. record.revision <= record'.revision
    BY <1>0, <2>2, PastStep
  <2>6. \A i \in Ids : record.materials[i] # Nothing => record'.materials[i] = record.materials[i]
    BY <1>0, <2>2, PastStep
  <2> QED
    BY <1>b, <2>1, <2>4, <2>5, <2>6
<1>c. ASSUME NEW t \in receipts
      PROVE  record'.materials[t.id] = t.about /\ t.revision <= record'.revision
  <2>1. record.materials[t.id] = t.about /\ t.revision <= record.revision
    BY DEF IInv, ReceiptInv
  <2> QED
    BY <1>0, <1>b, <2>1
<1>1. CASE UNCHANGED vars
  BY <1>1, <1>a, <1>c DEF vars, local, history, ReceiptInv
<1>2. CASE PublishRun
  BY <1>2, <1>a, <1>c DEF PublishRun, local, history, ReceiptInv
<1>3. ASSUME NEW p \in Procs, Act(p) PROVE ReceiptInv'
  <2> USE <1>0 DEF Step, Draft
  <2>1. ASSUME NEW q \in Procs, pc'[q] = "receipt"
        PROVE  /\ ticket'[q] \in Ids /\ about'[q] \in Runs \cup Topics
               /\ draft'[q].materials[ticket'[q]] = about'[q] /\ draft'[q].revision > 0
    <3> USE <1>a, <2>1
    <3>0. ~End(p) \/ q # p
      BY DEF End
    <3>1. CASE Commit(p) /\ q = p
      <4>1. pc[p] \in {"appendCommit", "adoptCommit", "updateCommit"}
        BY <3>1 DEF Commit
      <4>2. /\ ticket[p] \in Ids /\ draft[p].revision = record.revision + 1
            /\ draft[p].materials = [record.materials EXCEPT ![ticket[p]] = about[p]]
        BY <4>1 DEF IInv, CommitInv, Decided, CommitPC
      <4>3. about[p] \in Runs \cup Topics
        BY <4>1 DEF IInv, AboutInv, AppendPC, AdoptPC, UpdatePC
      <4>4. record.revision \in Nat /\ record.materials \in [Ids -> Runs \cup Topics \cup {Nothing}]
        BY BoundsAssumption DEF Record
      <4>5. ticket' = ticket /\ about' = about /\ draft' = draft
        BY <3>1 DEF Commit
      <4> QED
        BY <3>1, <4>2, <4>3, <4>4, <4>5
    <3>2. CASE AdoptDecide(p) /\ q = p
      <4>1. PICK i \in Ids : Snapshots(about[p]) = {i} /\ ticket' = [ticket EXCEPT ![p] = i]
        BY <3>2 DEF AdoptDecide
      <4>2. record.materials[i] = about[p]
        BY <4>1 DEF Snapshots
      <4>3. about[p] \in Topics /\ Exists(record)
        BY <3>2 DEF AdoptDecide, IInv, AboutInv, AdoptPC
      <4>4. draft'[p] = record /\ about' = about
        BY <3>2 DEF AdoptDecide
      <4> QED
        BY <3>2, <4>1, <4>2, <4>3, <4>4 DEF Exists
    <3>3. CASE q # p \/ (~Commit(p) /\ ~AdoptDecide(p))
      <4>1. /\ pc[q] = "receipt"
            /\ draft'[q] = draft[q] /\ ticket'[q] = ticket[q] /\ about'[q] = about[q]
        <5>0. ASSUME End(p) PROVE <4>1!1 /\ <4>1!2
          BY <3>0, <5>0 DEF End
        <5>1. CASE SharedLock(p) \/ ExclusiveLock(p)
          BY <5>1 DEF SharedLock, ExclusiveLock
        <5>2. CASE Refuse(p) \/ Stop(p) \/ SaveReport(p) \/ Receipt(p)
          BY <5>0, <5>2 DEF Refuse, Stop, SaveReport, Receipt
        <5>3. CASE ShowBegin(p) \/ ShowRead(p) \/ SaveBegin(p) \/ SaveDecide(p)
          BY <5>3 DEF ShowBegin, ShowRead, SaveBegin, SaveDecide
        <5>4. CASE ShowRuns(p)
          BY <5>0, <5>4 DEF ShowRuns
        <5>5. CASE QueryBegin(p) \/ QueryRead(p) \/ QueryRun(p) \/ AppendDecide(p)
          BY <5>5 DEF QueryBegin, QueryRead, QueryRun, AppendDecide
        <5>6. CASE AdoptBegin(p) \/ UpdateDecide(p)
          BY <5>6 DEF AdoptBegin, UpdateDecide
        <5>7. CASE AdoptDecide(p)
          BY <3>3, <5>7 DEF AdoptDecide
        <5>8. CASE Commit(p)
          BY <3>3, <5>8 DEF Commit
        <5> QED
          BY <1>3, <5>1, <5>2, <5>3, <5>4, <5>5, <5>6, <5>7, <5>8 DEF Act
      <4> QED
        BY <4>1
    <3> QED
      BY <3>1, <3>2, <3>3
  <2>2. ASSUME NEW t \in receipts'
        PROVE  record'.materials[t.id] = t.about /\ t.revision <= record'.revision
    <3>1. CASE t \in receipts
      BY <1>c, <3>1
    <3>2. CASE t \notin receipts
      <4>1. Receipt(p)
        <5>1. CASE SharedLock(p) \/ ExclusiveLock(p) \/ Refuse(p) \/ Stop(p)
          BY <2>2, <3>2, <5>1 DEF SharedLock, ExclusiveLock, Refuse, Stop, history
        <5>2. CASE ShowBegin(p) \/ ShowRead(p) \/ ShowRuns(p) \/ SaveBegin(p) \/ SaveDecide(p) \/ SaveReport(p)
          BY <2>2, <3>2, <5>2 DEF ShowBegin, ShowRead, ShowRuns, SaveBegin, SaveDecide, SaveReport, history
        <5>3. CASE QueryBegin(p) \/ QueryRead(p) \/ QueryRun(p) \/ AppendDecide(p)
          BY <2>2, <3>2, <5>3 DEF QueryBegin, QueryRead, QueryRun, AppendDecide, history
        <5>4. CASE AdoptBegin(p) \/ AdoptDecide(p) \/ UpdateDecide(p) \/ Commit(p)
          BY <2>2, <3>2, <5>4 DEF AdoptBegin, AdoptDecide, UpdateDecide, Commit, history
        <5> QED
          BY <1>3, <5>1, <5>2, <5>3, <5>4 DEF Act
      <4>2. /\ t = [id |-> ticket[p], about |-> about[p], revision |-> draft[p].revision]
            /\ pc[p] = "receipt"
        BY <2>2, <3>2, <4>1 DEF Receipt
      <4>3. /\ ticket[p] \in Ids /\ about[p] \in Runs \cup Topics
            /\ draft[p].materials[ticket[p]] = about[p] /\ draft[p].revision > 0
        BY <1>a, <4>2
      <4>4. Past(draft[p])
        BY <4>2 DEF IInv, CopyInv
      <4>5. about[p] # Nothing
        BY <4>3, NothingAssumption
      <4>6. record.materials[ticket[p]] = about[p] /\ draft[p].revision <= record.revision
        BY <4>3, <4>4, <4>5 DEF Past
      <4>7. record' = record
        BY <4>1 DEF Receipt
      <4> QED
        BY <4>2, <4>6, <4>7
    <3> QED
      BY <3>1, <3>2
  <2> QED
    BY <2>1, <2>2 DEF ReceiptInv
<1> QED
  BY <1>1, <1>2, <1>3 DEF Next

(* The cardinality of a set and one more. *)
LEMMA OneMore ==
  ASSUME NEW S \in SUBSET Ids, NEW i \in Ids, i \notin S
  PROVE  Cardinality(S \cup {i}) = Cardinality(S) + 1 /\ Cardinality(S) \in Nat
<1>1. IsFiniteSet(S)
  BY IdsAssumption, FS_Subset
<1> QED
  BY <1>1, FS_AddElement, FS_CardinalityType

(* Materials and snapshots are counted by the replacements. *)
LEMMA CountStep == IInv /\ [Next]_vars => CountInv'
<1> SUFFICES ASSUME IInv, [Next]_vars PROVE CountInv'
  OBVIOUS
<1>0. /\ record \in Record /\ updates \in [Topics -> Nat] /\ CountInv
      /\ record.revision \in Nat /\ record.materials \in [Ids -> Runs \cup Topics \cup {Nothing}]
  BY BoundsAssumption DEF IInv, TypeOK, Record
<1>a. ASSUME record' = record, updates' = updates PROVE CountInv'
  BY <1>0, <1>a DEF CountInv, SnapshotsAreDeliberate, Snapshots, Taken, Exists
<1>1. CASE UNCHANGED vars
  BY <1>1, <1>a DEF vars, history
<1>2. CASE PublishRun
  BY <1>2, <1>a DEF PublishRun, history
<1>3. ASSUME NEW p \in Procs, Commit(p) PROVE CountInv'
  <2>0. /\ record' = draft[p] /\ pc[p] \in CommitPC
        /\ Decided(draft[p], record, published, pc[p], known[p], ticket[p], about[p])
    BY <1>3 DEF IInv, CommitInv, Commit, Step, CommitPC
  <2>1. CASE pc[p] = "saveCommit"
    <3>1. /\ record'.materials = record.materials /\ record'.revision = record.revision + 1
      BY <2>0, <2>1 DEF Decided
    <3>2. updates' = updates
      BY <1>3, <2>1 DEF Commit, Step
    <3>3. Taken' = Taken /\ \A k \in Topics : Snapshots(k)' = Snapshots(k)
      BY <3>1 DEF Taken, Snapshots
    <3>4. Cardinality(Taken) + 1 <= record'.revision
      <4>1. CASE Exists(record)
        <5>1. Cardinality(Taken) + 1 <= record.revision
          BY <1>0, <4>1 DEF CountInv
        <5>2. Cardinality(Taken) \in Nat
          BY IdsAssumption, FS_Subset, FS_CardinalityType DEF Taken
        <5> QED
          BY <1>0, <3>1, <5>1, <5>2
      <4>2. CASE ~Exists(record)
        <5>1. record = NoRecord
          BY <1>0, <4>2 DEF Exists, IInv, RecordInv
        <5>2. Taken = {}
          BY <5>1 DEF NoRecord, Taken
        <5>3. Cardinality(Taken) = 0
          BY <5>2, FS_EmptySet
        <5> QED
          BY <1>0, <3>1, <5>3
      <4> QED
        BY <4>1, <4>2
    <3> QED
      BY <1>0, <3>2, <3>3, <3>4 DEF CountInv, SnapshotsAreDeliberate
  <2>2. CASE pc[p] # "saveCommit"
    <3> DEFINE i == ticket[p]
               m == about[p]
    <3>1. /\ i \in Ids /\ record.materials[i] = Nothing
          /\ record'.materials = [record.materials EXCEPT ![i] = m]
          /\ record'.revision = record.revision + 1
          /\ pc[p] = "adoptCommit" => \A j \in Ids : record.materials[j] # m
      BY <2>0, <2>2 DEF Decided
    <3>2. m \in Runs \cup Topics /\ Exists(record)
      BY <2>0, <2>2 DEF IInv, AboutInv, CommitPC, AppendPC, AdoptPC, UpdatePC
    <3>3. m # Nothing
      BY <3>2, NothingAssumption
    <3>4. Taken' = Taken \cup {i} /\ i \notin Taken
      BY <1>0, <3>1, <3>3 DEF Taken
    <3>5. Cardinality(Taken') + 1 <= record'.revision
      <4>1. Cardinality(Taken') = Cardinality(Taken) + 1 /\ Cardinality(Taken) \in Nat
        BY <3>1, <3>4, OneMore DEF Taken
      <4>2. Cardinality(Taken) + 1 <= record.revision
        BY <1>0, <3>2 DEF CountInv
      <4> QED
        BY <1>0, <3>1, <4>1, <4>2
    <3>6. ASSUME NEW k \in Topics PROVE Cardinality(Snapshots(k)') <= 1 + updates'[k]
      <4>0. /\ Cardinality(Snapshots(k)) <= 1 + updates[k] /\ updates[k] \in Nat
            /\ updates' \in [Topics -> Nat]
        BY <1>0, TypeStep DEF CountInv, SnapshotsAreDeliberate, IInv, TypeOK
      <4>1. CASE k # m
        <5>1. Snapshots(k)' = Snapshots(k)
          BY <1>0, <3>1, <4>1, NothingAssumption DEF Snapshots
        <5>2. updates'[k] = updates[k]
          BY <1>0, <1>3, <4>1 DEF Commit
        <5> QED
          BY <4>0, <5>1, <5>2
      <4>2. CASE k = m
        <5>1. Snapshots(k)' = Snapshots(k) \cup {i} /\ i \notin Snapshots(k)
          BY <1>0, <3>1, <4>2, NothingAssumption DEF Snapshots
        <5>2. Snapshots(k) \in SUBSET Ids
          BY DEF Snapshots
        <5>3. Cardinality(Snapshots(k)') = Cardinality(Snapshots(k)) + 1 /\ Cardinality(Snapshots(k)) \in Nat
          BY <3>1, <5>1, <5>2, OneMore
        <5>4. CASE pc[p] = "updateCommit"
          <6>1. updates'[k] = updates[k] + 1
            BY <1>0, <1>3, <4>2, <5>4 DEF Commit, Step
          <6> QED
            BY <4>0, <5>3, <6>1
        <5>5. CASE pc[p] = "adoptCommit"
          <6>1. Snapshots(k) = {}
            BY <3>1, <4>2, <5>5 DEF Snapshots
          <6>2. Cardinality(Snapshots(k)) = 0
            BY <6>1, FS_EmptySet
          <6>3. updates'[k] = updates[k]
            BY <1>3, <5>5 DEF Commit, Step
          <6> QED
            BY <4>0, <5>3, <6>2, <6>3
        <5>6. CASE pc[p] = "appendCommit"
          <6>1. m \in Runs
            BY <5>6 DEF IInv, AboutInv, AppendPC
          <6> QED
            BY <4>2, <6>1, RunsAssumption
        <5> QED
          BY <2>0, <2>2, <5>4, <5>5, <5>6 DEF CommitPC
      <4> QED
        BY <4>1, <4>2
    <3>7. Exists(record)' => Cardinality(Taken)' + 1 <= record'.revision
      BY <3>5
    <3>8. SnapshotsAreDeliberate'
      BY <3>6 DEF SnapshotsAreDeliberate
    <3> QED
      BY <3>7, <3>8 DEF CountInv
  <2> QED
    BY <2>1, <2>2
<1>4. ASSUME NEW p \in Procs, Act(p), ~Commit(p) PROVE CountInv'
  BY <1>4, <1>a, NoReplacement
<1> QED
  BY <1>1, <1>2, <1>3, <1>4 DEF Next


-----------------------------------------------------------------------------
\* The inductive invariant holds of every reachable state.
THEOREM Inductive == Spec => []IInv
<1>1. Init => IInv
  BY InitIInv
<1>2. IInv /\ [Next]_vars => IInv'
  BY TypeStep, LockStep, CopyStep, AboutStep, CommitStep, ReceiptStep, RecordStep, CountStep DEF IInv
<1> QED
  BY <1>1, <1>2, PTL DEF Spec

\* Type correctness: every document and every copy of it is a record.
THEOREM TypeCorrect == Spec => []TypeOK
<1>1. IInv => TypeOK
  BY DEF IInv
<1> QED
  BY <1>1, Inductive, PTL

\* For any number of commands: what was acknowledged stays in the record, and
\* a report that was saved can be shown whatever is written while it is read.
THEOREM ArchiveReliable == Spec => []ArchiveIsReliable
<1>1. IInv => ReceiptsHold
  <2> SUFFICES ASSUME IInv PROVE ReceiptsHold
    OBVIOUS
  <2>1. Taken = {i \in Ids : record.materials[i] # Nothing}
    BY DEF Taken
  <2> QED
    BY <2>1 DEF IInv, ReceiptInv, CountInv, ReceiptsHold
<1>2. IInv => SavedReportIsShown
  BY DEF IInv, RecordInv, AboutInv, SavedReportIsShown
<1>3. IInv => ArchiveIsReliable
  BY <1>1, <1>2 DEF ArchiveIsReliable
<1> QED
  BY <1>3, Inductive, PTL

\* For any number of commands: a further snapshot takes an update.
THEOREM SnapshotsDeliberate == Spec => []SnapshotsAreDeliberate
<1>1. IInv => SnapshotsAreDeliberate
  BY DEF IInv, CountInv
<1> QED
  BY <1>1, Inductive, PTL

\* A step changes the record by a Commit only.
LEMMA OnlyCommits ==
  ASSUME [Next]_vars, record' # record
  PROVE  \E p \in Procs : Commit(p)
<1>1. ~UNCHANGED vars /\ ~PublishRun
  BY DEF vars, PublishRun
<1>2. PICK p \in Procs : Act(p)
  BY <1>1 DEF Next
<1> QED
  BY <1>2, NoReplacement

\* For any number of commands: no replacement undoes another.
THEOREM NothingLost == Spec => NoLostUpdate
<1>1. IInv /\ [Next]_vars =>
        [record' # record =>
           /\ record'.revision = record.revision + 1
           /\ record.nodes \subseteq record'.nodes
           /\ \A i \in Ids : record.materials[i] # Nothing => record'.materials[i] = record.materials[i]]_vars
  BY OnlyCommits, Replacement
<1> QED
  BY <1>1, Inductive, PTL DEF Spec, NoLostUpdate

\* For any number of commands: a save or an update replaces what its author saw.
THEOREM AuthorSaw == Spec => AuthorSawWhatIsReplaced
<1>1. IInv /\ [Next]_vars =>
        [record' # record =>
           \E p \in Procs :
             \/ pc[p] \in {"saveCommit", "updateCommit"} /\ record = known[p]
             \/ pc[p] \in {"appendCommit", "adoptCommit"} /\ record'.nodes = record.nodes]_vars
  <2> SUFFICES ASSUME IInv, [Next]_vars, record' # record
               PROVE  \E p \in Procs :
                        \/ pc[p] \in {"saveCommit", "updateCommit"} /\ record = known[p]
                        \/ pc[p] \in {"appendCommit", "adoptCommit"} /\ record'.nodes = record.nodes
    OBVIOUS
  <2>1. PICK p \in Procs : Commit(p)
    BY OnlyCommits
  <2>2. /\ pc[p] \in CommitPC /\ record' = draft[p]
        /\ Decided(draft[p], record, published, pc[p], known[p], ticket[p], about[p])
    BY <2>1, Replacement DEF IInv, CommitInv
  <2> QED
    BY <2>2 DEF Decided, CommitPC
<1> QED
  BY <1>1, Inductive, PTL DEF Spec, AuthorSawWhatIsReplaced

=============================================================================
