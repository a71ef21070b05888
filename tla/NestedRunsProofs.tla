-------------------------- MODULE NestedRunsProofs --------------------------
(***************************************************************************)
(* Proofs about NestedRuns, for any number of Runs, targets and crashes.   *)
(***************************************************************************)
EXTENDS NestedRuns, TLAPS

\* The directory of a Run follows its execution.
DiskInv ==
  \A r \in Runs :
    /\ stage[r] = "unused" <=> disk[r] = "none"
    /\ stage[r] \in Active \ {"record", "answer"} => disk[r] = "candidate"
    /\ stage[r] \in {"record", "answer"} => disk[r] = "published"
    /\ stage[r] = "ended" => disk[r] \in {"published", "gone"}

\* A child runs in the process of its parent, below the targets of its line.
TreeInv ==
  \A c \in Runs :
    /\ stage[c] = "unused" => parent[c] = NoRun /\ ledger[c] = {}
    /\ stage[c] = "record" => parent[c] # NoRun
    /\ parent[c] # NoRun =>
         /\ stage[parent[c]] # "unused"
         /\ host[c] = host[parent[c]]
         /\ chain[parent[c]] \subseteq chain[c]
         /\ chain[parent[c]] # chain[c]

\* A Run whose Runtime the Host has left has only children that are over, and
\* of them only such as ended, unless it died itself.
DrainInv ==
  \A c \in Runs : parent[c] # NoRun =>
    /\ stage[c] \in Active => stage[parent[c]] \in {"running", "drainOk", "drainFailed"}
    /\ stage[c] = "dead" => stage[parent[c]] = "dead"

\* A ledger holds the published children of the Run, but for one whose worker
\* has not got there yet.
LedgerInv ==
  \A r \in Runs :
    /\ ledger[r] \subseteq Children(r) \cap Published
    /\ stage[r] # "dead" => \A c \in Children(r) \cap Published : stage[c] = "record" \/ c \in ledger[r]

\* The manifest of a published Run, or of one that is about to be.
ManifestInv ==
  \A r \in Runs : stage[r] = "publish" \/ disk[r] = "published" =>
    /\ manifest[r] = Children(r) \cap Published
    /\ \A c \in Children(r) : stage[c] = "ended"

\* What an enumeration has selected is published.
ViewInv ==
  /\ view \subseteq Published /\ before \subseteq Published
  /\ look = "scan" => before \subseteq view \cup unseen
  /\ look \in {"close", "done"} => before \subseteq view
  /\ look = "done" => \A r \in view : manifest[r] \subseteq view
  /\ look \notin {"notFound", "invalidFacts"}

IInv == TypeOK /\ DiskInv /\ TreeInv /\ DrainInv /\ LedgerInv /\ ManifestInv /\ ViewInv

-----------------------------------------------------------------------------
(* IInv is inductive. *)

USE DEF Step, Active, Over, LookStages, Children, Published, tree, viewer

\* Every step leaves the state well typed.
LEMMA TypeStep ==
  ASSUME IInv, [Next]_vars
  PROVE  TypeOK'
<1> USE NoRunAssumption, MaxCrashesAssumption DEF IInv, TypeOK
<1>1. ASSUME NEW r \in Runs, Root(r) PROVE TypeOK'
  BY <1>1 DEF Root, Allocate
<1>2. ASSUME NEW r \in Runs, Call(r) PROVE TypeOK'
  BY <1>2 DEF Call, Allocate
<1>3. ASSUME NEW r \in Runs, Return(r) PROVE TypeOK'
  BY <1>3 DEF Return
<1>4. ASSUME NEW r \in Runs, Quit(r) PROVE TypeOK'
  BY <1>4 DEF Quit
<1>5. ASSUME NEW r \in Runs, Finish(r) PROVE TypeOK'
  BY <1>5 DEF Finish, Drained
<1>6. ASSUME NEW r \in Runs, Gate(r) PROVE TypeOK'
  BY <1>6 DEF Gate
<1>7. ASSUME NEW r \in Runs, Publish(r) PROVE TypeOK'
  BY <1>7 DEF Publish
<1>8. ASSUME NEW r \in Runs, Record(r) PROVE TypeOK'
  BY <1>8 DEF Record
<1>9. ASSUME NEW r \in Runs, Answer(r) PROVE TypeOK'
  BY <1>9 DEF Answer
<1>10. ASSUME NEW r \in Runs, Drop(r) PROVE TypeOK'
  BY <1>10 DEF Drop
<1>11. ASSUME NEW r \in Runs, Crash(r) PROVE TypeOK'
  BY <1>11 DEF Crash
<1>12. CASE Scan
  BY <1>12 DEF Scan
<1>13. CASE Visit
  BY <1>13 DEF Visit
<1>14. CASE Resolve
  BY <1>14 DEF Resolve
<1>15. CASE Complete
  BY <1>15 DEF Complete, Missing
<1>16. CASE Reply
  BY <1>16 DEF Reply
<1>17. CASE UNCHANGED vars
  BY <1>17 DEF vars
<1> QED
  BY <1>1, <1>2, <1>3, <1>4, <1>5, <1>6, <1>7, <1>8, <1>9, <1>10,
     <1>11, <1>12, <1>13, <1>14, <1>15, <1>16, <1>17
     DEF Next, TreeNext, HostStep, ViewNext

\* The directory of a Run follows its execution.
LEMMA DiskStep ==
  ASSUME IInv, [Next]_vars
  PROVE  DiskInv'
<1> USE NoRunAssumption, MaxCrashesAssumption DEF IInv, TypeOK, DiskInv
<1>1. ASSUME NEW r \in Runs, Root(r) PROVE DiskInv'
  BY <1>1 DEF Root, Allocate
<1>2. ASSUME NEW r \in Runs, Call(r) PROVE DiskInv'
  BY <1>2 DEF Call, Allocate
<1>3. ASSUME NEW r \in Runs, Return(r) PROVE DiskInv'
  BY <1>3 DEF Return
<1>4. ASSUME NEW r \in Runs, Quit(r) PROVE DiskInv'
  BY <1>4 DEF Quit
<1>5. ASSUME NEW r \in Runs, Finish(r) PROVE DiskInv'
  BY <1>5 DEF Finish, Drained
<1>6. ASSUME NEW r \in Runs, Gate(r) PROVE DiskInv'
  BY <1>6 DEF Gate
<1>7. ASSUME NEW r \in Runs, Publish(r) PROVE DiskInv'
  BY <1>7 DEF Publish
<1>8. ASSUME NEW r \in Runs, Record(r) PROVE DiskInv'
  BY <1>8 DEF Record
<1>9. ASSUME NEW r \in Runs, Answer(r) PROVE DiskInv'
  BY <1>9 DEF Answer
<1>10. ASSUME NEW r \in Runs, Drop(r) PROVE DiskInv'
  BY <1>10 DEF Drop
<1>11. ASSUME NEW r \in Runs, Crash(r) PROVE DiskInv'
  BY <1>11 DEF Crash
<1>12. CASE Scan
  BY <1>12 DEF Scan
<1>13. CASE Visit
  BY <1>13 DEF Visit
<1>14. CASE Resolve
  BY <1>14 DEF Resolve
<1>15. CASE Complete
  BY <1>15 DEF Complete, Missing
<1>16. CASE Reply
  BY <1>16 DEF Reply
<1>17. CASE UNCHANGED vars
  BY <1>17 DEF vars
<1> QED
  BY <1>1, <1>2, <1>3, <1>4, <1>5, <1>6, <1>7, <1>8, <1>9, <1>10,
     <1>11, <1>12, <1>13, <1>14, <1>15, <1>16, <1>17
     DEF Next, TreeNext, HostStep, ViewNext

\* Children stay in the process and below the targets of their parents.
LEMMA TreeStep ==
  ASSUME IInv, [Next]_vars
  PROVE  TreeInv'
<1> USE NoRunAssumption, MaxCrashesAssumption DEF IInv, TypeOK, TreeInv
<1>1. ASSUME NEW r \in Runs, Root(r) PROVE TreeInv'
  BY <1>1 DEF Root, Allocate
<1>2. ASSUME NEW r \in Runs, Call(r) PROVE TreeInv'
  BY <1>2 DEF Call, Allocate
<1>3. ASSUME NEW r \in Runs, Return(r) PROVE TreeInv'
  BY <1>3 DEF Return
<1>4. ASSUME NEW r \in Runs, Quit(r) PROVE TreeInv'
  BY <1>4 DEF Quit
<1>5. ASSUME NEW r \in Runs, Finish(r) PROVE TreeInv'
  BY <1>5 DEF Finish, Drained
<1>6. ASSUME NEW r \in Runs, Gate(r) PROVE TreeInv'
  BY <1>6 DEF Gate
<1>7. ASSUME NEW r \in Runs, Publish(r) PROVE TreeInv'
  BY <1>7 DEF Publish
<1>8. ASSUME NEW r \in Runs, Record(r) PROVE TreeInv'
  BY <1>8 DEF Record
<1>9. ASSUME NEW r \in Runs, Answer(r) PROVE TreeInv'
  BY <1>9 DEF Answer
<1>10. ASSUME NEW r \in Runs, Drop(r) PROVE TreeInv'
  BY <1>10 DEF Drop
<1>11. ASSUME NEW r \in Runs, Crash(r) PROVE TreeInv'
  BY <1>11 DEF Crash
<1>12. CASE Scan
  BY <1>12 DEF Scan
<1>13. CASE Visit
  BY <1>13 DEF Visit
<1>14. CASE Resolve
  BY <1>14 DEF Resolve
<1>15. CASE Complete
  BY <1>15 DEF Complete, Missing
<1>16. CASE Reply
  BY <1>16 DEF Reply
<1>17. CASE UNCHANGED vars
  BY <1>17 DEF vars
<1> QED
  BY <1>1, <1>2, <1>3, <1>4, <1>5, <1>6, <1>7, <1>8, <1>9, <1>10,
     <1>11, <1>12, <1>13, <1>14, <1>15, <1>16, <1>17
     DEF Next, TreeNext, HostStep, ViewNext

\* The Host leaves no Runtime before the calls of it are over.
LEMMA DrainStep ==
  ASSUME IInv, [Next]_vars
  PROVE  DrainInv'
<1> USE NoRunAssumption, MaxCrashesAssumption DEF IInv, TypeOK, TreeInv, DrainInv
<1>1. ASSUME NEW r \in Runs, Root(r) PROVE DrainInv'
  BY <1>1 DEF Root, Allocate
<1>2. ASSUME NEW r \in Runs, Call(r) PROVE DrainInv'
  BY <1>2 DEF Call, Allocate
<1>3. ASSUME NEW r \in Runs, Return(r) PROVE DrainInv'
  BY <1>3 DEF Return
<1>4. ASSUME NEW r \in Runs, Quit(r) PROVE DrainInv'
  BY <1>4 DEF Quit
<1>5. ASSUME NEW r \in Runs, Finish(r) PROVE DrainInv'
  BY <1>5 DEF Finish, Drained
<1>6. ASSUME NEW r \in Runs, Gate(r) PROVE DrainInv'
  BY <1>6 DEF Gate
<1>7. ASSUME NEW r \in Runs, Publish(r) PROVE DrainInv'
  BY <1>7 DEF Publish
<1>8. ASSUME NEW r \in Runs, Record(r) PROVE DrainInv'
  BY <1>8 DEF Record
<1>9. ASSUME NEW r \in Runs, Answer(r) PROVE DrainInv'
  BY <1>9 DEF Answer
<1>10. ASSUME NEW r \in Runs, Drop(r) PROVE DrainInv'
  BY <1>10 DEF Drop
<1>11. ASSUME NEW r \in Runs, Crash(r) PROVE DrainInv'
  BY <1>11 DEF Crash
<1>12. CASE Scan
  BY <1>12 DEF Scan
<1>13. CASE Visit
  BY <1>13 DEF Visit
<1>14. CASE Resolve
  BY <1>14 DEF Resolve
<1>15. CASE Complete
  BY <1>15 DEF Complete, Missing
<1>16. CASE Reply
  BY <1>16 DEF Reply
<1>17. CASE UNCHANGED vars
  BY <1>17 DEF vars
<1> QED
  BY <1>1, <1>2, <1>3, <1>4, <1>5, <1>6, <1>7, <1>8, <1>9, <1>10,
     <1>11, <1>12, <1>13, <1>14, <1>15, <1>16, <1>17
     DEF Next, TreeNext, HostStep, ViewNext

\* The ledgers keep up with the publication of children.
LEMMA LedgerStep ==
  ASSUME IInv, [Next]_vars
  PROVE  LedgerInv'
<1> USE NoRunAssumption, MaxCrashesAssumption DEF IInv, TypeOK, DiskInv, TreeInv, DrainInv, LedgerInv
<1>1. ASSUME NEW r \in Runs, Root(r) PROVE LedgerInv'
  BY <1>1 DEF Root, Allocate
<1>2. ASSUME NEW r \in Runs, Call(r) PROVE LedgerInv'
  BY <1>2 DEF Call, Allocate
<1>3. ASSUME NEW r \in Runs, Return(r) PROVE LedgerInv'
  BY <1>3 DEF Return
<1>4. ASSUME NEW r \in Runs, Quit(r) PROVE LedgerInv'
  BY <1>4 DEF Quit
<1>5. ASSUME NEW r \in Runs, Finish(r) PROVE LedgerInv'
  BY <1>5 DEF Finish, Drained
<1>6. ASSUME NEW r \in Runs, Gate(r) PROVE LedgerInv'
  BY <1>6 DEF Gate
<1>7. ASSUME NEW r \in Runs, Publish(r) PROVE LedgerInv'
  BY <1>7 DEF Publish
<1>8. ASSUME NEW r \in Runs, Record(r) PROVE LedgerInv'
  BY <1>8 DEF Record
<1>9. ASSUME NEW r \in Runs, Answer(r) PROVE LedgerInv'
  BY <1>9 DEF Answer
<1>10. ASSUME NEW r \in Runs, Drop(r) PROVE LedgerInv'
  BY <1>10 DEF Drop
<1>11. ASSUME NEW r \in Runs, Crash(r) PROVE LedgerInv'
  BY <1>11 DEF Crash
<1>12. CASE Scan
  BY <1>12 DEF Scan
<1>13. CASE Visit
  BY <1>13 DEF Visit
<1>14. CASE Resolve
  BY <1>14 DEF Resolve
<1>15. CASE Complete
  BY <1>15 DEF Complete, Missing
<1>16. CASE Reply
  BY <1>16 DEF Reply
<1>17. CASE UNCHANGED vars
  BY <1>17 DEF vars
<1> QED
  BY <1>1, <1>2, <1>3, <1>4, <1>5, <1>6, <1>7, <1>8, <1>9, <1>10,
     <1>11, <1>12, <1>13, <1>14, <1>15, <1>16, <1>17
     DEF Next, TreeNext, HostStep, ViewNext

\* Manifests are exact when written, and stay so.
LEMMA ManifestStep ==
  ASSUME IInv, [Next]_vars
  PROVE  ManifestInv'
<1> USE NoRunAssumption, MaxCrashesAssumption DEF IInv, TypeOK, DiskInv, TreeInv, DrainInv, LedgerInv, ManifestInv
<1>1. ASSUME NEW r \in Runs, Root(r) PROVE ManifestInv'
  BY <1>1 DEF Root, Allocate
<1>2. ASSUME NEW r \in Runs, Call(r) PROVE ManifestInv'
  BY <1>2 DEF Call, Allocate
<1>3. ASSUME NEW r \in Runs, Return(r) PROVE ManifestInv'
  BY <1>3 DEF Return
<1>4. ASSUME NEW r \in Runs, Quit(r) PROVE ManifestInv'
  BY <1>4 DEF Quit
<1>5. ASSUME NEW r \in Runs, Finish(r) PROVE ManifestInv'
  BY <1>5 DEF Finish, Drained
<1>6. ASSUME NEW r \in Runs, Gate(r) PROVE ManifestInv'
  BY <1>6 DEF Gate
<1>7. ASSUME NEW r \in Runs, Publish(r) PROVE ManifestInv'
  BY <1>7 DEF Publish
<1>8. ASSUME NEW r \in Runs, Record(r) PROVE ManifestInv'
  BY <1>8 DEF Record
<1>9. ASSUME NEW r \in Runs, Answer(r) PROVE ManifestInv'
  BY <1>9 DEF Answer
<1>10. ASSUME NEW r \in Runs, Drop(r) PROVE ManifestInv'
  BY <1>10 DEF Drop
<1>11. ASSUME NEW r \in Runs, Crash(r) PROVE ManifestInv'
  BY <1>11 DEF Crash
<1>12. CASE Scan
  BY <1>12 DEF Scan
<1>13. CASE Visit
  BY <1>13 DEF Visit
<1>14. CASE Resolve
  BY <1>14 DEF Resolve
<1>15. CASE Complete
  BY <1>15 DEF Complete, Missing
<1>16. CASE Reply
  BY <1>16 DEF Reply
<1>17. CASE UNCHANGED vars
  BY <1>17 DEF vars
<1> QED
  BY <1>1, <1>2, <1>3, <1>4, <1>5, <1>6, <1>7, <1>8, <1>9, <1>10,
     <1>11, <1>12, <1>13, <1>14, <1>15, <1>16, <1>17
     DEF Next, TreeNext, HostStep, ViewNext

\* An enumeration only ever selects published Runs, and misses no older one.
LEMMA ViewStep ==
  ASSUME IInv, [Next]_vars
  PROVE  ViewInv'
<1> USE NoRunAssumption, MaxCrashesAssumption DEF IInv, TypeOK, DiskInv, ManifestInv, ViewInv
<1>1. ASSUME NEW r \in Runs, Root(r) PROVE ViewInv'
  BY <1>1 DEF Root, Allocate
<1>2. ASSUME NEW r \in Runs, Call(r) PROVE ViewInv'
  BY <1>2 DEF Call, Allocate
<1>3. ASSUME NEW r \in Runs, Return(r) PROVE ViewInv'
  BY <1>3 DEF Return
<1>4. ASSUME NEW r \in Runs, Quit(r) PROVE ViewInv'
  BY <1>4 DEF Quit
<1>5. ASSUME NEW r \in Runs, Finish(r) PROVE ViewInv'
  BY <1>5 DEF Finish, Drained
<1>6. ASSUME NEW r \in Runs, Gate(r) PROVE ViewInv'
  BY <1>6 DEF Gate
<1>7. ASSUME NEW r \in Runs, Publish(r) PROVE ViewInv'
  BY <1>7 DEF Publish
<1>8. ASSUME NEW r \in Runs, Record(r) PROVE ViewInv'
  BY <1>8 DEF Record
<1>9. ASSUME NEW r \in Runs, Answer(r) PROVE ViewInv'
  BY <1>9 DEF Answer
<1>10. ASSUME NEW r \in Runs, Drop(r) PROVE ViewInv'
  BY <1>10 DEF Drop
<1>11. ASSUME NEW r \in Runs, Crash(r) PROVE ViewInv'
  BY <1>11 DEF Crash
<1>12. CASE Scan
  BY <1>12 DEF Scan
<1>13. CASE Visit
  BY <1>13 DEF Visit
<1>14. CASE Resolve
  BY <1>14 DEF Resolve
<1>15. CASE Complete
  <2>1. \A r \in view : manifest[r] \subseteq Published
    OBVIOUS
  <2>2. CASE Missing = {} /\ look' = "done" /\ UNCHANGED view
    <3>1. \A r \in view : manifest[r] \subseteq view
      BY <2>1, <2>2 DEF Missing
    <3> QED
      BY <1>15, <2>2, <3>1 DEF Complete
  <2>3. ASSUME NEW c \in Missing PROVE c \in Published
    BY <2>1 DEF Missing
  <2>4. ASSUME NEW c \in Missing, view' = view \cup {c}, UNCHANGED look PROVE ViewInv'
    BY <1>15, <2>3, <2>4 DEF Complete
  <2> QED
    BY <1>15, <2>2, <2>3, <2>4 DEF Complete
<1>16. CASE Reply
  BY <1>16 DEF Reply
<1>17. CASE UNCHANGED vars
  BY <1>17 DEF vars
<1> QED
  BY <1>1, <1>2, <1>3, <1>4, <1>5, <1>6, <1>7, <1>8, <1>9, <1>10,
     <1>11, <1>12, <1>13, <1>14, <1>15, <1>16, <1>17
     DEF Next, TreeNext, HostStep, ViewNext

\* The invariant holds in every reachable state.
THEOREM Inductive == Spec => []IInv
<1>1. Init => IInv
  BY MaxCrashesAssumption
     DEF Init, IInv, TypeOK, DiskInv, TreeInv, DrainInv, LedgerInv, ManifestInv, ViewInv
<1>2. IInv /\ [Next]_vars => IInv'
  BY TypeStep, DiskStep, TreeStep, DrainStep, LedgerStep, ManifestStep, ViewStep DEF IInv
<1> QED
  BY <1>1, <1>2, PTL DEF Spec

-----------------------------------------------------------------------------
(* The properties of NestedRuns. *)

\* The state is always well typed.
THEOREM TypeCorrect == Spec => []TypeOK
<1>1. IInv => TypeOK
  BY DEF IInv
<1> QED
  BY <1>1, Inductive, PTL

\* A published manifest lists the published children of its Run, no more and
\* no fewer, whichever of them failed, and whichever process died.
THEOREM ManifestsAreExact == Spec => []ManifestIsExact
<1>1. IInv => ManifestIsExact
  BY DEF IInv, ManifestInv, ManifestIsExact
<1> QED
  BY <1>1, Inductive, PTL

\* Reading the directory while Runs are published never looks like corruption.
\* An enumeration returns the children of every Run that it returns, misses no
\* Run that was published when it began, returns none that is not, and can be
\* laid out as a forest.
THEOREM EnumerationsAreSound == Spec => []EnumerationIsSound
<1>1. IInv => NeverSeenCorrupted /\ ViewIsClosed /\ ViewIsComplete
  BY DEF IInv, ViewInv, NeverSeenCorrupted, ViewIsClosed, ViewIsComplete
<1>2. IInv => ViewIsForest
  <2> SUFFICES ASSUME IInv, look = "done", NEW r \in view, NEW s \in view
               PROVE  /\ r # s => manifest[r] \cap manifest[s] = {}
                      /\ s \in manifest[r] => chain[r] \subseteq chain[s] /\ chain[r] # chain[s]
    BY DEF ViewIsForest
  <2>1. r \in Runs /\ s \in Runs /\ r # NoRun
    BY NoRunAssumption DEF IInv, TypeOK
  <2>2. manifest[r] \subseteq Children(r) /\ manifest[s] \subseteq Children(s)
    BY <2>1 DEF IInv, ManifestInv, ViewInv
  <2> QED
    BY <2>1, <2>2 DEF IInv, TreeInv
<1> QED
  BY <1>1, <1>2, Inductive, PTL DEF EnumerationIsSound

\* No step takes a published Run away: not the failure of the Run that called
\* it, and not the death of its process.
THEOREM PublishedRunsStay == Spec => PublishedStays
<1> DEFINE Stays == \A r \in Runs : disk[r] = "published" => disk'[r] = "published"
<1>1. IInv /\ [Next]_vars => [Stays]_vars
  <2> SUFFICES ASSUME IInv, Next PROVE Stays
    BY DEF vars
  <2> USE DEF IInv, TypeOK, DiskInv
  <2>1. ASSUME NEW r \in Runs, Root(r) \/ Call(r) PROVE Stays
    BY <2>1 DEF Root, Call, Allocate
  <2>2. ASSUME NEW r \in Runs, Return(r) \/ Quit(r) \/ Finish(r) \/ Gate(r) PROVE Stays
    BY <2>2 DEF Return, Quit, Finish, Gate
  <2>3. ASSUME NEW r \in Runs, Publish(r) PROVE Stays
    BY <2>3 DEF Publish
  <2>4. ASSUME NEW r \in Runs, Record(r) \/ Answer(r) \/ Crash(r) PROVE Stays
    BY <2>4 DEF Record, Answer, Crash
  <2>5. ASSUME NEW r \in Runs, Drop(r) PROVE Stays
    BY <2>5 DEF Drop
  <2>6. CASE ViewNext
    BY <2>6 DEF ViewNext, Scan, Visit, Resolve, Complete, Reply
  <2> QED
    BY <2>1, <2>2, <2>3, <2>4, <2>5, <2>6 DEF Next, TreeNext, HostStep
<1> QED
  BY <1>1, Inductive, PTL DEF Spec, PublishedStays
-----------------------------------------------------------------------------
(* Lines of calls.  NeverInsideItself speaks of lines of any length, so its  *)
(* induction goes along the calls and not along a line: the Run that calls   *)
(* is the end of its line, and so the chain it checks holds the whole line.  *)

\* The end of a line of calls: none of its Runs was called by it.
IsLast(r, line) == r \in line /\ \A c \in line : parent[c] # r

\* A line ends in one Run at most, which has all targets of the line in its
\* chain; a Run that is not in use is alone in its lines.
LineInv ==
  /\ \A r \in Runs : IF stage[r] = "unused" THEN chain[r] = {} ELSE target[r] \in chain[r]
  /\ \A line \in SUBSET Runs : IsLine(line) =>
       \A r \in line : IsLast(r, line) =>
         /\ \A c \in line : IsLast(c, line) => c = r
         /\ \A c \in line \ {r} : target[c] \in chain[r]
  /\ NeverInsideItself

\* Lines stay what they are as long as no Run is allocated.
LEMMA LineSame ==
  ASSUME LineInv, UNCHANGED tree,
         \A r \in Runs : stage'[r] = "unused" <=> stage[r] = "unused"
  PROVE  LineInv'
<1>1. \A line \in SUBSET Runs : IsLine(line)' <=> IsLine(line)
  BY DEF IsLine
<1>2. \A line \in SUBSET Runs : \A r \in line : IsLast(r, line)' <=> IsLast(r, line)
  BY DEF IsLast
<1>3. NeverInsideItself'
  BY <1>1 DEF LineInv, NeverInsideItself
<1> QED
  BY <1>1, <1>2, <1>3 DEF LineInv

\* A line without the Run that is allocated was a line before.
LEMMA LineBefore ==
  ASSUME IInv, NEW c \in Runs, stage[c] = "unused",
         NEW p \in Runs \cup {NoRun}, parent' = [parent EXCEPT ![c] = p], p # c,
         NEW line \in SUBSET Runs, IsLine(line)'
  PROVE  IsLine(line \ {c})
<1> USE NoRunAssumption DEF IInv, TypeOK
<1>1. \A r \in line \ {c} : parent'[r] = parent[r]
  OBVIOUS
<1>2. \A r \in Runs : parent[r] # c
  BY DEF TreeInv
<1> QED
  BY <1>1, <1>2 DEF IsLine

\* A new root is alone in its lines, and a new child ends the line of its
\* parent, whose chain its target is not in.
LEMMA LineStep ==
  ASSUME IInv, LineInv, [Next]_vars
  PROVE  LineInv'
<1> USE NoRunAssumption, MaxCrashesAssumption DEF IInv, TypeOK
<1>1. ASSUME NEW c \in Runs, Root(c) PROVE LineInv'
  <2>1. PICK t \in Targets : Allocate(c, NoRun, c, t, {})
    BY <1>1 DEF Root
  <2>2. /\ stage[c] = "unused" /\ stage' = [stage EXCEPT ![c] = "running"]
        /\ parent' = [parent EXCEPT ![c] = NoRun] /\ parent[c] = NoRun
        /\ target' = [target EXCEPT ![c] = t] /\ chain' = [chain EXCEPT ![c] = {} \cup {t}]
    BY <2>1 DEF Allocate, TreeInv
  <2>3. parent' = parent
    BY <2>2
  <2>4. /\ \A line \in SUBSET Runs : IsLine(line)' <=> IsLine(line)
        /\ \A line \in SUBSET Runs : \A r \in line : IsLast(r, line)' <=> IsLast(r, line)
    BY <2>3 DEF IsLine, IsLast
  <2>5. ASSUME NEW line \in SUBSET Runs, IsLine(line), c \in line PROVE line = {c}
    <3>1. IsLast(c, line)
      <4>1. \A e \in Runs : parent[e] # c
        BY <2>2 DEF TreeInv
      <4> QED
        BY <2>5, <4>1 DEF IsLast
    <3>2. chain[c] = {}
      BY <2>2 DEF LineInv
    <3> QED
      BY <2>5, <3>1, <3>2 DEF LineInv
  <2>6. \A r \in Runs \ {c} : /\ target'[r] = target[r] /\ chain'[r] = chain[r]
                             /\ stage'[r] = stage[r]
    BY <2>2
  <2>7. target'[c] = t /\ chain'[c] = {t} /\ stage'[c] = "running"
    BY <2>2
  <2>8. \A r \in Runs : IF stage'[r] = "unused" THEN chain'[r] = {} ELSE target'[r] \in chain'[r]
    BY <2>6, <2>7 DEF LineInv
  <2>9. ASSUME NEW line \in SUBSET Runs, IsLine(line)', NEW r \in line, IsLast(r, line)'
        PROVE  /\ \A e \in line : IsLast(e, line)' => e = r
               /\ \A e \in line \ {r} : target'[e] \in chain'[r]
    <3>1. CASE c \in line
      BY <2>4, <2>5, <2>9, <3>1
    <3>2. CASE c \notin line
      BY <2>4, <2>6, <2>9, <3>2 DEF LineInv
    <3> QED
      BY <3>1, <3>2
  <2>10. NeverInsideItself'
    <3> SUFFICES ASSUME NEW line \in SUBSET Runs, IsLine(line)',
                        NEW r \in line, NEW e \in line, target'[r] = target'[e]
                 PROVE  r = e
      BY DEF NeverInsideItself
    <3>1. CASE c \in line
      BY <2>4, <2>5, <3>1
    <3>2. CASE c \notin line
      BY <2>4, <2>6, <3>2 DEF LineInv, NeverInsideItself
    <3> QED
      BY <3>1, <3>2
  <2> QED
    BY <2>8, <2>9, <2>10 DEF LineInv
<1>2. ASSUME NEW r \in Runs, Call(r) PROVE LineInv'
  <2>1. PICK c \in Runs, t \in Targets \ chain[r] :
          stage[r] = "running" /\ Allocate(c, r, host[r], t, chain[r])
    BY <1>2 DEF Call
  <2>2. /\ stage[c] = "unused" /\ c # r /\ stage' = [stage EXCEPT ![c] = "running"]
        /\ parent' = [parent EXCEPT ![c] = r]
        /\ target' = [target EXCEPT ![c] = t] /\ chain' = [chain EXCEPT ![c] = chain[r] \cup {t}]
    BY <2>1 DEF Allocate
  <2>3. \A e \in Runs \ {c} : /\ parent'[e] = parent[e] /\ target'[e] = target[e]
                             /\ chain'[e] = chain[e] /\ stage'[e] = stage[e]
    BY <2>2
  <2>4. /\ parent'[c] = r /\ target'[c] = t /\ chain'[c] = chain[r] \cup {t}
        /\ stage'[c] = "running"
    BY <2>2
  <2>5. \A e \in Runs : parent[e] # c /\ parent'[e] # c
    BY <2>2, <2>3, <2>4 DEF TreeInv
  <2>6. target[r] \in chain[r]
    BY <2>1 DEF LineInv
  <2>7. ASSUME NEW line \in SUBSET Runs, IsLine(line)' PROVE IsLine(line \ {c})
    BY <2>2, <2>7, LineBefore
  <2>8. ASSUME NEW line \in SUBSET Runs, IsLine(line)', c \in line
        PROVE  /\ r \in line \ {c} /\ IsLast(r, line \ {c})
               /\ \A e \in line \ {c} : target[e] \in chain[r]
               /\ \A e \in line : IsLast(e, line)' => e = c
    <3>1. r \in line \ {c}
      BY <2>2, <2>4, <2>8 DEF IsLine
    <3>2. \A e \in line \ {c} : parent'[e] # r
      BY <2>4, <2>8 DEF IsLine
    <3>3. IsLast(r, line \ {c})
      BY <2>3, <3>1, <3>2 DEF IsLast
    <3>4. \A e \in (line \ {c}) \ {r} : target[e] \in chain[r]
      BY <2>7, <2>8, <3>1, <3>3 DEF LineInv
    <3>5. ASSUME NEW e \in line, IsLast(e, line)', e # c PROVE FALSE
      <4>1. IsLast(e, line \ {c})
        BY <2>3, <3>5 DEF IsLast
      <4>2. e = r
        BY <2>7, <2>8, <3>1, <3>3, <3>5, <4>1 DEF LineInv
      <4> QED
        BY <2>4, <2>8, <3>5, <4>2 DEF IsLast
    <3> QED
      BY <2>6, <3>1, <3>3, <3>4, <3>5
  <2>9. \A e \in Runs : IF stage'[e] = "unused" THEN chain'[e] = {} ELSE target'[e] \in chain'[e]
    BY <2>3, <2>4 DEF LineInv
  <2>10. ASSUME NEW line \in SUBSET Runs, IsLine(line)', NEW d \in line, IsLast(d, line)'
         PROVE  /\ \A e \in line : IsLast(e, line)' => e = d
                /\ \A e \in line \ {d} : target'[e] \in chain'[d]
    <3>1. CASE c \in line
      <4>1. d = c
        BY <2>8, <2>10, <3>1
      <4>2. \A e \in line \ {c} : target'[e] \in chain'[c]
        BY <2>3, <2>4, <2>8, <2>10, <3>1
      <4> QED
        BY <2>8, <2>10, <3>1, <4>1, <4>2
    <3>2. CASE c \notin line
      <4>1. line \ {c} = line
        BY <3>2
      <4>2. IsLine(line)
        BY <2>7, <2>10, <4>1
      <4>3. \A e \in line : IsLast(e, line)' <=> IsLast(e, line)
        BY <2>3, <3>2 DEF IsLast
      <4> QED
        BY <2>3, <2>10, <3>2, <4>2, <4>3 DEF LineInv
    <3> QED
      BY <3>1, <3>2
  <2>11. NeverInsideItself'
    <3> SUFFICES ASSUME NEW line \in SUBSET Runs, IsLine(line)',
                        NEW d \in line, NEW e \in line, target'[d] = target'[e]
                 PROVE  d = e
      BY DEF NeverInsideItself
    <3>1. CASE d # c /\ e # c
      <4>1. d \in line \ {c} /\ e \in line \ {c} /\ target[d] = target[e]
        BY <2>3, <3>1
      <4> QED
        BY <2>7, <4>1 DEF LineInv, NeverInsideItself
    <3>2. ASSUME c \in line, NEW f \in line \ {c} PROVE target'[f] # target'[c]
      <4>1. target[f] \in chain[r]
        BY <2>8, <3>2
      <4>2. target'[f] = target[f] /\ target'[c] = t
        BY <2>3, <2>4, <3>2
      <4> QED
        BY <2>1, <4>1, <4>2
    <3> QED
      BY <3>1, <3>2
  <2> QED
    BY <2>9, <2>10, <2>11 DEF LineInv
<1>3. ASSUME NEW r \in Runs, Return(r) \/ Quit(r) \/ HostStep(r) \/ Crash(r) PROVE LineInv'
  <2>1. UNCHANGED tree
    BY <1>3 DEF Return, Quit, HostStep, Finish, Gate, Publish, Record, Answer, Drop, Crash
  <2>2. \A e \in Runs : stage'[e] = "unused" <=> stage[e] = "unused"
    <3>1. CASE Return(r) \/ Quit(r)
      BY <3>1 DEF Return, Quit
    <3>2. CASE Finish(r) \/ Gate(r) \/ Publish(r)
      BY <3>2 DEF Finish, Gate, Publish
    <3>3. CASE Record(r) \/ Answer(r) \/ Drop(r)
      BY <3>3 DEF Record, Answer, Drop
    <3>4. CASE Crash(r)
      BY <3>4 DEF Crash
    <3> QED
      BY <1>3, <3>1, <3>2, <3>3, <3>4 DEF HostStep
  <2> QED
    BY <2>1, <2>2, LineSame
<1>4. CASE ViewNext \/ UNCHANGED vars
  <2>1. UNCHANGED tree /\ UNCHANGED stage
    BY <1>4 DEF ViewNext, Scan, Visit, Resolve, Complete, Reply, vars
  <2> QED
    BY <2>1, LineSame
<1> QED
  BY <1>1, <1>2, <1>3, <1>4 DEF Next, TreeNext

\* However long a line of calls becomes, no Workflow occurs in it twice: the
\* refusal of the targets of the active chain is enough, for the chain of the
\* Run that calls holds all of its line.
THEOREM NoRecursion == Spec => []NeverInsideItself
<1>1. Init => LineInv
  <2>1. ASSUME Init, NEW line \in SUBSET Runs, IsLine(line), NEW r \in line, NEW c \in line
        PROVE  r = c
    BY <2>1 DEF Init, IsLine
  <2> QED
    BY <2>1 DEF Init, LineInv, NeverInsideItself
<1>2. IInv /\ LineInv /\ [Next]_vars => LineInv'
  BY LineStep
<1>3. LineInv => NeverInsideItself
  BY DEF LineInv
<1> QED
  BY <1>1, <1>2, <1>3, Inductive, PTL DEF Spec
=============================================================================
