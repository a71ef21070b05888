------------------------- MODULE SessionStoreProofs -------------------------
(***************************************************************************)
(* Proofs about SessionStore, for any number of processes, Runs and faults *)
(***************************************************************************)
EXTENDS SessionStore, TLAPS

SharedPC == {"newRoot", "newLayout", "newMarker", "openValidate"} \cup UsePC
ExclusivePC == {"deleteCheck", "deleteValidate", "deleteRename", "deleteTree"}

\* A process holds the lock its next step relies on, and exclusive is exclusive.
LockInv ==
  \A p \in Procs :
    /\ lock[p] = "shared" <=> pc[p] \in SharedPC
    /\ lock[p] = "exclusive" <=> pc[p] \in ExclusivePC
    /\ lock[p] = "exclusive" => \A q \in Procs \ {p} : lock[q] = "none"

\* Only Creator creates, and how far the tree is tells where it stands.
CreateInv ==
  /\ \A p \in Procs \ {Creator} : pc[p] \notin CreatePC \cup UndoPC
  /\ pc[Creator] \in {"newLease", "newLock", "newRoot"} => session = "absent"
  /\ pc[Creator] = "newLayout" => session = "bare"
  /\ pc[Creator] = "newMarker" => session = "laid"
  /\ pc[Creator] \in UndoPC => session # "marked"
  /\ pc[Creator] \in CreatePC => \A r \in Runs : runs[r] = "unused"
  /\ pc[Creator] \in CreatePC \ {"newLease"} => leaseFile = "present"
  /\ pc[Creator] \in CreatePC \cup UndoPC =>
       tombstone = "absent" /\ \A p \in Procs : pc[p] # "deleted"

\* Where the tree is while it is used and while it is deleted.
TreeInv ==
  /\ session # "absent" => tombstone = "absent"
  /\ \A p \in Procs :
       /\ pc[p] = "deleteValidate" => tombstone = "absent"
       /\ pc[p] = "deleteRename" => session = "marked"
       /\ pc[p] = "deleteTree" => session = "absent" /\ tombstone = "present"

\* What is on disk for the Run a process has allocated.
RunInv ==
  /\ \A r \in Runs : runs[r] = "unused" => scratch[r] = "none"
  /\ \A r \in Runs : runs[r] = "premature" => r \in forged
  /\ \A p \in Procs : pc[p] \in OwnPC =>
       /\ run[p] \in Runs
       /\ runs[run[p]] \in {"candidate", "premature"}
       /\ \A q \in Procs \ {p} : pc[q] \in OwnPC => run[q] # run[p]
       /\ pc[p] \in {"allocScratch", "gate", "publish"} => scratch[run[p]] = "none"
       /\ pc[p] = "dropCandidate" => scratch[run[p]] = "none" \/ run[p] \in leaked

IInv ==
  /\ TypeOK /\ LockInv /\ CreateInv /\ TreeInv /\ RunInv
  /\ SessionInUseStays /\ TargetRunIsPublished /\ PublishedRunHasNoScratch
  /\ LeftoversAreAccounted /\ LeaseFileOutlivesSession /\ DeletedIsGone

\* IInv in three groups, each preserved with the help of those before it.
TreeGroup == CreateInv /\ TreeInv /\ SessionInUseStays /\ LeaseFileOutlivesSession
RunGroup == RunInv /\ TargetRunIsPublished /\ PublishedRunHasNoScratch /\ LeftoversAreAccounted

-----------------------------------------------------------------------------
(* IInv is inductive.  The label sets and the small helpers are expanded     *)
(* everywhere; each leaf names the action it is about.                       *)

USE DEF CreatePC, UndoPC, OpenPC, OwnPC, ReadPC, ReportPC, UsePC, DeletePC, AnswerPC, PC,
        SharedPC, ExclusivePC, Step, Lock, Unlock, Fault, Tree, Files

\* Every step of every command, and a crash, leaves the state well typed.
LEMMA TypeStep ==
  ASSUME IInv, [Next]_vars
  PROVE  TypeOK'
<1> USE MaxFaultsAssumption DEF IInv, TypeOK, RunInv
<1>1. ASSUME NEW p \in Procs, NewLease(p) PROVE TypeOK'
  BY <1>1 DEF NewLease
<1>2. ASSUME NEW p \in Procs, NewLock(p) PROVE TypeOK'
  BY <1>2 DEF NewLock
<1>3. ASSUME NEW p \in Procs, NewRoot(p) PROVE TypeOK'
  BY <1>3 DEF NewRoot
<1>4. ASSUME NEW p \in Procs, NewLayout(p) PROVE TypeOK'
  BY <1>4 DEF NewLayout
<1>5. ASSUME NEW p \in Procs, NewMarker(p) PROVE TypeOK'
  BY <1>5 DEF NewMarker
<1>6. ASSUME NEW p \in Procs, UndoRoot(p) PROVE TypeOK'
  BY <1>6 DEF UndoRoot
<1>7. ASSUME NEW p \in Procs, UndoLease(p) PROVE TypeOK'
  BY <1>7 DEF UndoLease
<1>8. ASSUME NEW p \in Procs, OpenLease(p) PROVE TypeOK'
  BY <1>8 DEF OpenLease
<1>9. ASSUME NEW p \in Procs, OpenMissing(p) PROVE TypeOK'
  BY <1>9 DEF OpenMissing
<1>10. ASSUME NEW p \in Procs, OpenLock(p) PROVE TypeOK'
  BY <1>10 DEF OpenLock
<1>11. ASSUME NEW p \in Procs, OpenValidate(p) PROVE TypeOK'
  BY <1>11 DEF OpenValidate, Validation
<1>12. ASSUME NEW p \in Procs, ResolveRun(p) PROVE TypeOK'
  BY <1>12 DEF ResolveRun
<1>13. ASSUME NEW p \in Procs, ReadRun(p) PROVE TypeOK'
  BY <1>13 DEF ReadRun
<1>14. ASSUME NEW p \in Procs, Report(p) PROVE TypeOK'
  BY <1>14 DEF Report
<1>15. ASSUME NEW p \in Procs, Release(p) PROVE TypeOK'
  BY <1>15 DEF Release
<1>16. ASSUME NEW p \in Procs, AllocCandidate(p) PROVE TypeOK'
  BY <1>16 DEF AllocCandidate
<1>17. ASSUME NEW p \in Procs, AllocScratch(p) PROVE TypeOK'
  BY <1>17 DEF AllocScratch
<1>18. ASSUME NEW p \in Procs, Execute(p) PROVE TypeOK'
  BY <1>18 DEF Execute
<1>19. ASSUME NEW p \in Procs, FinishScratch(p) PROVE TypeOK'
  BY <1>19 DEF FinishScratch
<1>20. ASSUME NEW p \in Procs, Gate(p) PROVE TypeOK'
  BY <1>20 DEF Gate
<1>21. ASSUME NEW p \in Procs, Publish(p) PROVE TypeOK'
  BY <1>21 DEF Publish
<1>22. ASSUME NEW p \in Procs, DropScratch(p) PROVE TypeOK'
  BY <1>22 DEF DropScratch
<1>23. ASSUME NEW p \in Procs, DropCandidate(p) PROVE TypeOK'
  BY <1>23 DEF DropCandidate
<1>24. ASSUME NEW p \in Procs, DeleteLease(p) PROVE TypeOK'
  BY <1>24 DEF DeleteLease
<1>25. ASSUME NEW p \in Procs, DeleteMissing(p) PROVE TypeOK'
  BY <1>25 DEF DeleteMissing
<1>26. ASSUME NEW p \in Procs, DeleteLock(p) PROVE TypeOK'
  BY <1>26 DEF DeleteLock
<1>27. ASSUME NEW p \in Procs, DeleteCheck(p) PROVE TypeOK'
  BY <1>27 DEF DeleteCheck
<1>28. ASSUME NEW p \in Procs, DeleteValidate(p) PROVE TypeOK'
  BY <1>28 DEF DeleteValidate, Validation
<1>29. ASSUME NEW p \in Procs, DeleteRename(p) PROVE TypeOK'
  BY <1>29 DEF DeleteRename
<1>30. ASSUME NEW p \in Procs, DeleteEntry(p) PROVE TypeOK'
  BY <1>30 DEF DeleteEntry
<1>31. ASSUME NEW p \in Procs, DeleteTree(p) PROVE TypeOK'
  BY <1>31 DEF DeleteTree
<1>32. ASSUME NEW p \in Procs, Exit(p) PROVE TypeOK'
  BY <1>32 DEF Exit
<1>33. ASSUME NEW p \in Procs, Crash(p) PROVE TypeOK'
  BY <1>33 DEF Crash
<1>34. CASE UNCHANGED vars
  BY <1>34 DEF vars, Present
<1> QED
  BY <1>1, <1>2, <1>3, <1>4, <1>5, <1>6, <1>7, <1>8, <1>9, <1>10, <1>11, <1>12, <1>13, <1>14,
     <1>15, <1>16, <1>17, <1>18, <1>19, <1>20, <1>21, <1>22, <1>23, <1>24, <1>25, <1>26, <1>27, <1>28,
     <1>29, <1>30, <1>31, <1>32, <1>33, <1>34
     DEF Next, Act, Create, Open, Read, RunWorkflow, Delete

\* No step breaks the discipline of the lease: who must hold a lock holds it.
LEMMA LockStep ==
  ASSUME IInv, [Next]_vars
  PROVE  LockInv'
<1> USE MaxFaultsAssumption DEF IInv, TypeOK, LockInv, RunInv
<1>1. ASSUME NEW p \in Procs, NewLease(p) PROVE LockInv'
  BY <1>1 DEF NewLease
<1>2. ASSUME NEW p \in Procs, NewLock(p) PROVE LockInv'
  BY <1>2 DEF NewLock, CanShare
<1>3. ASSUME NEW p \in Procs, NewRoot(p) PROVE LockInv'
  BY <1>3 DEF NewRoot
<1>4. ASSUME NEW p \in Procs, NewLayout(p) PROVE LockInv'
  BY <1>4 DEF NewLayout
<1>5. ASSUME NEW p \in Procs, NewMarker(p) PROVE LockInv'
  BY <1>5 DEF NewMarker
<1>6. ASSUME NEW p \in Procs, UndoRoot(p) PROVE LockInv'
  BY <1>6 DEF UndoRoot
<1>7. ASSUME NEW p \in Procs, UndoLease(p) PROVE LockInv'
  BY <1>7 DEF UndoLease
<1>8. ASSUME NEW p \in Procs, OpenLease(p) PROVE LockInv'
  BY <1>8 DEF OpenLease
<1>9. ASSUME NEW p \in Procs, OpenMissing(p) PROVE LockInv'
  BY <1>9 DEF OpenMissing
<1>10. ASSUME NEW p \in Procs, OpenLock(p) PROVE LockInv'
  BY <1>10 DEF OpenLock, CanShare
<1>11. ASSUME NEW p \in Procs, OpenValidate(p) PROVE LockInv'
  BY <1>11 DEF OpenValidate, Validation
<1>12. ASSUME NEW p \in Procs, ResolveRun(p) PROVE LockInv'
  BY <1>12 DEF ResolveRun
<1>13. ASSUME NEW p \in Procs, ReadRun(p) PROVE LockInv'
  BY <1>13 DEF ReadRun
<1>14. ASSUME NEW p \in Procs, Report(p) PROVE LockInv'
  BY <1>14 DEF Report
<1>15. ASSUME NEW p \in Procs, Release(p) PROVE LockInv'
  BY <1>15 DEF Release
<1>16. ASSUME NEW p \in Procs, AllocCandidate(p) PROVE LockInv'
  BY <1>16 DEF AllocCandidate
<1>17. ASSUME NEW p \in Procs, AllocScratch(p) PROVE LockInv'
  BY <1>17 DEF AllocScratch
<1>18. ASSUME NEW p \in Procs, Execute(p) PROVE LockInv'
  BY <1>18 DEF Execute
<1>19. ASSUME NEW p \in Procs, FinishScratch(p) PROVE LockInv'
  BY <1>19 DEF FinishScratch
<1>20. ASSUME NEW p \in Procs, Gate(p) PROVE LockInv'
  BY <1>20 DEF Gate
<1>21. ASSUME NEW p \in Procs, Publish(p) PROVE LockInv'
  BY <1>21 DEF Publish
<1>22. ASSUME NEW p \in Procs, DropScratch(p) PROVE LockInv'
  BY <1>22 DEF DropScratch
<1>23. ASSUME NEW p \in Procs, DropCandidate(p) PROVE LockInv'
  BY <1>23 DEF DropCandidate
<1>24. ASSUME NEW p \in Procs, DeleteLease(p) PROVE LockInv'
  BY <1>24 DEF DeleteLease
<1>25. ASSUME NEW p \in Procs, DeleteMissing(p) PROVE LockInv'
  BY <1>25 DEF DeleteMissing
<1>26. ASSUME NEW p \in Procs, DeleteLock(p) PROVE LockInv'
  BY <1>26 DEF DeleteLock, CanExclude
<1>27. ASSUME NEW p \in Procs, DeleteCheck(p) PROVE LockInv'
  BY <1>27 DEF DeleteCheck
<1>28. ASSUME NEW p \in Procs, DeleteValidate(p) PROVE LockInv'
  BY <1>28 DEF DeleteValidate, Validation
<1>29. ASSUME NEW p \in Procs, DeleteRename(p) PROVE LockInv'
  BY <1>29 DEF DeleteRename
<1>30. ASSUME NEW p \in Procs, DeleteEntry(p) PROVE LockInv'
  BY <1>30 DEF DeleteEntry
<1>31. ASSUME NEW p \in Procs, DeleteTree(p) PROVE LockInv'
  BY <1>31 DEF DeleteTree
<1>32. ASSUME NEW p \in Procs, Exit(p) PROVE LockInv'
  BY <1>32 DEF Exit
<1>33. ASSUME NEW p \in Procs, Crash(p) PROVE LockInv'
  BY <1>33 DEF Crash
<1>34. CASE UNCHANGED vars
  BY <1>34 DEF vars, Present
<1> QED
  BY <1>1, <1>2, <1>3, <1>4, <1>5, <1>6, <1>7, <1>8, <1>9, <1>10, <1>11, <1>12, <1>13, <1>14,
     <1>15, <1>16, <1>17, <1>18, <1>19, <1>20, <1>21, <1>22, <1>23, <1>24, <1>25, <1>26, <1>27, <1>28,
     <1>29, <1>30, <1>31, <1>32, <1>33, <1>34
     DEF Next, Act, Create, Open, Read, RunWorkflow, Delete

\* No step moves or removes the Session tree while a command uses it, or
\* removes the lease file of a published Session.
LEMMA TreeStep ==
  ASSUME IInv, [Next]_vars
  PROVE  TreeGroup'
<1> USE MaxFaultsAssumption, CreatorAssumption DEF IInv, TypeOK, LockInv, TreeGroup, CreateInv, TreeInv,
       SessionInUseStays, LeaseFileOutlivesSession
<1>1. ASSUME NEW p \in Procs, NewLease(p) PROVE TreeGroup'
  BY <1>1 DEF NewLease
<1>2. ASSUME NEW p \in Procs, NewLock(p) PROVE TreeGroup'
  BY <1>2 DEF NewLock
<1>3. ASSUME NEW p \in Procs, NewRoot(p) PROVE TreeGroup'
  BY <1>3 DEF NewRoot
<1>4. ASSUME NEW p \in Procs, NewLayout(p) PROVE TreeGroup'
  BY <1>4 DEF NewLayout
<1>5. ASSUME NEW p \in Procs, NewMarker(p) PROVE TreeGroup'
  BY <1>5 DEF NewMarker
<1>6. ASSUME NEW p \in Procs, UndoRoot(p) PROVE TreeGroup'
  BY <1>6 DEF UndoRoot
<1>7. ASSUME NEW p \in Procs, UndoLease(p) PROVE TreeGroup'
  BY <1>7 DEF UndoLease
<1>8. ASSUME NEW p \in Procs, OpenLease(p) PROVE TreeGroup'
  BY <1>8 DEF OpenLease
<1>9. ASSUME NEW p \in Procs, OpenMissing(p) PROVE TreeGroup'
  BY <1>9 DEF OpenMissing
<1>10. ASSUME NEW p \in Procs, OpenLock(p) PROVE TreeGroup'
  BY <1>10 DEF OpenLock
<1>11. ASSUME NEW p \in Procs, OpenValidate(p) PROVE TreeGroup'
  BY <1>11 DEF OpenValidate, Validation
<1>12. ASSUME NEW p \in Procs, ResolveRun(p) PROVE TreeGroup'
  BY <1>12 DEF ResolveRun
<1>13. ASSUME NEW p \in Procs, ReadRun(p) PROVE TreeGroup'
  BY <1>13 DEF ReadRun
<1>14. ASSUME NEW p \in Procs, Report(p) PROVE TreeGroup'
  BY <1>14 DEF Report
<1>15. ASSUME NEW p \in Procs, Release(p) PROVE TreeGroup'
  BY <1>15 DEF Release
<1>16. ASSUME NEW p \in Procs, AllocCandidate(p) PROVE TreeGroup'
  BY <1>16 DEF AllocCandidate
<1>17. ASSUME NEW p \in Procs, AllocScratch(p) PROVE TreeGroup'
  BY <1>17 DEF AllocScratch
<1>18. ASSUME NEW p \in Procs, Execute(p) PROVE TreeGroup'
  BY <1>18 DEF Execute
<1>19. ASSUME NEW p \in Procs, FinishScratch(p) PROVE TreeGroup'
  BY <1>19 DEF FinishScratch
<1>20. ASSUME NEW p \in Procs, Gate(p) PROVE TreeGroup'
  BY <1>20 DEF Gate
<1>21. ASSUME NEW p \in Procs, Publish(p) PROVE TreeGroup'
  BY <1>21 DEF Publish
<1>22. ASSUME NEW p \in Procs, DropScratch(p) PROVE TreeGroup'
  BY <1>22 DEF DropScratch
<1>23. ASSUME NEW p \in Procs, DropCandidate(p) PROVE TreeGroup'
  BY <1>23 DEF DropCandidate
<1>24. ASSUME NEW p \in Procs, DeleteLease(p) PROVE TreeGroup'
  BY <1>24 DEF DeleteLease
<1>25. ASSUME NEW p \in Procs, DeleteMissing(p) PROVE TreeGroup'
  BY <1>25 DEF DeleteMissing
<1>26. ASSUME NEW p \in Procs, DeleteLock(p) PROVE TreeGroup'
  BY <1>26 DEF DeleteLock
<1>27. ASSUME NEW p \in Procs, DeleteCheck(p) PROVE TreeGroup'
  BY <1>27 DEF DeleteCheck
<1>28. ASSUME NEW p \in Procs, DeleteValidate(p) PROVE TreeGroup'
  BY <1>28 DEF DeleteValidate, Validation
<1>29. ASSUME NEW p \in Procs, DeleteRename(p) PROVE TreeGroup'
  BY <1>29 DEF DeleteRename
<1>30. ASSUME NEW p \in Procs, DeleteEntry(p) PROVE TreeGroup'
  BY <1>30 DEF DeleteEntry
<1>31. ASSUME NEW p \in Procs, DeleteTree(p) PROVE TreeGroup'
  BY <1>31 DEF DeleteTree
<1>32. ASSUME NEW p \in Procs, Exit(p) PROVE TreeGroup'
  BY <1>32 DEF Exit
<1>33. ASSUME NEW p \in Procs, Crash(p) PROVE TreeGroup'
  BY <1>33 DEF Crash
<1>34. CASE UNCHANGED vars
  BY <1>34 DEF vars, Present
<1> QED
  BY <1>1, <1>2, <1>3, <1>4, <1>5, <1>6, <1>7, <1>8, <1>9, <1>10, <1>11, <1>12, <1>13, <1>14,
     <1>15, <1>16, <1>17, <1>18, <1>19, <1>20, <1>21, <1>22, <1>23, <1>24, <1>25, <1>26, <1>27, <1>28,
     <1>29, <1>30, <1>31, <1>32, <1>33, <1>34
     DEF Next, Act, Create, Open, Read, RunWorkflow, Delete

\* No step publishes a Run with a scratch directory, reads one that neither the
\* gate nor its Workflow has published, reports one that the gate has not, or
\* abandons an allocation without a crash or a failed call.
LEMMA RunStep ==
  ASSUME IInv, [Next]_vars
  PROVE  RunGroup'
<1> USE MaxFaultsAssumption, CreatorAssumption DEF IInv, TypeOK, LockInv, CreateInv, TreeInv, SessionInUseStays,
       RunGroup, RunInv, TargetRunIsPublished, PublishedRunHasNoScratch, LeftoversAreAccounted
<1>1. ASSUME NEW p \in Procs, NewLease(p) PROVE RunGroup'
  BY <1>1 DEF NewLease
<1>2. ASSUME NEW p \in Procs, NewLock(p) PROVE RunGroup'
  BY <1>2 DEF NewLock
<1>3. ASSUME NEW p \in Procs, NewRoot(p) PROVE RunGroup'
  BY <1>3 DEF NewRoot
<1>4. ASSUME NEW p \in Procs, NewLayout(p) PROVE RunGroup'
  BY <1>4 DEF NewLayout
<1>5. ASSUME NEW p \in Procs, NewMarker(p) PROVE RunGroup'
  BY <1>5 DEF NewMarker
<1>6. ASSUME NEW p \in Procs, UndoRoot(p) PROVE RunGroup'
  BY <1>6 DEF UndoRoot
<1>7. ASSUME NEW p \in Procs, UndoLease(p) PROVE RunGroup'
  BY <1>7 DEF UndoLease
<1>8. ASSUME NEW p \in Procs, OpenLease(p) PROVE RunGroup'
  BY <1>8 DEF OpenLease
<1>9. ASSUME NEW p \in Procs, OpenMissing(p) PROVE RunGroup'
  BY <1>9 DEF OpenMissing
<1>10. ASSUME NEW p \in Procs, OpenLock(p) PROVE RunGroup'
  BY <1>10 DEF OpenLock
<1>11. ASSUME NEW p \in Procs, OpenValidate(p) PROVE RunGroup'
  BY <1>11 DEF OpenValidate, Validation
<1>12. ASSUME NEW p \in Procs, ResolveRun(p) PROVE RunGroup'
  BY <1>12 DEF ResolveRun
<1>13. ASSUME NEW p \in Procs, ReadRun(p) PROVE RunGroup'
  BY <1>13 DEF ReadRun
<1>14. ASSUME NEW p \in Procs, Report(p) PROVE RunGroup'
  BY <1>14 DEF Report
<1>15. ASSUME NEW p \in Procs, Release(p) PROVE RunGroup'
  BY <1>15 DEF Release
<1>16. ASSUME NEW p \in Procs, AllocCandidate(p) PROVE RunGroup'
  BY <1>16 DEF AllocCandidate
<1>17. ASSUME NEW p \in Procs, AllocScratch(p) PROVE RunGroup'
  BY <1>17 DEF AllocScratch
<1>18. ASSUME NEW p \in Procs, Execute(p) PROVE RunGroup'
  BY <1>18 DEF Execute
<1>19. ASSUME NEW p \in Procs, FinishScratch(p) PROVE RunGroup'
  BY <1>19 DEF FinishScratch
<1>20. ASSUME NEW p \in Procs, Gate(p) PROVE RunGroup'
  BY <1>20 DEF Gate
<1>21. ASSUME NEW p \in Procs, Publish(p) PROVE RunGroup'
  BY <1>21 DEF Publish
<1>22. ASSUME NEW p \in Procs, DropScratch(p) PROVE RunGroup'
  BY <1>22 DEF DropScratch
<1>23. ASSUME NEW p \in Procs, DropCandidate(p) PROVE RunGroup'
  BY <1>23 DEF DropCandidate
<1>24. ASSUME NEW p \in Procs, DeleteLease(p) PROVE RunGroup'
  BY <1>24 DEF DeleteLease
<1>25. ASSUME NEW p \in Procs, DeleteMissing(p) PROVE RunGroup'
  BY <1>25 DEF DeleteMissing
<1>26. ASSUME NEW p \in Procs, DeleteLock(p) PROVE RunGroup'
  BY <1>26 DEF DeleteLock
<1>27. ASSUME NEW p \in Procs, DeleteCheck(p) PROVE RunGroup'
  BY <1>27 DEF DeleteCheck
<1>28. ASSUME NEW p \in Procs, DeleteValidate(p) PROVE RunGroup'
  BY <1>28 DEF DeleteValidate, Validation
<1>29. ASSUME NEW p \in Procs, DeleteRename(p) PROVE RunGroup'
  BY <1>29 DEF DeleteRename
<1>30. ASSUME NEW p \in Procs, DeleteEntry(p) PROVE RunGroup'
  BY <1>30 DEF DeleteEntry, Present
<1>31. ASSUME NEW p \in Procs, DeleteTree(p) PROVE RunGroup'
  BY <1>31 DEF DeleteTree
<1>32. ASSUME NEW p \in Procs, Exit(p) PROVE RunGroup'
  BY <1>32 DEF Exit
<1>33. ASSUME NEW p \in Procs, Crash(p) PROVE RunGroup'
  BY <1>33 DEF Crash
<1>34. CASE UNCHANGED vars
  BY <1>34 DEF vars, Present
<1> QED
  BY <1>1, <1>2, <1>3, <1>4, <1>5, <1>6, <1>7, <1>8, <1>9, <1>10, <1>11, <1>12, <1>13, <1>14,
     <1>15, <1>16, <1>17, <1>18, <1>19, <1>20, <1>21, <1>22, <1>23, <1>24, <1>25, <1>26, <1>27, <1>28,
     <1>29, <1>30, <1>31, <1>32, <1>33, <1>34
     DEF Next, Act, Create, Open, Read, RunWorkflow, Delete

\* A deletion answers with success only when nothing is left, and no later
\* step puts anything back.
LEMMA DeletedStep ==
  ASSUME IInv, [Next]_vars
  PROVE  DeletedIsGone'
<1> USE MaxFaultsAssumption, CreatorAssumption DEF IInv, TypeOK, LockInv, CreateInv, TreeInv, SessionInUseStays,
       RunInv, DeletedIsGone, Present
<1>1. ASSUME NEW p \in Procs, NewLease(p) PROVE DeletedIsGone'
  BY <1>1 DEF NewLease
<1>2. ASSUME NEW p \in Procs, NewLock(p) PROVE DeletedIsGone'
  BY <1>2 DEF NewLock
<1>3. ASSUME NEW p \in Procs, NewRoot(p) PROVE DeletedIsGone'
  BY <1>3 DEF NewRoot
<1>4. ASSUME NEW p \in Procs, NewLayout(p) PROVE DeletedIsGone'
  BY <1>4 DEF NewLayout
<1>5. ASSUME NEW p \in Procs, NewMarker(p) PROVE DeletedIsGone'
  BY <1>5 DEF NewMarker
<1>6. ASSUME NEW p \in Procs, UndoRoot(p) PROVE DeletedIsGone'
  BY <1>6 DEF UndoRoot
<1>7. ASSUME NEW p \in Procs, UndoLease(p) PROVE DeletedIsGone'
  BY <1>7 DEF UndoLease
<1>8. ASSUME NEW p \in Procs, OpenLease(p) PROVE DeletedIsGone'
  BY <1>8 DEF OpenLease
<1>9. ASSUME NEW p \in Procs, OpenMissing(p) PROVE DeletedIsGone'
  BY <1>9 DEF OpenMissing
<1>10. ASSUME NEW p \in Procs, OpenLock(p) PROVE DeletedIsGone'
  BY <1>10 DEF OpenLock
<1>11. ASSUME NEW p \in Procs, OpenValidate(p) PROVE DeletedIsGone'
  BY <1>11 DEF OpenValidate, Validation
<1>12. ASSUME NEW p \in Procs, ResolveRun(p) PROVE DeletedIsGone'
  BY <1>12 DEF ResolveRun
<1>13. ASSUME NEW p \in Procs, ReadRun(p) PROVE DeletedIsGone'
  BY <1>13 DEF ReadRun
<1>14. ASSUME NEW p \in Procs, Report(p) PROVE DeletedIsGone'
  BY <1>14 DEF Report
<1>15. ASSUME NEW p \in Procs, Release(p) PROVE DeletedIsGone'
  BY <1>15 DEF Release
<1>16. ASSUME NEW p \in Procs, AllocCandidate(p) PROVE DeletedIsGone'
  BY <1>16 DEF AllocCandidate
<1>17. ASSUME NEW p \in Procs, AllocScratch(p) PROVE DeletedIsGone'
  BY <1>17 DEF AllocScratch
<1>18. ASSUME NEW p \in Procs, Execute(p) PROVE DeletedIsGone'
  BY <1>18 DEF Execute
<1>19. ASSUME NEW p \in Procs, FinishScratch(p) PROVE DeletedIsGone'
  BY <1>19 DEF FinishScratch
<1>20. ASSUME NEW p \in Procs, Gate(p) PROVE DeletedIsGone'
  BY <1>20 DEF Gate
<1>21. ASSUME NEW p \in Procs, Publish(p) PROVE DeletedIsGone'
  BY <1>21 DEF Publish
<1>22. ASSUME NEW p \in Procs, DropScratch(p) PROVE DeletedIsGone'
  BY <1>22 DEF DropScratch
<1>23. ASSUME NEW p \in Procs, DropCandidate(p) PROVE DeletedIsGone'
  BY <1>23 DEF DropCandidate
<1>24. ASSUME NEW p \in Procs, DeleteLease(p) PROVE DeletedIsGone'
  BY <1>24 DEF DeleteLease
<1>25. ASSUME NEW p \in Procs, DeleteMissing(p) PROVE DeletedIsGone'
  BY <1>25 DEF DeleteMissing
<1>26. ASSUME NEW p \in Procs, DeleteLock(p) PROVE DeletedIsGone'
  BY <1>26 DEF DeleteLock
<1>27. ASSUME NEW p \in Procs, DeleteCheck(p) PROVE DeletedIsGone'
  BY <1>27 DEF DeleteCheck
<1>28. ASSUME NEW p \in Procs, DeleteValidate(p) PROVE DeletedIsGone'
  BY <1>28 DEF DeleteValidate, Validation
<1>29. ASSUME NEW p \in Procs, DeleteRename(p) PROVE DeletedIsGone'
  BY <1>29 DEF DeleteRename
<1>30. ASSUME NEW p \in Procs, DeleteEntry(p) PROVE DeletedIsGone'
  BY <1>30 DEF DeleteEntry
<1>31. ASSUME NEW p \in Procs, DeleteTree(p) PROVE DeletedIsGone'
  BY <1>31 DEF DeleteTree
<1>32. ASSUME NEW p \in Procs, Exit(p) PROVE DeletedIsGone'
  BY <1>32 DEF Exit
<1>33. ASSUME NEW p \in Procs, Crash(p) PROVE DeletedIsGone'
  BY <1>33 DEF Crash
<1>34. CASE UNCHANGED vars
  BY <1>34 DEF vars, Present
<1> QED
  BY <1>1, <1>2, <1>3, <1>4, <1>5, <1>6, <1>7, <1>8, <1>9, <1>10, <1>11, <1>12, <1>13, <1>14,
     <1>15, <1>16, <1>17, <1>18, <1>19, <1>20, <1>21, <1>22, <1>23, <1>24, <1>25, <1>26, <1>27, <1>28,
     <1>29, <1>30, <1>31, <1>32, <1>33, <1>34
     DEF Next, Act, Create, Open, Read, RunWorkflow, Delete

\* Before the Session is created the invariant holds.
LEMMA InitInv == Init => IInv
BY CreatorAssumption, MaxFaultsAssumption
   DEF Init, IInv, TypeOK, LockInv, CreateInv, TreeInv, RunInv, SessionInUseStays,
       TargetRunIsPublished, PublishedRunHasNoScratch, LeftoversAreAccounted,
       LeaseFileOutlivesSession, DeletedIsGone

\* The invariant is inductive.
LEMMA StepInv == IInv /\ [Next]_vars => IInv'
BY TypeStep, LockStep, TreeStep, RunStep, DeletedStep DEF IInv, TreeGroup, RunGroup

\* The inductive invariant: locks, tree and Runs agree with the step of
\* every process.
THEOREM Inductive == Spec => []IInv
BY InitInv, StepInv, PTL DEF Spec

\* Every state of the store is well formed.
THEOREM TypeCorrect == Spec => []TypeOK
<1>1. IInv => TypeOK
  BY DEF IInv
<1> QED
  BY Inductive, <1>1, PTL

\* No command ever loses the Session it works on, nor the Run it reports, nor
\* the Run it reads unless a Workflow forged its manifest: open's shared lease
\* excludes deletion until the Response is out, for any number of processes.
THEOREM UsedStays == Spec => []WhatIsUsedStays
<1>1. IInv => WhatIsUsedStays
  BY DEF IInv, WhatIsUsedStays
<1> QED
  BY Inductive, <1>1, PTL

\* Scratch cleaning gates publication whatever crashes or fails, and failed
\* Runs leave nothing behind unless a crash or a failed removal did.
THEOREM Accounted == Spec => []DiskIsAccounted
<1>1. IInv => DiskIsAccounted
  BY DEF IInv, DiskIsAccounted
<1> QED
  BY Inductive, <1>1, PTL

\* Deletion that reports success has removed everything, and the lease file is
\* never missing where it is needed.
THEOREM DeletionIsComplete == Spec => []DeletionIsWhole
<1>1. IInv => DeletionIsWhole
  BY DEF IInv, DeletionIsWhole
<1> QED
  BY Inductive, <1>1, PTL

\* Published Runs disappear only with their Session, and never under a user.
THEOREM RunsAreKept == Spec => PublishedRunsAreKept
<1> DEFINE Kept ==
      \A r \in Runs : runs[r] = "published" /\ runs'[r] # "published" =>
        tombstone = "present" /\ session = "absent" /\ \A p \in Procs : pc[p] \notin UsePC
<1>1. ASSUME IInv, [Next]_vars PROVE [Kept]_vars
  <2> USE <1>1 DEF IInv, TypeOK, RunInv
  <2>1. ASSUME NEW p \in Procs, DeleteEntry(p) PROVE Kept
    BY <2>1 DEF DeleteEntry, TreeInv, SessionInUseStays
  <2>2. ASSUME NEW p \in Procs, AllocCandidate(p) PROVE Kept
    BY <2>2 DEF AllocCandidate
  <2>3. ASSUME NEW p \in Procs, Execute(p) \/ Publish(p) \/ DropCandidate(p) PROVE Kept
    BY <2>3 DEF Execute, Publish, DropCandidate
  <2>4. ASSUME NEW p \in Procs,
               \/ Create(p) \/ Open(p) \/ Read(p) \/ Exit(p) \/ Crash(p)
               \/ AllocScratch(p) \/ FinishScratch(p) \/ Gate(p) \/ DropScratch(p)
               \/ DeleteLease(p) \/ DeleteMissing(p) \/ DeleteLock(p) \/ DeleteCheck(p)
               \/ DeleteValidate(p) \/ DeleteRename(p) \/ DeleteTree(p)
        PROVE  runs' = runs
    BY <2>4 DEF Create, NewLease, NewLock, NewRoot, NewLayout, NewMarker, UndoRoot, UndoLease,
       Open, OpenLease, OpenMissing, OpenLock, OpenValidate, Read, ResolveRun, ReadRun, Report,
       Release, Exit, Crash, AllocScratch, FinishScratch, Gate, DropScratch, DeleteLease,
       DeleteMissing, DeleteLock, DeleteCheck, DeleteValidate, DeleteRename, DeleteTree
  <2> QED
    BY <2>1, <2>2, <2>3, <2>4 DEF Next, Act, RunWorkflow, Delete
<1>2. IInv /\ [Next]_vars => [Kept]_vars
  BY <1>1
<1> QED
  BY Inductive, <1>2, PTL DEF Spec, PublishedRunsAreKept

-----------------------------------------------------------------------------
(* SessionStore implements SessionContract.                                  *)

\* The values of the contract's variables, by name.
Users == {p \in Procs : pc[p] \in UsePC}
Visible == {r \in Runs : session = "marked" /\ runs[r] = "published"}

\* Each step of the commands is a step of the contract, or a stutter of it.
LEMMA RefineStep ==
  ASSUME IInv, IInv', [Next]_vars
  PROVE  [Contract!ContractNext]_(Contract!cvars)
<1> USE CreatorAssumption DEF IInv, TypeOK, LockInv, CreateInv, TreeInv, RunInv, SessionInUseStays,
       Phase, Contract!cvars, Contract!ContractNext, Contract!Publish, Contract!Abandon, Contract!Enter, Contract!Leave, Contract!PublishRun, Contract!Destroy
<1>1. ASSUME NEW p \in Procs, NewLease(p) PROVE [Contract!ContractNext]_(Contract!cvars)
  BY <1>1 DEF NewLease
<1>2. ASSUME NEW p \in Procs, NewLock(p) PROVE [Contract!ContractNext]_(Contract!cvars)
  BY <1>2 DEF NewLock
<1>3. ASSUME NEW p \in Procs, NewRoot(p) PROVE [Contract!ContractNext]_(Contract!cvars)
  BY <1>3 DEF NewRoot
<1>4. ASSUME NEW p \in Procs, NewLayout(p) PROVE [Contract!ContractNext]_(Contract!cvars)
  BY <1>4 DEF NewLayout
<1>5. ASSUME NEW p \in Procs, NewMarker(p) PROVE [Contract!ContractNext]_(Contract!cvars)
  <2>1. p = Creator /\ pc[p] = "newMarker" /\ session = "laid"
    BY <1>5 DEF NewMarker
  <2>2. CASE session' = "marked"
    <3>1. Phase = "unborn" /\ Phase' = "live"
      BY <2>1, <2>2
    <3>2. runs' = runs /\ pc' = [pc EXCEPT ![p] = "report"]
      BY <1>5, <2>1, <2>2 DEF NewMarker
    <3>3. Users' = {p} /\ Visible = {} /\ Users = {}
      BY <2>1, <3>2 DEF Users, Visible
    <3>4. Visible' = {}
      BY <2>1, <3>2 DEF Visible
    <3> QED
      BY <3>1, <3>3, <3>4 DEF Users, Visible
  <2>3. CASE session' # "marked"
    BY <1>5, <2>1, <2>3 DEF NewMarker
  <2> QED
    BY <2>2, <2>3
<1>6. ASSUME NEW p \in Procs, UndoRoot(p) PROVE [Contract!ContractNext]_(Contract!cvars)
  BY <1>6 DEF UndoRoot
<1>7. ASSUME NEW p \in Procs, UndoLease(p) PROVE [Contract!ContractNext]_(Contract!cvars)
  BY <1>7 DEF UndoLease
<1>8. ASSUME NEW p \in Procs, OpenLease(p) PROVE [Contract!ContractNext]_(Contract!cvars)
  BY <1>8 DEF OpenLease
<1>9. ASSUME NEW p \in Procs, OpenMissing(p) PROVE [Contract!ContractNext]_(Contract!cvars)
  BY <1>9 DEF OpenMissing
<1>10. ASSUME NEW p \in Procs, OpenLock(p) PROVE [Contract!ContractNext]_(Contract!cvars)
  BY <1>10 DEF OpenLock
<1>11. ASSUME NEW p \in Procs, OpenValidate(p) PROVE [Contract!ContractNext]_(Contract!cvars)
  BY <1>11 DEF OpenValidate, Validation
<1>12. ASSUME NEW p \in Procs, ResolveRun(p) PROVE [Contract!ContractNext]_(Contract!cvars)
  BY <1>12 DEF ResolveRun
<1>13. ASSUME NEW p \in Procs, ReadRun(p) PROVE [Contract!ContractNext]_(Contract!cvars)
  BY <1>13 DEF ReadRun
<1>14. ASSUME NEW p \in Procs, Report(p) PROVE [Contract!ContractNext]_(Contract!cvars)
  BY <1>14 DEF Report
<1>15. ASSUME NEW p \in Procs, Release(p) PROVE [Contract!ContractNext]_(Contract!cvars)
  BY <1>15 DEF Release
<1>16. ASSUME NEW p \in Procs, AllocCandidate(p) PROVE [Contract!ContractNext]_(Contract!cvars)
  BY <1>16 DEF AllocCandidate
<1>17. ASSUME NEW p \in Procs, AllocScratch(p) PROVE [Contract!ContractNext]_(Contract!cvars)
  BY <1>17 DEF AllocScratch
<1>18. ASSUME NEW p \in Procs, Execute(p) PROVE [Contract!ContractNext]_(Contract!cvars)
  BY <1>18 DEF Execute
<1>19. ASSUME NEW p \in Procs, FinishScratch(p) PROVE [Contract!ContractNext]_(Contract!cvars)
  BY <1>19 DEF FinishScratch
<1>20. ASSUME NEW p \in Procs, Gate(p) PROVE [Contract!ContractNext]_(Contract!cvars)
  BY <1>20 DEF Gate
<1>21. ASSUME NEW p \in Procs, Publish(p) PROVE [Contract!ContractNext]_(Contract!cvars)
  BY <1>21 DEF Publish
<1>22. ASSUME NEW p \in Procs, DropScratch(p) PROVE [Contract!ContractNext]_(Contract!cvars)
  BY <1>22 DEF DropScratch
<1>23. ASSUME NEW p \in Procs, DropCandidate(p) PROVE [Contract!ContractNext]_(Contract!cvars)
  BY <1>23 DEF DropCandidate
<1>24. ASSUME NEW p \in Procs, DeleteLease(p) PROVE [Contract!ContractNext]_(Contract!cvars)
  BY <1>24 DEF DeleteLease
<1>25. ASSUME NEW p \in Procs, DeleteMissing(p) PROVE [Contract!ContractNext]_(Contract!cvars)
  BY <1>25 DEF DeleteMissing
<1>26. ASSUME NEW p \in Procs, DeleteLock(p) PROVE [Contract!ContractNext]_(Contract!cvars)
  BY <1>26 DEF DeleteLock
<1>27. ASSUME NEW p \in Procs, DeleteCheck(p) PROVE [Contract!ContractNext]_(Contract!cvars)
  BY <1>27 DEF DeleteCheck
<1>28. ASSUME NEW p \in Procs, DeleteValidate(p) PROVE [Contract!ContractNext]_(Contract!cvars)
  BY <1>28 DEF DeleteValidate, Validation
<1>29. ASSUME NEW p \in Procs, DeleteRename(p) PROVE [Contract!ContractNext]_(Contract!cvars)
  BY <1>29 DEF DeleteRename
<1>30. ASSUME NEW p \in Procs, DeleteEntry(p) PROVE [Contract!ContractNext]_(Contract!cvars)
  BY <1>30 DEF DeleteEntry
<1>31. ASSUME NEW p \in Procs, DeleteTree(p) PROVE [Contract!ContractNext]_(Contract!cvars)
  BY <1>31 DEF DeleteTree
<1>32. ASSUME NEW p \in Procs, Exit(p) PROVE [Contract!ContractNext]_(Contract!cvars)
  BY <1>32 DEF Exit
<1>33. ASSUME NEW p \in Procs, Crash(p) PROVE [Contract!ContractNext]_(Contract!cvars)
  BY <1>33 DEF Crash
<1>34. CASE UNCHANGED vars
  BY <1>34 DEF vars
<1> QED
  BY <1>1, <1>2, <1>3, <1>4, <1>5, <1>6, <1>7, <1>8, <1>9, <1>10, <1>11, <1>12, <1>13, <1>14,
     <1>15, <1>16, <1>17, <1>18, <1>19, <1>20, <1>21, <1>22, <1>23, <1>24, <1>25, <1>26, <1>27, <1>28,
     <1>29, <1>30, <1>31, <1>32, <1>33, <1>34
     DEF Next, Act, Create, Open, Read, RunWorkflow, Delete

\* The store keeps the promises of an Analysis Session, for any number of
\* processes, Runs, crashes and failed calls.
THEOREM Refinement == Spec => ImplementsContract
<1>1. Init => Contract!ContractInit
  BY CreatorAssumption DEF Init, Contract!ContractInit, Phase
<1>2. IInv /\ IInv' /\ [Next]_vars => [Contract!ContractNext]_(Contract!cvars)
  BY RefineStep
<1> QED
  BY <1>1, <1>2, Inductive, PTL DEF Spec, ImplementsContract, Contract!ContractSpec

=============================================================================
