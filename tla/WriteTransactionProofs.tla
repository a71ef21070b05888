----------------------- MODULE WriteTransactionProofs -----------------------
(***************************************************************************)
(* Theorems about WriteTransaction, for any relations, batches, capacity   *)
(* of the queue and number of failures and interrupts.  The argument       *)
(* follows the two threads: how far the owner is says what it has let go   *)
(* (OwnerInv), how far the writer is says what it still holds (WriterInv), *)
(* and the staging directory stays while there is a writer, but for one    *)
(* whose start was interrupted, which never gets a row (StagingInv).       *)
(* The rows are spread in order over buffer, hand, queue, writer and file, *)
(* or all of them are lost (FlowInv): so that both threads together        *)
(* implement MaterializationContract.                                      *)
(***************************************************************************)
EXTENDS WriteTransaction, SequenceTheorems, TLAPS

\* How far the owner is.
PublishedPC == {"committed", "raised"}
CheckedPC == {"publish"} \cup PublishedPC
JoinedPC == {"check"} \cup CheckedPC
DrainedPC == {"join"} \cup JoinedPC
PuttingPC == {"put", "wait", "putDrain", "waitDrain"}
WritingPC == {"ready", "active", "drain", "join", "check", "publish"} \cup PuttingPC

\* What the owner has let go: the batch in hand, the buffers, and after the
\* writer has ended well the files.
OwnerInv ==
  /\ destination = "ours" <=> pc \in PublishedPC
  /\ hand # <<>> <=> pc \in PuttingPC
  /\ pc \in {"put", "wait"} => given[hand[1].relation] > 0
  /\ pc \in DrainedPC => \A t \in Relations : buffer[t] = <<>>
  /\ pc \in JoinedPC => worker = "over" /\ ~failure
  /\ pc \in CheckedPC => \A t \in Relations : file[t] # "none"

\* What the writer still holds.
WriterInv ==
  /\ taken # <<>> <=> worker = "write"
  /\ worker \in {"close", "over"} => shut /\ queue = <<>>
  /\ worker \in {"none", "new", "create", "get", "write"} => ~failure
  /\ \A t \in Relations : file[t] = "broken" => failure
  /\ worker = "over" => \A t \in Relations : file[t] # "open"

\* Where the staging directory is, and what a writer has that was not waited for.
StagingInv ==
  /\ pc \in WritingPC \cup PublishedPC => started
  /\ pc \in {"new", "start", "starting"} => ~started
  /\ pc \in {"new", "start"} => worker = "none"
  /\ pc = "starting" => worker # "none"
  /\ started => worker \notin {"none", "new"}
  /\ pc \in {"start", "starting"} \cup WritingPC \/ (started /\ worker # "over") => staging = "named"
  /\ pc \in {"cleanup", "aborted"} \cup JoinedPC => ~started \/ worker = "over"
  /\ ~started => queue = <<>> /\ taken = <<>> /\ \A t \in Relations : written[t] = <<>>
  /\ pc \in PublishedPC => staging = "none"
  /\ pc = "aborted" => staging # "named"

\* The inductive invariant.
IInv == TypeOK /\ OwnerInv /\ WriterInv /\ StagingInv

(* The first state. *)
LEMMA InitIInv == Init => IInv
<1> SUFFICES ASSUME Init PROVE IInv
  OBVIOUS
<1> USE BoundsAssumption, CapacityAssumption DEF Init
<1>1. TypeOK
  <2>1. started \in BOOLEAN /\ ready \in BOOLEAN /\ shut \in BOOLEAN /\ failure \in BOOLEAN
    BY DEF Init
  <2>2. \A S : <<>> \in Seq(S) /\ Len(<<>>) = 0
    OBVIOUS
  <2> QED
    BY <2>1, <2>2 DEF TypeOK
<1>2. OwnerInv
  BY DEF OwnerInv, PublishedPC, CheckedPC, JoinedPC, DrainedPC, PuttingPC
<1>3. WriterInv
  BY DEF WriterInv
<1>4. StagingInv
  BY DEF StagingInv, WritingPC, PuttingPC, JoinedPC, CheckedPC, PublishedPC
<1> QED
  BY <1>1, <1>2, <1>3, <1>4 DEF IInv

(* A batch of rows. *)
LEMMA OneBatch ==
  ASSUME NEW t \in Relations, NEW rows \in Seq(1..MaxRows)
  PROVE  /\ <<[relation |-> t, rows |-> rows]>> \in Seq(Batch)
         /\ Len(<<[relation |-> t, rows |-> rows]>>) = 1
<1>1. [relation |-> t, rows |-> rows] \in Batch
  BY DEF Batch
<1> QED
  BY <1>1

\* The parts of TypeOK: flags, the state of control, and rows.
FlagsOK == started \in BOOLEAN /\ ready \in BOOLEAN /\ shut \in BOOLEAN /\ failure \in BOOLEAN
ControlOK ==
  /\ pc \in {"new", "start", "starting", "ready", "active", "put", "wait", "drain", "putDrain",
             "waitDrain", "join", "check", "publish", "cancel", "cancelJoin", "cleanup"} \cup EndPC
  /\ worker \in {"none", "new", "create", "get", "write", "failed", "close", "over"}
  /\ file \in [Relations -> {"none", "open", "closed", "broken"}]
  /\ staging \in {"none", "named", "unnamed", "stuck"}
  /\ destination \in {"none", "ours", "foreign"}
  /\ faults \in 0..MaxFaults
BatchesOK ==
  /\ hand \in Seq(Batch) /\ Len(hand) <= 1
  /\ taken \in Seq(Batch) /\ Len(taken) <= 1
  /\ queue \in Seq(Batch) /\ Len(queue) <= Capacity
RowsOK ==
  /\ given \in [Relations -> 0..MaxRows]
  /\ accepted \in [Relations -> Seq(1..MaxRows)]
  /\ buffer \in [Relations -> Seq(1..MaxRows)]
  /\ written \in [Relations -> Seq(1..MaxRows)]

(* They are all of it. *)
LEMMA TypeParts == TypeOK <=> FlagsOK /\ ControlOK /\ BatchesOK /\ RowsOK
BY DEF TypeOK, FlagsOK, ControlOK, BatchesOK, RowsOK

(* The flags of the two threads. *)
LEMMA FlagStep == FlagsOK /\ [Next]_vars => FlagsOK'
<1> SUFFICES ASSUME FlagsOK, [Next]_vars PROVE FlagsOK'
  OBVIOUS
<1> USE DEF FlagsOK, owner, writer, shared, disk, Owner, Writer, Fault, Discard
<1>1. CASE UNCHANGED vars
  BY <1>1 DEF vars
<1>2. CASE OwnerStep
  BY <1>2 DEF OwnerStep, Enter, Start, Started, Ready, Look, Put, PutTimeout, PutFails, PutInterrupted, Drain, Join,
              Check, Publish, Cancel, CancelJoin, Cleanup
<1>3. CASE Body
  BY <1>3 DEF Body, Collect, Flush, BodyFails, BodyEnds
<1>4. CASE WriterStep
  BY <1>4 DEF WriterStep, Bootstrap, Create, Get, Write, Fail, Close, End
<1>5. CASE Compete
  BY <1>5 DEF Compete
<1> QED
  BY <1>1, <1>2, <1>3, <1>4, <1>5 DEF Next

(* How far the threads are, the files and the directories. *)
LEMMA ControlStep == ControlOK /\ [Next]_vars => ControlOK'
<1> SUFFICES ASSUME ControlOK, [Next]_vars PROVE ControlOK'
  OBVIOUS
<1> USE BoundsAssumption DEF ControlOK, EndPC, owner, writer, shared, disk, Owner, Writer, Fault, Bereft
<1>1. CASE UNCHANGED vars
  BY <1>1 DEF vars
<1>2. CASE Enter \/ Start \/ Started \/ Ready
  BY <1>2 DEF Enter, Start, Started, Ready
<1>3. CASE Look \/ Put \/ PutTimeout \/ PutFails \/ PutInterrupted
  BY <1>3 DEF Look, Put, PutTimeout, PutFails, PutInterrupted
<1>4. CASE Drain \/ Join \/ Check \/ Publish
  BY <1>4 DEF Drain, Join, Check, Publish
<1>5. CASE Cancel \/ CancelJoin \/ Cleanup
  BY <1>5 DEF Cancel, CancelJoin, Cleanup
<1>6. CASE Body
  BY <1>6 DEF Body, Collect, Flush, BodyFails, BodyEnds
<1>7. CASE Create
  BY <1>7 DEF Create
<1>8. CASE Bootstrap \/ Get \/ Write \/ Fail \/ End
  <2>1. /\ worker' \in {"create", "get", "write", "failed", "close", "over"}
        /\ faults' = faults \/ Fault
        /\ UNCHANGED <<pc, file, staging, destination>>
    BY <1>8 DEF Bootstrap, Get, Write, Fail, End
  <2> QED
    BY <2>1
<1>9. CASE Close
  BY <1>9 DEF Close
<1>10. CASE Compete
  BY <1>10 DEF Compete
<1> QED
  BY <1>1, <1>2, <1>3, <1>4, <1>5, <1>6, <1>7, <1>8, <1>9, <1>10 DEF Next, OwnerStep, WriterStep

(* Who has no batch. *)
LEMMA NoBatch == \A S : <<>> \in Seq(S) /\ Len(<<>>) = 0
OBVIOUS

(* Batches go from the hand to the queue to the writer. *)
LEMMA BatchStep == BatchesOK /\ RowsOK /\ OwnerInv /\ [Next]_vars => BatchesOK'
<1> SUFFICES ASSUME BatchesOK, RowsOK, OwnerInv, [Next]_vars PROVE BatchesOK'
  OBVIOUS
<1>0. /\ hand \in Seq(Batch) /\ taken \in Seq(Batch) /\ queue \in Seq(Batch)
      /\ Len(hand) <= 1 /\ Len(taken) <= 1 /\ Len(queue) <= Capacity /\ Len(queue) \in Nat
  BY DEF BatchesOK
<1>a. ASSUME hand' \in {hand, <<>>}, taken' \in {taken, <<>>}, queue' \in {queue, <<>>}
      PROVE  BatchesOK'
  <2>1. <<>> \in Seq(Batch) /\ Len(<<>>) = 0 /\ 0 <= Capacity /\ 0 <= 1
    BY CapacityAssumption, NoBatch
  <2>2. hand' \in Seq(Batch) /\ Len(hand') <= 1
    BY <1>a, <1>0, <2>1
  <2>3. taken' \in Seq(Batch) /\ Len(taken') <= 1
    BY <1>a, <1>0, <2>1
  <2>4. queue' \in Seq(Batch) /\ Len(queue') <= Capacity
    BY <1>a, <1>0, <2>1
  <2> QED
    BY <2>2, <2>3, <2>4 DEF BatchesOK
<1> USE DEF owner, writer, shared, Owner, Writer, Discard
<1>1. CASE UNCHANGED vars
  BY <1>1, <1>a DEF vars
<1>2. CASE Enter \/ Start \/ Started \/ Ready
  BY <1>a, <1>2 DEF Enter, Start, Started, Ready
<1>3. CASE Look \/ PutTimeout \/ PutFails \/ PutInterrupted
  <2>1. hand' \in {hand, <<>>} /\ taken' = taken /\ queue' = queue
    BY <1>3 DEF Look, PutTimeout, PutFails, PutInterrupted
  <2> QED
    BY <1>a, <2>1
<1>4. CASE Put
  <2>1. hand[1] \in Batch
    BY <1>0, <1>4 DEF Put, OwnerInv, PuttingPC
  <2>2. Append(queue, hand[1]) \in Seq(Batch) /\ Len(Append(queue, hand[1])) = Len(queue) + 1
    BY <1>0, <2>1
  <2>4. /\ queue' = Append(queue, hand[1]) /\ hand' = <<>> /\ taken' = taken
        /\ Len(queue) < Capacity
    BY <1>4 DEF Put
  <2>5. Len(queue') <= Capacity
    BY <1>0, <2>2, <2>4, CapacityAssumption
  <2> QED
    BY <1>0, <2>2, <2>4, <2>5, NoBatch DEF BatchesOK
<1>5. CASE Drain
  <2>1. CASE UNCHANGED <<hand, taken, queue>>
    BY <1>a, <2>1
  <2>2. ASSUME NEW t \in Relations, hand' = <<[relation |-> t, rows |-> buffer[t]]>>,
               UNCHANGED <<taken, queue>>
        PROVE  BatchesOK'
    BY <1>0, <2>2, OneBatch DEF RowsOK, BatchesOK
  <2> QED
    BY <1>5, <2>1, <2>2 DEF Drain
<1>6. CASE Join \/ Check \/ Publish \/ Cancel \/ CancelJoin \/ Cleanup
  BY <1>a, <1>6 DEF Join, Check, Publish, Cancel, CancelJoin, Cleanup
<1>7. CASE Collect \/ BodyFails \/ BodyEnds
  BY <1>a, <1>7 DEF Collect, BodyFails, BodyEnds
<1>8. CASE Flush
  <2>1. PICK t \in Relations :
          /\ given[t] < MaxRows /\ given' = [given EXCEPT ![t] = @ + 1]
          /\ hand' = <<[relation |-> t, rows |-> Append(buffer[t], given'[t])]>>
          /\ UNCHANGED <<taken, queue>>
    BY <1>8 DEF Flush
  <2>2. given'[t] \in 1..MaxRows
    BY <2>1, BoundsAssumption DEF RowsOK
  <2>3. Append(buffer[t], given'[t]) \in Seq(1..MaxRows)
    BY <2>2 DEF RowsOK
  <2> QED
    <3> DEFINE rows == Append(buffer[t], given'[t])
    <3>1. hand' = <<[relation |-> t, rows |-> rows]>>
      BY <2>1
    <3>2. <<[relation |-> t, rows |-> rows]>> \in Seq(Batch) /\ Len(<<[relation |-> t, rows |-> rows]>>) = 1
      BY <2>3, OneBatch
    <3>3. taken' = taken /\ queue' = queue
      BY <2>1
    <3> QED
      BY <1>0, <3>1, <3>2, <3>3 DEF BatchesOK
<1>9. CASE Bootstrap \/ Create \/ Fail \/ End \/ Close
  BY <1>a, <1>9 DEF Bootstrap, Create, Fail, End, Close
<1>10. CASE Get
  <2>1. CASE UNCHANGED <<hand, taken, queue>>
    BY <1>a, <2>1
  <2>2. CASE queue # <<>> /\ taken' = <<Head(queue)>> /\ queue' = Tail(queue) /\ hand' = hand
    <3>1. Head(queue) \in Batch /\ Tail(queue) \in Seq(Batch) /\ Len(Tail(queue)) = Len(queue) - 1
      BY <1>0, <2>2
    <3>2. <<Head(queue)>> \in Seq(Batch) /\ Len(<<Head(queue)>>) = 1
      BY <3>1
    <3> QED
      BY <1>0, <2>2, <3>1, <3>2, CapacityAssumption DEF BatchesOK
  <2> QED
    BY <1>10, <2>1, <2>2 DEF Get
<1>11. CASE Write
  BY <1>a, <1>11 DEF Write
<1>12. CASE Compete
  BY <1>a, <1>12 DEF Compete
<1> QED
  BY <1>1, <1>2, <1>3, <1>4, <1>5, <1>6, <1>7, <1>8, <1>9, <1>10, <1>11, <1>12
     DEF Next, OwnerStep, Body, WriterStep

(* Rows are appended, and a batch of them is written. *)
LEMMA RowStep == BatchesOK /\ RowsOK /\ OwnerInv /\ WriterInv /\ [Next]_vars => RowsOK'
<1> SUFFICES ASSUME BatchesOK, RowsOK, OwnerInv, WriterInv, [Next]_vars PROVE RowsOK'
  OBVIOUS
<1>0. /\ given \in [Relations -> 0..MaxRows] /\ accepted \in [Relations -> Seq(1..MaxRows)]
      /\ buffer \in [Relations -> Seq(1..MaxRows)] /\ written \in [Relations -> Seq(1..MaxRows)]
  BY DEF RowsOK
<1> USE DEF owner, writer, Owner, Writer
<1>2. CASE UNCHANGED <<given, accepted, buffer, written>>
  BY <1>0, <1>2 DEF RowsOK
<1>1. CASE UNCHANGED vars
  BY <1>2, <1>1 DEF vars
<1>3. CASE Enter \/ Start \/ Started \/ Ready \/ Look \/ PutTimeout \/ PutFails \/ PutInterrupted
  BY <1>2, <1>3 DEF Enter, Start, Started, Ready, Look, PutTimeout, PutFails, PutInterrupted
<1>4. CASE Put
  <2>1. CASE accepted' = accepted
    BY <1>2, <1>4, <2>1 DEF Put
  <2>2. CASE AcceptLast /\ pc = "wait"
    <3> DEFINE t == hand[1].relation
    <3>1. t \in Relations /\ given[t] \in 1..MaxRows
      <4>1. hand[1] \in Batch
        BY <2>2 DEF OwnerInv, PuttingPC, BatchesOK
      <4>2. t \in Relations
        BY <4>1 DEF Batch
      <4> QED
        BY <1>0, <2>2, <4>2, BoundsAssumption DEF OwnerInv
    <3>2. Append(accepted[t], given[t]) \in Seq(1..MaxRows)
      BY <1>0, <3>1
    <3>3. accepted' = [accepted EXCEPT ![t] = Append(@, given[t])]
      BY <2>2 DEF AcceptLast
    <3>4. UNCHANGED <<given, buffer, written>>
      BY <1>4 DEF Put
    <3> QED
      BY <1>0, <3>1, <3>2, <3>3, <3>4 DEF RowsOK
  <2> QED
    BY <1>4, <2>1, <2>2 DEF Put
<1>5. CASE Drain
  <2>1. CASE UNCHANGED buffer
    BY <1>2, <1>5, <2>1 DEF Drain
  <2>2. ASSUME NEW t \in Relations, buffer' = [buffer EXCEPT ![t] = <<>>],
               UNCHANGED <<given, accepted, written>>
        PROVE  RowsOK'
    BY <1>0, <2>2, NoBatch DEF RowsOK
  <2> QED
    BY <1>5, <2>1, <2>2 DEF Drain
<1>6. CASE Join \/ Check \/ Publish \/ Cancel \/ CancelJoin \/ Cleanup
  BY <1>2, <1>6 DEF Join, Check, Publish, Cancel, CancelJoin, Cleanup
<1>7. CASE Collect
  <2>1. PICK t \in Relations :
          /\ given[t] < MaxRows
          /\ given' = [given EXCEPT ![t] = @ + 1]
          /\ buffer' = [buffer EXCEPT ![t] = Append(@, given'[t])]
          /\ accepted' = [accepted EXCEPT ![t] = Append(@, given'[t])]
          /\ UNCHANGED written
    BY <1>7 DEF Collect
  <2>2. given' \in [Relations -> 0..MaxRows] /\ given'[t] \in 1..MaxRows
    BY <1>0, <2>1, BoundsAssumption
  <2>3. /\ Append(buffer[t], given'[t]) \in Seq(1..MaxRows)
        /\ Append(accepted[t], given'[t]) \in Seq(1..MaxRows)
    BY <1>0, <2>2
  <2> QED
    BY <1>0, <2>1, <2>2, <2>3 DEF RowsOK
<1>8. CASE Flush
  <2>1. PICK t \in Relations :
          /\ given[t] < MaxRows
          /\ given' = [given EXCEPT ![t] = @ + 1]
          /\ buffer' = [buffer EXCEPT ![t] = <<>>]
          /\ UNCHANGED <<accepted, written>>
    BY <1>8 DEF Flush
  <2>2. given' \in [Relations -> 0..MaxRows]
    BY <1>0, <2>1, BoundsAssumption
  <2> QED
    BY <1>0, <2>1, <2>2, NoBatch DEF RowsOK
<1>9. CASE BodyFails \/ BodyEnds \/ Bootstrap \/ Create \/ Get \/ Fail \/ End \/ Close \/ Compete
  BY <1>2, <1>9 DEF BodyFails, BodyEnds, Bootstrap, Create, Get, Fail, End, Close, Compete
<1>10. CASE Write
  <2>1. CASE UNCHANGED written
    BY <1>2, <1>10, <2>1 DEF Write
  <2>2. CASE written' = [written EXCEPT ![taken[1].relation] = @ \o taken[1].rows]
    <3>1. taken[1] \in Batch
      <4>1. worker = "write" /\ taken # <<>> /\ taken \in Seq(Batch)
        BY <1>10, <2>2 DEF Write, BatchesOK, WriterInv
      <4> QED
        BY <4>1
    <3>2. taken[1].relation \in Relations /\ taken[1].rows \in Seq(1..MaxRows)
      BY <3>1 DEF Batch
    <3>3. written[taken[1].relation] \o taken[1].rows \in Seq(1..MaxRows)
      <4>1. written[taken[1].relation] \in Seq(1..MaxRows)
        BY <1>0, <3>2
      <4> QED
        BY <3>2, <4>1, ConcatProperties
    <3>4. UNCHANGED <<given, accepted, buffer>>
      BY <1>10 DEF Write
    <3> QED
      BY <1>0, <2>2, <3>2, <3>3, <3>4 DEF RowsOK
  <2> QED
    BY <1>10, <2>1, <2>2 DEF Write
<1> QED
  BY <1>1, <1>3, <1>4, <1>5, <1>6, <1>7, <1>8, <1>9, <1>10
     DEF Next, OwnerStep, Body, WriterStep

(* The owner lets go of its batches before it goes on. *)
LEMMA OwnerInvStep == IInv /\ [Next]_vars => OwnerInv'
<1> SUFFICES ASSUME IInv, [Next]_vars PROVE OwnerInv'
  OBVIOUS
<1>0. OwnerInv /\ WriterInv /\ StagingInv
  BY DEF IInv
<1> USE DEF OwnerInv, WriterInv, StagingInv, WritingPC, PublishedPC, CheckedPC, JoinedPC, DrainedPC, PuttingPC
<1> USE DEF owner, writer, shared, disk, Owner, Writer, Fault, Discard, Bereft
<1>1. CASE UNCHANGED vars
  BY <1>0, <1>1 DEF vars
<1>2. CASE Enter
  BY <1>0, <1>2 DEF Enter
<1>3. CASE Start
  BY <1>0, <1>3 DEF Start
<1>4. CASE Ready
  BY <1>0, <1>4 DEF Ready
<1>5. CASE Look
  BY <1>0, <1>5 DEF Look
<1>6. CASE Put
  BY <1>0, <1>6 DEF Put
<1>7. CASE PutTimeout
  BY <1>0, <1>7 DEF PutTimeout
<1>8. CASE PutFails
  BY <1>0, <1>8 DEF PutFails
<1>9. CASE PutInterrupted
  BY <1>0, <1>9 DEF PutInterrupted
<1>10. CASE Drain
  BY <1>0, <1>10 DEF Drain
<1>11. CASE Join
  BY <1>0, <1>11 DEF Join
<1>12. CASE Check
  BY <1>0, <1>12 DEF Check
<1>13. CASE Publish
  BY <1>0, <1>13 DEF Publish
<1>14. CASE Cancel
  BY <1>0, <1>14 DEF Cancel
<1>15. CASE CancelJoin
  BY <1>0, <1>15 DEF CancelJoin
<1>16. CASE Cleanup
  BY <1>0, <1>16 DEF Cleanup
<1>17. CASE Collect
  BY <1>0, <1>17 DEF Collect
<1>18. CASE Flush
  <2>1. PICK t \in Relations :
          /\ given' = [given EXCEPT ![t] = @ + 1]
          /\ hand' = <<[relation |-> t, rows |-> Append(buffer[t], given'[t])]>>
          /\ pc = "active" /\ pc' = "put"
          /\ UNCHANGED <<worker, file, failure, destination>>
    BY <1>18 DEF Flush
  <2>2. given \in [Relations -> 0..MaxRows]
    BY DEF IInv, TypeOK
  <2>3. hand'[1].relation = t /\ hand' # <<>>
    BY <2>1
  <2>4. given'[t] > 0
    BY <2>1, <2>2
  <2> QED
    BY <1>0, <2>1, <2>3, <2>4
<1>19. CASE BodyFails
  BY <1>0, <1>19 DEF BodyFails
<1>20. CASE BodyEnds
  BY <1>0, <1>20 DEF BodyEnds
<1>21. CASE Create
  BY <1>0, <1>21 DEF Create
<1>22. CASE Get
  BY <1>0, <1>22 DEF Get
<1>23. CASE Write
  BY <1>0, <1>23 DEF Write
<1>24. CASE Fail
  BY <1>0, <1>24 DEF Fail
<1>25. CASE Close
  BY <1>0, <1>25 DEF Close
<1>26. CASE End
  BY <1>0, <1>26 DEF End
<1>27. CASE Compete
  BY <1>0, <1>27 DEF Compete
<1>28. CASE Started
  BY <1>0, <1>28 DEF Started
<1>29. CASE Bootstrap
  BY <1>0, <1>29 DEF Bootstrap
<1> QED
  BY <1>1, <1>2, <1>3, <1>4, <1>5, <1>6, <1>7, <1>8, <1>9, <1>10, <1>11, <1>12, <1>13, <1>14, <1>15,
     <1>16, <1>17, <1>18, <1>19, <1>20, <1>21, <1>22, <1>23, <1>24, <1>25, <1>26, <1>27, <1>28, <1>29
     DEF Next, OwnerStep, Body, WriterStep

(* The writer records a failure, and ends with no file open. *)
LEMMA WriterInvStep == IInv /\ [Next]_vars => WriterInv'
<1> SUFFICES ASSUME IInv, [Next]_vars PROVE WriterInv'
  OBVIOUS
<1>0. OwnerInv /\ WriterInv /\ StagingInv
  BY DEF IInv
<1> USE DEF OwnerInv, WriterInv, StagingInv, WritingPC, PublishedPC, CheckedPC, JoinedPC, DrainedPC, PuttingPC
<1> USE DEF owner, writer, shared, disk, Owner, Writer, Fault, Discard, Bereft
<1>1. CASE UNCHANGED vars
  BY <1>0, <1>1 DEF vars
<1>2. CASE Enter
  BY <1>0, <1>2 DEF Enter
<1>3. CASE Start
  BY <1>0, <1>3 DEF Start
<1>4. CASE Ready
  BY <1>0, <1>4 DEF Ready
<1>5. CASE Look
  BY <1>0, <1>5 DEF Look
<1>6. CASE Put
  BY <1>0, <1>6 DEF Put
<1>7. CASE PutTimeout
  BY <1>0, <1>7 DEF PutTimeout
<1>8. CASE PutFails
  BY <1>0, <1>8 DEF PutFails
<1>9. CASE PutInterrupted
  BY <1>0, <1>9 DEF PutInterrupted
<1>10. CASE Drain
  BY <1>0, <1>10 DEF Drain
<1>11. CASE Join
  BY <1>0, <1>11 DEF Join
<1>12. CASE Check
  BY <1>0, <1>12 DEF Check
<1>13. CASE Publish
  BY <1>0, <1>13 DEF Publish
<1>14. CASE Cancel
  BY <1>0, <1>14 DEF Cancel
<1>15. CASE CancelJoin
  BY <1>0, <1>15 DEF CancelJoin
<1>16. CASE Cleanup
  BY <1>0, <1>16 DEF Cleanup
<1>17. CASE Collect
  BY <1>0, <1>17 DEF Collect
<1>18. CASE Flush
  BY <1>0, <1>18 DEF Flush
<1>19. CASE BodyFails
  BY <1>0, <1>19 DEF BodyFails
<1>20. CASE BodyEnds
  BY <1>0, <1>20 DEF BodyEnds
<1>21. CASE Create
  BY <1>0, <1>21 DEF Create
<1>22. CASE Get
  BY <1>0, <1>22 DEF Get
<1>23. CASE Write
  <2>1. taken' = <<>> /\ worker = "write" /\ UNCHANGED file
    BY <1>23 DEF Write
  <2>2. \/ worker' = "get" /\ (failure' <=> failure)
        \/ worker' = "failed" /\ failure'
    BY <1>23 DEF Write
  <2> QED
    BY <1>0, <2>1, <2>2
<1>24. CASE Fail
  BY <1>0, <1>24 DEF Fail
<1>25. CASE Close
  <2>1. PICK t \in Relations :
          \/ file' = [file EXCEPT ![t] = "closed"] /\ UNCHANGED <<queue, shut, failure>>
          \/ file' = [file EXCEPT ![t] = "broken"] /\ failure' /\ shut' /\ queue' = <<>>
    BY <1>25 DEF Close
  <2>2. worker = "close" /\ worker' = "close" /\ taken' = taken
    BY <1>25 DEF Close
  <2>3. file \in [Relations -> {"none", "open", "closed", "broken"}]
    BY DEF IInv, TypeOK
  <2>4. /\ shut' /\ queue' = <<>> /\ taken' = <<>>
        /\ \A u \in Relations : file'[u] = "broken" => failure'
    <3>1. CASE file' = [file EXCEPT ![t] = "closed"] /\ UNCHANGED <<queue, shut, failure>>
      <4>1. \A u \in Relations : file'[u] = "broken" => file[u] = "broken"
        BY <2>3, <3>1
      <4> QED
        BY <1>0, <2>2, <3>1, <4>1
    <3>2. CASE failure' /\ shut' /\ queue' = <<>>
      BY <1>0, <2>2, <3>2
    <3> QED
      BY <2>1, <3>1, <3>2
  <2> QED
    BY <2>2, <2>4
<1>26. CASE End
  BY <1>0, <1>26 DEF End
<1>27. CASE Compete
  BY <1>0, <1>27 DEF Compete
<1>28. CASE Started
  BY <1>0, <1>28 DEF Started
<1>29. CASE Bootstrap
  BY <1>0, <1>29 DEF Bootstrap
<1> QED
  BY <1>1, <1>2, <1>3, <1>4, <1>5, <1>6, <1>7, <1>8, <1>9, <1>10, <1>11, <1>12, <1>13, <1>14, <1>15,
     <1>16, <1>17, <1>18, <1>19, <1>20, <1>21, <1>22, <1>23, <1>24, <1>25, <1>26, <1>27, <1>28, <1>29
     DEF Next, OwnerStep, Body, WriterStep

(* The staging directory is there as long as the writer may need it. *)
LEMMA StagingInvStep == IInv /\ [Next]_vars => StagingInv'
<1> SUFFICES ASSUME IInv, [Next]_vars PROVE StagingInv'
  OBVIOUS
<1>0. OwnerInv /\ WriterInv /\ StagingInv
  BY DEF IInv
<1> USE DEF OwnerInv, WriterInv, StagingInv, WritingPC, PublishedPC, CheckedPC, JoinedPC, DrainedPC, PuttingPC
<1> USE DEF owner, writer, shared, disk, Owner, Writer, Fault, Discard, Bereft
<1>1. CASE UNCHANGED vars
  BY <1>0, <1>1 DEF vars
<1>2. CASE Enter
  BY <1>0, <1>2 DEF Enter
<1>3. CASE Start
  BY <1>0, <1>3 DEF Start
<1>4. CASE Ready
  BY <1>0, <1>4 DEF Ready
<1>5. CASE Look
  BY <1>0, <1>5 DEF Look
<1>6. CASE Put
  BY <1>0, <1>6 DEF Put
<1>7. CASE PutTimeout
  BY <1>0, <1>7 DEF PutTimeout
<1>8. CASE PutFails
  BY <1>0, <1>8 DEF PutFails
<1>9. CASE PutInterrupted
  BY <1>0, <1>9 DEF PutInterrupted
<1>10. CASE Drain
  BY <1>0, <1>10 DEF Drain
<1>11. CASE Join
  BY <1>0, <1>11 DEF Join
<1>12. CASE Check
  BY <1>0, <1>12 DEF Check
<1>13. CASE Publish
  BY <1>0, <1>13 DEF Publish
<1>14. CASE Cancel
  BY <1>0, <1>14 DEF Cancel
<1>15. CASE CancelJoin
  BY <1>0, <1>15 DEF CancelJoin
<1>16. CASE Cleanup
  BY <1>0, <1>16 DEF Cleanup
<1>17. CASE Collect
  BY <1>0, <1>17 DEF Collect
<1>18. CASE Flush
  BY <1>0, <1>18 DEF Flush
<1>19. CASE BodyFails
  BY <1>0, <1>19 DEF BodyFails
<1>20. CASE BodyEnds
  BY <1>0, <1>20 DEF BodyEnds
<1>21. CASE Create
  BY <1>0, <1>21 DEF Create
<1>22. CASE Get
  BY <1>0, <1>22 DEF Get
<1>23. CASE Write
  BY <1>0, <1>23 DEF Write
<1>24. CASE Fail
  BY <1>0, <1>24 DEF Fail
<1>25. CASE Close
  BY <1>0, <1>25 DEF Close
<1>26. CASE End
  BY <1>0, <1>26 DEF End
<1>27. CASE Compete
  BY <1>0, <1>27 DEF Compete
<1>28. CASE Started
  BY <1>0, <1>28 DEF Started
<1>29. CASE Bootstrap
  BY <1>0, <1>29 DEF Bootstrap
<1> QED
  BY <1>1, <1>2, <1>3, <1>4, <1>5, <1>6, <1>7, <1>8, <1>9, <1>10, <1>11, <1>12, <1>13, <1>14, <1>15,
     <1>16, <1>17, <1>18, <1>19, <1>20, <1>21, <1>22, <1>23, <1>24, <1>25, <1>26, <1>27, <1>28, <1>29
     DEF Next, OwnerStep, Body, WriterStep


-----------------------------------------------------------------------------
\* The inductive invariant holds of every reachable state.
THEOREM Inductive == Spec => []IInv
<1>1. Init => IInv
  BY InitIInv
<1>2. IInv /\ [Next]_vars => IInv'
  <2> SUFFICES ASSUME IInv, [Next]_vars PROVE IInv'
    OBVIOUS
  <2>1. TypeOK'
    <3>1. FlagsOK /\ ControlOK /\ BatchesOK /\ RowsOK /\ OwnerInv /\ WriterInv
      BY TypeParts DEF IInv
    <3>2. FlagsOK' /\ ControlOK' /\ BatchesOK' /\ RowsOK'
      BY <3>1, FlagStep, ControlStep, BatchStep, RowStep
    <3>3. (FlagsOK /\ ControlOK /\ BatchesOK /\ RowsOK)' => TypeOK'
      BY TypeParts, PTL
    <3> QED
      BY <3>2, <3>3
  <2>2. OwnerInv' /\ WriterInv' /\ StagingInv'
    BY OwnerInvStep, WriterInvStep, StagingInvStep
  <2> QED
    BY <2>1, <2>2 DEF IInv
<1> QED
  BY <1>1, <1>2, PTL DEF Spec

\* Type correctness: one batch in each hand, and a queue within its capacity.
THEOREM TypeCorrect == Spec => []TypeOK
<1>1. IInv => TypeOK
  BY DEF IInv
<1> QED
  BY <1>1, Inductive, PTL

\* Whatever fails: what is published is whole, and neither published nor removed
\* under the hands of the writer, except from one that never ran while start()
\* waited for it, and that one writes no row.
THEOREM Whole == Spec => []PublicationIsWhole
<1>1. IInv => PublicationIsWhole
  <2> SUFFICES ASSUME IInv PROVE PublicationIsWhole
    OBVIOUS
  <2> USE DEF OwnerInv, WriterInv, StagingInv, PublishedPC, CheckedPC, JoinedPC, DrainedPC, PuttingPC, WritingPC
  <2>0. OwnerInv /\ WriterInv /\ StagingInv
        /\ file \in [Relations -> {"none", "open", "closed", "broken"}]
    BY DEF IInv, TypeOK
  <2>1. PublishedIsWhole
    BY <2>0 DEF PublishedIsWhole
  <2>2. WriterKeepsItsDirectory
    BY <2>0 DEF WriterKeepsItsDirectory
  <2> QED
    BY <2>1, <2>2 DEF PublicationIsWhole
<1> QED
  BY <1>1, Inductive, PTL

\* Whatever fails: a write that raises has published everything or nothing.
THEOREM NothingLeft == Spec => []AbortLeavesNothing
<1>1. IInv => AbortLeavesNothing
  BY DEF IInv, OwnerInv, StagingInv, PublishedPC, AbortLeavesNothing
<1> QED
  BY <1>1, Inductive, PTL

-----------------------------------------------------------------------------
(* Every row that is accepted is published, in order.                        *)

\* The numbers after lo and up to hi.
Seg(lo, hi) == [i \in 1..(hi - lo) |-> lo + i]

\* A place that holds one batch, or none, takes the rows of t from lo to hi.
Spans(place, t, lo, hi) ==
  IF place # <<>> /\ place[1].relation = t
  THEN lo <= hi /\ place[1].rows = Seg(lo, hi)
  ELSE lo = hi

\* The rows of t that have been given are spread, in order and without a gap,
\* over its file, the writer, the queue, the owner's hand and its buffer: low
\* is the last one in the file, cut[j] the last one up to the j-th batch in the
\* queue, and high the last one that has left the buffer.
Spread(t, low, cut, high) ==
  /\ written[t] = Seg(0, low)
  /\ Spans(taken, t, low, cut[0])
  /\ \A j \in 1..Len(queue) : Spans(<<queue[j]>>, t, cut[j - 1], cut[j])
  /\ Spans(hand, t, cut[Len(queue)], high)
  /\ high <= given[t] /\ buffer[t] = Seg(high, given[t])

\* The last row given for t, if its append is still waiting for room.
Waiting(t) == pc \in {"put", "wait"} /\ hand # <<>> /\ hand[1].relation = t

Accepted(t) == accepted[t] = Seg(0, IF Waiting(t) THEN given[t] - 1 ELSE given[t])

Flows(t) ==
  /\ Accepted(t)
  /\ \E low, high \in 0..MaxRows, cut \in [0..Len(queue) -> 0..MaxRows] : Spread(t, low, cut, high)

\* Nothing that was accepted is published any more.
Lost == failure \/ pc \in {"cancel", "cancelJoin", "cleanup", "aborted"}

FlowInv ==
  /\ worker = "failed" => failure
  /\ Lost \/ (/\ shut => pc \in DrainedPC
              /\ \A t \in Relations : Flows(t))

(* Segments of numbers. *)
LEMMA SegProperties ==
  ASSUME NEW lo \in Nat, NEW hi \in Nat, lo <= hi
  PROVE  /\ Seg(lo, hi) \in Seq(Nat) /\ Len(Seg(lo, hi)) = hi - lo
         /\ \A i \in 1..(hi - lo) : Seg(lo, hi)[i] = lo + i
<1>1. hi - lo \in Nat
  OBVIOUS
<1> QED
  BY <1>1 DEF Seg

LEMMA SegEmpty == \A n \in Nat : Seg(n, n) = <<>>
<1> SUFFICES ASSUME NEW n \in Nat PROVE Seg(n, n) = <<>>
  OBVIOUS
<1>1. Seg(n, n) \in Seq(Nat) /\ Len(Seg(n, n)) = 0
  BY SegProperties
<1> QED
  BY <1>1, EmptySeq

LEMMA SegAppend ==
  ASSUME NEW lo \in Nat, NEW hi \in Nat, lo <= hi
  PROVE  Append(Seg(lo, hi), hi + 1) = Seg(lo, hi + 1)
<1> DEFINE s == Seg(lo, hi)
           u == Seg(lo, hi + 1)
<1>1. /\ s \in Seq(Nat) /\ Len(s) = hi - lo /\ \A i \in 1..(hi - lo) : s[i] = lo + i
      /\ u \in Seq(Nat) /\ Len(u) = hi + 1 - lo /\ \A i \in 1..(hi + 1 - lo) : u[i] = lo + i
  <2>1. hi + 1 \in Nat /\ lo <= hi + 1
    OBVIOUS
  <2>2. u \in Seq(Nat) /\ Len(u) = hi + 1 - lo /\ \A i \in 1..(hi + 1 - lo) : u[i] = lo + i
    BY <2>1, SegProperties
  <2> QED
    BY <2>2, SegProperties
<1>2. hi + 1 \in Nat /\ hi - lo \in Nat
  OBVIOUS
<1> HIDE DEF s, u
<1>3. /\ Append(s, hi + 1) \in Seq(Nat) /\ Len(Append(s, hi + 1)) = hi + 1 - lo
      /\ \A i \in 1..(hi - lo) : Append(s, hi + 1)[i] = lo + i
      /\ Append(s, hi + 1)[hi - lo + 1] = hi + 1
  BY <1>1, <1>2, AppendProperties
<1>4. \A i \in 1..(hi + 1 - lo) : Append(s, hi + 1)[i] = u[i]
  BY <1>1, <1>2, <1>3
<1>5. Append(s, hi + 1) = u
  BY <1>1, <1>3, <1>4, SeqEqual
<1> QED
  BY <1>5 DEF s, u

LEMMA SegConcat ==
  ASSUME NEW lo \in Nat, NEW mid \in Nat, NEW hi \in Nat, lo <= mid, mid <= hi
  PROVE  Seg(lo, mid) \o Seg(mid, hi) = Seg(lo, hi)
<1> DEFINE s == Seg(lo, mid)
           u == Seg(mid, hi)
           v == Seg(lo, hi)
<1>1. /\ s \in Seq(Nat) /\ Len(s) = mid - lo /\ \A i \in 1..(mid - lo) : s[i] = lo + i
      /\ u \in Seq(Nat) /\ Len(u) = hi - mid /\ \A i \in 1..(hi - mid) : u[i] = mid + i
      /\ v \in Seq(Nat) /\ Len(v) = hi - lo /\ \A i \in 1..(hi - lo) : v[i] = lo + i
  <2>1. s \in Seq(Nat) /\ Len(s) = mid - lo /\ \A i \in 1..(mid - lo) : s[i] = lo + i
    BY SegProperties
  <2>2. u \in Seq(Nat) /\ Len(u) = hi - mid /\ \A i \in 1..(hi - mid) : u[i] = mid + i
    BY SegProperties
  <2>3. v \in Seq(Nat) /\ Len(v) = hi - lo /\ \A i \in 1..(hi - lo) : v[i] = lo + i
    BY SegProperties
  <2> QED
    BY <2>1, <2>2, <2>3
<1> HIDE DEF s, u, v
<1>2. /\ s \o u \in Seq(Nat) /\ Len(s \o u) = hi - lo
      /\ \A i \in 1..(hi - lo) : (s \o u)[i] = IF i <= mid - lo THEN s[i] ELSE u[i - (mid - lo)]
  <2>1. Len(s) + Len(u) = hi - lo
    BY <1>1
  <2>2. /\ s \o u \in Seq(Nat) /\ Len(s \o u) = Len(s) + Len(u)
        /\ \A i \in 1..(Len(s) + Len(u)) : (s \o u)[i] = IF i <= Len(s) THEN s[i] ELSE u[i - Len(s)]
    BY <1>1, ConcatProperties
  <2> QED
    BY <1>1, <2>1, <2>2
<1>3. ASSUME NEW i \in 1..(hi - lo) PROVE (s \o u)[i] = v[i]
  <2>1. (s \o u)[i] = (IF i <= mid - lo THEN s[i] ELSE u[i - (mid - lo)]) /\ v[i] = lo + i
    BY <1>1, <1>2
  <2>2. CASE i <= mid - lo
    BY <1>1, <2>1, <2>2
  <2>3. CASE ~(i <= mid - lo)
    <3>1. i - (mid - lo) \in 1..(hi - mid)
      BY <2>3
    <3>2. u[i - (mid - lo)] = mid + (i - (mid - lo))
      BY <1>1, <3>1
    <3>3. mid + (i - (mid - lo)) = lo + i
      OBVIOUS
    <3> QED
      BY <2>1, <2>3, <3>2, <3>3
  <2> QED
    BY <2>2, <2>3
<1>4. s \o u = v
  BY <1>1, <1>2, <1>3, SeqEqual
<1> QED
  BY <1>4 DEF s, u, v

-----------------------------------------------------------------------------
(* The rows flow from the buffer to the file. *)

\* A step that moves no row.
LEMMA FlowSame ==
  ASSUME NEW t \in Relations, Flows(t),
         UNCHANGED <<given, accepted, buffer, hand, queue, taken, written>>,
         Waiting(t)' <=> Waiting(t)
  PROVE  Flows(t)'
<1>1. Accepted(t)'
  BY DEF Flows, Accepted
<1>2. PICK low \in 0..MaxRows, high \in 0..MaxRows, cut \in [0..Len(queue) -> 0..MaxRows] :
        Spread(t, low, cut, high)
  BY DEF Flows
<1>3. Spread(t, low, cut, high)'
  BY <1>2 DEF Spread
<1> QED
  BY <1>1, <1>3 DEF Flows

\* What is lost stays lost, and a writer that failed has said so.
LEMMA LostStep ==
  ASSUME IInv, FlowInv, [Next]_vars
  PROVE  /\ Lost => Lost'
         /\ (worker = "failed" => failure)'
<1> USE DEF FlowInv, Lost, owner, writer, shared, disk, Owner, Writer
<1>1. CASE UNCHANGED vars
  BY <1>1 DEF vars
<1>2. CASE Enter \/ Start \/ Started \/ Ready
  BY <1>2 DEF Enter, Start, Started, Ready
<1>3. CASE Look \/ Put \/ PutTimeout \/ PutFails \/ PutInterrupted
  BY <1>3 DEF Look, Put, PutTimeout, PutFails, PutInterrupted
<1>4. CASE Drain \/ Join \/ Check \/ Publish
  BY <1>4 DEF Drain, Join, Check, Publish
<1>5. CASE Cancel \/ CancelJoin \/ Cleanup
  BY <1>5 DEF Cancel, CancelJoin, Cleanup
<1>6. CASE Body
  BY <1>6 DEF Body, Collect, Flush, BodyFails, BodyEnds
<1>7. CASE Create \/ Get \/ Write \/ Fail
  BY <1>7 DEF Create, Get, Write, Fail
<1>8. CASE Bootstrap \/ Close \/ End \/ Compete
  BY <1>8 DEF Bootstrap, Close, End, Compete, Discard
<1> QED
  BY <1>1, <1>2, <1>3, <1>4, <1>5, <1>6, <1>7, <1>8 DEF Next, OwnerStep, WriterStep

\* What the types say of the rows, for the steps that move them.
LEMMA FlowTypes ==
  ASSUME IInv
  PROVE  /\ given \in [Relations -> Nat] /\ \A t \in Relations : given[t] \in 0..MaxRows
         /\ accepted \in [Relations -> Seq(1..MaxRows)] /\ buffer \in [Relations -> Seq(1..MaxRows)]
         /\ written \in [Relations -> Seq(1..MaxRows)]
         /\ queue \in Seq(Batch) /\ Len(queue) \in Nat
         /\ hand # <<>> => hand[1] \in Batch /\ hand = <<hand[1]>>
         /\ taken # <<>> => taken[1] \in Batch /\ taken = <<taken[1]>>
         /\ MaxRows \in Nat
<1> USE BoundsAssumption DEF IInv, TypeOK
<1>1. given \in [Relations -> 0..MaxRows] /\ 0..MaxRows \subseteq Nat
  OBVIOUS
<1>2. ASSUME NEW s \in Seq(Batch), Len(s) <= 1, s # <<>> PROVE s[1] \in Batch /\ s = <<s[1]>>
  <2>1. Len(s) = 1 /\ s[1] \in Batch
    <3>1. Len(s) \in Nat \ {0}
      BY <1>2, EmptySeq
    <3> DEFINE n == Len(s)
    <3>2. n = 1
      <4>1. n \in Nat \ {0} /\ n <= 1
        BY <1>2, <3>1
      <4> HIDE DEF n
      <4> QED
        BY <4>1
    <3>3. s[1] \in Batch
      <4>1. 1 \in 1..Len(s)
        BY <3>2
      <4> QED
        BY <4>1, ElementOfSeq
    <3> QED
      BY <3>2, <3>3
  <2>2. <<s[1]>> \in Seq(Batch) /\ Len(<<s[1]>>) = 1 /\ <<s[1]>>[1] = s[1]
    BY <2>1
  <2>3. \A i \in 1..Len(s) : s[i] = <<s[1]>>[i]
    BY <2>1, <2>2
  <2>4. s = <<s[1]>>
    BY <1>2, <2>1, <2>2, <2>3, SeqEqual
  <2> QED
    BY <2>1, <2>4
<1> QED
  BY <1>1, <1>2

\* A row is collected.
LEMMA CollectFlows ==
  ASSUME IInv, Collect, NEW t \in Relations, Flows(t)
  PROVE  Flows(t)'
<1>1. PICK e \in Relations :
        /\ pc = "active" /\ pc' = pc
        /\ given' = [given EXCEPT ![e] = @ + 1] /\ given[e] < MaxRows
        /\ buffer' = [buffer EXCEPT ![e] = Append(@, given'[e])]
        /\ accepted' = [accepted EXCEPT ![e] = Append(@, given'[e])]
        /\ UNCHANGED <<hand, queue, taken, written>>
  BY DEF Collect, writer, shared
<1>2. PICK low \in 0..MaxRows, high \in 0..MaxRows, cut \in [0..Len(queue) -> 0..MaxRows] :
        Spread(t, low, cut, high)
  BY DEF Flows
<1>3. ~Waiting(t) /\ ~Waiting(t)'
  BY <1>1 DEF Waiting
<1>4. accepted[t] = Seg(0, given[t])
  BY <1>3 DEF Flows, Accepted
<1>5. CASE e = t
  <2>1. given'[t] = given[t] + 1 /\ given[t] \in Nat /\ given[t] + 1 \in 0..MaxRows
    BY <1>1, <1>5, FlowTypes
  <2>2. buffer'[t] = Append(buffer[t], given[t] + 1) /\ accepted'[t] = Append(accepted[t], given[t] + 1)
    BY <1>1, <1>5, <2>1, FlowTypes
  <2>3. high \in Nat /\ high <= given[t] /\ buffer[t] = Seg(high, given[t])
    BY <1>2, FlowTypes DEF Spread
  <2>4. buffer'[t] = Seg(high, given'[t]) /\ high <= given'[t]
    <3>1. Append(Seg(high, given[t]), given[t] + 1) = Seg(high, given[t] + 1)
      BY <2>1, <2>3, SegAppend
    <3> QED
      BY <2>1, <2>2, <2>3, <3>1
  <2>5. accepted'[t] = Seg(0, given'[t])
    <3>1. Append(Seg(0, given[t]), given[t] + 1) = Seg(0, given[t] + 1)
      <4>1. 0 \in Nat /\ given[t] \in Nat /\ 0 <= given[t]
        BY <2>1
      <4> QED
        BY <4>1, SegAppend
    <3> QED
      BY <1>4, <2>1, <2>2, <3>1
  <2>6. Spread(t, low, cut, high)'
    BY <1>1, <1>2, <2>4 DEF Spread
  <2>7. Accepted(t)'
    BY <1>3, <2>5 DEF Accepted
  <2>8. queue' = queue
    BY <1>1
  <2> QED
    BY <2>6, <2>7, <2>8 DEF Flows
<1>6. CASE e # t
  <2>1. given'[t] = given[t] /\ buffer'[t] = buffer[t] /\ accepted'[t] = accepted[t]
    BY <1>1, <1>6, FlowTypes
  <2>2. Spread(t, low, cut, high)'
    BY <1>1, <1>2, <2>1 DEF Spread
  <2>3. Accepted(t)'
    BY <1>3, <1>4, <2>1 DEF Accepted
  <2>4. queue' = queue
    BY <1>1
  <2> QED
    BY <2>2, <2>3, <2>4 DEF Flows
<1> QED
  BY <1>5, <1>6

\* A full batch, or what is left in a buffer, goes into the hand.
LEMMA BatchFlows ==
  ASSUME IInv, NEW t \in Relations, Flows(t), NEW e \in Relations, hand = <<>>,
         NEW rows, hand' = <<[relation |-> e, rows |-> rows]>>,
         buffer' = [buffer EXCEPT ![e] = <<>>],
         UNCHANGED <<accepted, queue, taken, written>>,
         \/ /\ pc = "active" /\ pc' = "put" /\ given[e] < MaxRows
            /\ given' = [given EXCEPT ![e] = @ + 1]
            /\ rows = Append(buffer[e], given[e] + 1)
         \/ /\ pc = "drain" /\ pc' = "putDrain" /\ given' = given
            /\ rows = buffer[e]
  PROVE  Flows(t)'
<1>1. PICK low \in 0..MaxRows, high \in 0..MaxRows, cut \in [0..Len(queue) -> 0..MaxRows] :
        Spread(t, low, cut, high)
  BY DEF Flows
<1>2. hand' # <<>> /\ hand'[1].relation = e /\ hand'[1].rows = rows
  OBVIOUS
<1>3. ~Waiting(t) /\ accepted[t] = Seg(0, given[t])
  BY DEF Waiting, Flows, Accepted
<1>4. CASE e = t
  <2>1. /\ high \in Nat /\ high <= given[t] /\ buffer[t] = Seg(high, given[t])
        /\ high = cut[Len(queue)]
    BY <1>1, FlowTypes DEF Spread, Spans
  <2>2. /\ given'[t] \in 0..MaxRows /\ given'[t] \in Nat /\ high <= given'[t]
        /\ rows = Seg(high, given'[t])
        /\ given[t] = IF pc' = "put" THEN given'[t] - 1 ELSE given'[t]
    <3>1. CASE given' = given /\ rows = buffer[e] /\ pc' = "putDrain"
      BY <1>4, <2>1, <3>1, FlowTypes
    <3>2. CASE /\ given[e] < MaxRows /\ given' = [given EXCEPT ![e] = @ + 1] /\ pc' = "put"
               /\ rows = Append(buffer[e], given[e] + 1)
      <4>1. given'[t] = given[t] + 1 /\ given[t] \in Nat /\ given[t] + 1 \in 0..MaxRows
        BY <1>4, <3>2, FlowTypes
      <4>2. Append(Seg(high, given[t]), given[t] + 1) = Seg(high, given[t] + 1)
        BY <2>1, <4>1, SegAppend
      <4> QED
        BY <1>4, <2>1, <3>2, <4>1, <4>2
    <3> QED
      BY <3>1, <3>2
  <2> PICK n \in 0..MaxRows : n = given'[t]
    BY <2>2
  <2>3. buffer'[t] = Seg(n, n)
    BY <1>4, <2>2, FlowTypes, SegEmpty
  <2>4. Spans(hand', t, cut[Len(queue)], n)
    BY <1>2, <1>4, <2>1, <2>2 DEF Spans
  <2>5. /\ written'[t] = Seg(0, low) /\ Spans(taken', t, low, cut[0])
        /\ \A j \in 1..Len(queue) : Spans(<<queue[j]>>, t, cut[j - 1], cut[j])
    BY <1>1 DEF Spread
  <2>6. Spread(t, low, cut, n)'
    <3>1. n <= given'[t] /\ buffer'[t] = Seg(n, given'[t])
      BY <2>2, <2>3
    <3>2. \A j \in 1..Len(queue') : Spans(<<queue'[j]>>, t, cut[j - 1], cut[j])
      BY <2>5
    <3> QED
      BY <2>4, <2>5, <3>1, <3>2 DEF Spread
  <2>7. Waiting(t)' <=> pc' = "put"
    BY <1>2, <1>4 DEF Waiting
  <2>8. Accepted(t)'
    BY <1>3, <2>2, <2>7 DEF Accepted
  <2>9. queue' = queue
    OBVIOUS
  <2> QED
    BY <2>6, <2>8, <2>9 DEF Flows
<1>5. CASE e # t
  <2>1. given'[t] = given[t] /\ buffer'[t] = buffer[t] /\ accepted'[t] = accepted[t] /\ queue' = queue
    BY <1>5, FlowTypes
  <2>2. ~Waiting(t)'
    BY <1>2, <1>5 DEF Waiting
  <2>3. Spans(hand', t, cut[Len(queue)], high)
    BY <1>1, <1>2, <1>5 DEF Spread, Spans
  <2>4. Spread(t, low, cut, high)'
    BY <1>1, <2>1, <2>3 DEF Spread, Spans
  <2>5. Accepted(t)'
    BY <1>3, <2>1, <2>2 DEF Accepted
  <2> QED
    BY <2>1, <2>4, <2>5 DEF Flows
<1> QED
  BY <1>4, <1>5

\* A batch goes from the hand into the queue, and its last row is accepted.
LEMMA PutFlows ==
  ASSUME IInv, Put, NEW t \in Relations, Flows(t)
  PROVE  Flows(t)'
<1> DEFINE len == Len(queue)
           r == hand[1].relation
<1>1. PICK low \in 0..MaxRows, high \in 0..MaxRows, cut \in [0..len -> 0..MaxRows] :
        Spread(t, low, cut, high)
  BY DEF Flows
<1>2. /\ queue' = Append(queue, hand[1]) /\ hand' = <<>>
      /\ UNCHANGED <<given, buffer, taken, written>>
      /\ \/ pc = "wait" /\ pc' = "active" /\ AcceptLast
         \/ pc = "waitDrain" /\ pc' = "drain" /\ UNCHANGED accepted
  BY DEF Put, Owner, writer
<1>3. hand # <<>> /\ hand = <<hand[1]>> /\ hand[1] \in Batch /\ r \in Relations
      /\ queue \in Seq(Batch) /\ len \in Nat /\ (pc = "wait" => given[r] > 0)
      /\ given[r] \in Nat
  <2>1. hand # <<>> /\ (pc = "wait" => given[r] > 0)
    BY <1>2 DEF IInv, OwnerInv, PuttingPC
  <2>2. hand[1] \in Batch /\ hand = <<hand[1]>> /\ queue \in Seq(Batch) /\ len \in Nat
    BY <2>1, FlowTypes
  <2>3. r \in Relations
    BY <2>2 DEF Batch
  <2> QED
    BY <2>1, <2>2, <2>3, FlowTypes
<1>4. /\ Len(queue') = len + 1 /\ queue'[len + 1] = hand[1]
      /\ \A j \in 1..len : queue'[j] = queue[j]
  BY <1>2, <1>3, AppendProperties
<1>5. PICK more \in [0..Len(queue') -> 0..MaxRows] :
        /\ \A j \in 0..len : more[j] = cut[j]
        /\ more[len + 1] = high /\ more[Len(queue')] = high
  <2> DEFINE longer == [j \in 0..(len + 1) |-> IF j = len + 1 THEN high ELSE cut[j]]
  <2>1. /\ longer \in [0..Len(queue') -> 0..MaxRows]
        /\ \A j \in 0..len : longer[j] = cut[j]
        /\ longer[len + 1] = high /\ longer[Len(queue')] = high
    BY <1>3, <1>4
  <2> HIDE DEF longer
  <2> QED
    BY <2>1
<1>6. ASSUME NEW j \in 1..Len(queue') PROVE Spans(<<queue'[j]>>, t, more[j - 1], more[j])
  <2>1. CASE j = len + 1
    <3>1. more[j - 1] = cut[len] /\ more[j] = high /\ <<queue'[j]>> = hand
      BY <1>3, <1>4, <1>5, <2>1
    <3> QED
      BY <1>1, <3>1 DEF Spread
  <2>2. CASE j # len + 1
    <3>1. j \in 1..len /\ j - 1 \in 0..len /\ j \in 0..len
      BY <1>3, <1>4, <2>2
    <3>2. more[j - 1] = cut[j - 1] /\ more[j] = cut[j] /\ queue'[j] = queue[j]
      BY <1>4, <1>5, <3>1
    <3> QED
      BY <1>1, <3>1, <3>2 DEF Spread
  <2> QED
    BY <2>1, <2>2
<1>7. Spread(t, low, more, high)'
  <2>1. written'[t] = Seg(0, low) /\ Spans(taken', t, low, more[0])
    BY <1>1, <1>2, <1>3, <1>5 DEF Spread
  <2>2. Spans(hand', t, more[Len(queue')], high)
    BY <1>2, <1>5 DEF Spans
  <2>3. high <= given'[t] /\ buffer'[t] = Seg(high, given'[t])
    BY <1>1, <1>2 DEF Spread
  <2> QED
    BY <1>6, <2>1, <2>2, <2>3 DEF Spread
<1>8. Accepted(t)'
  <2>1. ~Waiting(t)' /\ given'[t] = given[t]
    BY <1>2 DEF Waiting
  <2>2. CASE pc = "wait" /\ r = t
    <3>1. accepted[t] = Seg(0, given[t] - 1)
      BY <1>3, <2>2 DEF Flows, Accepted, Waiting
    <3>2. accepted'[t] = Append(accepted[t], given[t])
      BY <1>2, <2>2, FlowTypes DEF AcceptLast
    <3>3. given[t] - 1 \in Nat /\ 0 \in Nat /\ 0 <= given[t] - 1 /\ (given[t] - 1) + 1 = given[t]
      BY <1>3, <2>2
    <3>4. Append(Seg(0, given[t] - 1), (given[t] - 1) + 1) = Seg(0, (given[t] - 1) + 1)
      BY <3>3, SegAppend
    <3> QED
      BY <2>1, <3>1, <3>2, <3>3, <3>4 DEF Accepted
  <2>3. CASE ~(pc = "wait" /\ r = t)
    <3>1. accepted[t] = Seg(0, given[t])
      BY <1>2, <2>3 DEF Flows, Accepted, Waiting
    <3>2. accepted'[t] = accepted[t]
      BY <1>2, <1>3, <2>3, FlowTypes DEF AcceptLast
    <3> QED
      BY <2>1, <3>1, <3>2 DEF Accepted
  <2> QED
    BY <2>2, <2>3
<1> QED
  BY <1>5, <1>7, <1>8 DEF Flows

\* The writer takes the first batch of the queue.
LEMMA GetFlows ==
  ASSUME IInv, queue # <<>>, taken = <<>>, taken' = <<Head(queue)>>, queue' = Tail(queue),
         UNCHANGED <<pc, given, accepted, buffer, hand, written>>,
         NEW t \in Relations, Flows(t)
  PROVE  Flows(t)'
<1> DEFINE len == Len(queue)
<1>1. PICK low \in 0..MaxRows, high \in 0..MaxRows, cut \in [0..len -> 0..MaxRows] :
        Spread(t, low, cut, high)
  BY DEF Flows
<1>2. /\ queue \in Seq(Batch) /\ len \in Nat \ {0} /\ Len(queue') = len - 1
      /\ Head(queue) = queue[1] /\ \A j \in 1..(len - 1) : queue'[j] = queue[j + 1]
  <2>1. queue \in Seq(Batch) /\ len \in Nat \ {0}
    BY FlowTypes, EmptySeq
  <2> QED
    BY <2>1, HeadTailProperties
<1>3. PICK less \in [0..Len(queue') -> 0..MaxRows] :
        /\ \A j \in 0..(len - 1) : less[j] = cut[j + 1]
        /\ less[0] = cut[1] /\ less[Len(queue')] = cut[len]
  <2> DEFINE shorter == [j \in 0..(len - 1) |-> cut[j + 1]]
  <2>1. /\ shorter \in [0..Len(queue') -> 0..MaxRows]
        /\ \A j \in 0..(len - 1) : shorter[j] = cut[j + 1]
        /\ shorter[0] = cut[1] /\ shorter[Len(queue')] = cut[len]
    BY <1>2
  <2> HIDE DEF shorter
  <2> QED
    BY <2>1
<1>4. ASSUME NEW j \in 1..Len(queue') PROVE Spans(<<queue'[j]>>, t, less[j - 1], less[j])
  <2>1. /\ j \in 1..(len - 1) /\ j - 1 \in 0..(len - 1) /\ j \in 0..(len - 1)
        /\ j + 1 \in 1..len /\ (j - 1) + 1 = j /\ (j + 1) - 1 = j
    BY <1>2
  <2>2. less[j - 1] = cut[j] /\ less[j] = cut[j + 1] /\ queue'[j] = queue[j + 1]
    BY <1>2, <1>3, <2>1
  <2>3. Spans(<<queue[j + 1]>>, t, cut[(j + 1) - 1], cut[j + 1])
    BY <1>1, <2>1 DEF Spread
  <2> QED
    BY <2>1, <2>2, <2>3
<1>5. Spans(taken', t, low, less[0])
  <2>1. low = cut[0]
    BY <1>1 DEF Spread, Spans
  <2>2. 1 \in 1..len /\ 1 - 1 = 0
    BY <1>2
  <2>3. Spans(<<queue[1]>>, t, cut[1 - 1], cut[1])
    BY <1>1, <2>2 DEF Spread
  <2>4. taken' = <<queue[1]>>
    BY <1>2
  <2> QED
    BY <1>3, <2>1, <2>2, <2>3, <2>4
<1>6. Spread(t, low, less, high)'
  <2>1. Spans(hand', t, less[Len(queue')], high)
    BY <1>1, <1>3 DEF Spread
  <2>2. written'[t] = Seg(0, low) /\ high <= given'[t] /\ buffer'[t] = Seg(high, given'[t])
    BY <1>1 DEF Spread
  <2> QED
    BY <1>4, <1>5, <2>1, <2>2 DEF Spread
<1>7. Accepted(t)'
  BY DEF Flows, Accepted, Waiting
<1> QED
  BY <1>3, <1>6, <1>7 DEF Flows

\* The writer adds the batch it has taken to the file.
LEMMA WriteFlows ==
  ASSUME IInv, taken # <<>>, taken' = <<>>,
         written' = [written EXCEPT ![taken[1].relation] = @ \o taken[1].rows],
         UNCHANGED <<pc, given, accepted, buffer, hand, queue>>,
         NEW t \in Relations, Flows(t)
  PROVE  Flows(t)'
<1>1. PICK low \in 0..MaxRows, high \in 0..MaxRows, cut \in [0..Len(queue) -> 0..MaxRows] :
        Spread(t, low, cut, high)
  BY DEF Flows
<1>2. cut[0] \in 0..MaxRows /\ cut[0] \in Nat /\ low \in Nat /\ 0 <= low
  <2>1. 0 \in 0..Len(queue) /\ MaxRows \in Nat
    BY FlowTypes
  <2> QED
    BY <2>1
<1>3. written'[t] = Seg(0, cut[0])
  <2>1. CASE taken[1].relation = t
    <3>1. low <= cut[0] /\ taken[1].rows = Seg(low, cut[0]) /\ written[t] = Seg(0, low)
      BY <1>1, <2>1 DEF Spread, Spans
    <3>2. Seg(0, low) \o Seg(low, cut[0]) = Seg(0, cut[0])
      BY <1>2, <3>1, SegConcat
    <3> QED
      BY <2>1, <3>1, <3>2, FlowTypes
  <2>2. CASE taken[1].relation # t
    BY <1>1, <2>2, FlowTypes DEF Spread, Spans
  <2> QED
    BY <2>1, <2>2
<1>4. PICK n \in 0..MaxRows : n = cut[0]
  BY <1>2
<1>5. Spread(t, n, cut, high)'
  BY <1>1, <1>3, <1>4 DEF Spread, Spans
<1>6. Accepted(t)'
  BY DEF Flows, Accepted, Waiting
<1> QED
  BY <1>5, <1>6 DEF Flows

\* The first state, where no row is anywhere.
LEMMA InitFlows == Init => FlowInv
<1> SUFFICES ASSUME Init PROVE FlowInv
  OBVIOUS
<1>1. MaxRows \in Nat /\ 0 \in 0..MaxRows
  BY BoundsAssumption
<1>2. Seg(0, 0) = <<>>
  BY SegEmpty
<1>3. ASSUME NEW t \in Relations PROVE Flows(t)
  <2>1. /\ given[t] = 0 /\ accepted[t] = <<>> /\ buffer[t] = <<>> /\ written[t] = <<>>
        /\ hand = <<>> /\ taken = <<>> /\ queue = <<>> /\ Len(queue) = 0
    BY DEF Init
  <2>2. Accepted(t)
    BY <1>2, <2>1 DEF Accepted, Waiting
  <2> DEFINE cut == [j \in 0..0 |-> 0]
  <2>3. cut \in [0..Len(queue) -> 0..MaxRows] /\ cut[0] = 0
    BY <1>1, <2>1
  <2> HIDE DEF cut
  <2>4. Spread(t, 0, cut, 0)
    BY <1>2, <2>1, <2>3 DEF Spread, Spans
  <2> QED
    BY <1>1, <2>2, <2>3, <2>4 DEF Flows
<1> QED
  BY <1>3 DEF Init, FlowInv

\* Every step keeps the rows in order, or loses all of them: an interrupt
\* while a batch waits for room loses them too, if the body lets it pass.
LEMMA FlowStep ==
  ASSUME IInv, FlowInv, ~Catches, [Next]_vars
  PROVE  FlowInv'
<1>1. (Lost => Lost') /\ (worker = "failed" => failure)'
  BY LostStep
<1>2. SUFFICES ASSUME ~Lost, ~Lost'
               PROVE  (shut => pc \in DrainedPC)' /\ \A t \in Relations : Flows(t)'
  BY <1>1 DEF FlowInv
<1>3. /\ worker # "failed" /\ ~failure /\ ~failure'
      /\ pc \notin {"cancel", "cancelJoin", "cleanup", "aborted"}
      /\ pc' \notin {"cancel", "cancelJoin", "cleanup", "aborted"}
      /\ shut => pc \in DrainedPC
      /\ \A t \in Relations : Flows(t)
  BY <1>2 DEF FlowInv, Lost
<1>4. ASSUME UNCHANGED <<given, accepted, buffer, hand, queue, taken, written>>,
             pc' \in {"put", "wait"} <=> pc \in {"put", "wait"}
      PROVE  \A t \in Relations : Flows(t)'
  <2>1. \A t \in Relations : Waiting(t)' <=> Waiting(t)
    BY <1>4 DEF Waiting
  <2> QED
    BY <1>3, <1>4, <2>1, FlowSame
<1> USE DEF owner, writer, shared, disk, Owner, Writer
<1>5. CASE UNCHANGED vars
  BY <1>3, <1>4, <1>5 DEF vars
<1>6. CASE Enter \/ Start \/ Started \/ Ready \/ Look \/ PutTimeout
  BY <1>3, <1>4, <1>6 DEF Enter, Start, Started, Ready, Look, PutTimeout, DrainedPC, JoinedPC, CheckedPC, PublishedPC
<1>7. CASE BodyEnds \/ Join \/ Check \/ Publish
  BY <1>3, <1>4, <1>7 DEF BodyEnds, Join, Check, Publish, DrainedPC, JoinedPC, CheckedPC, PublishedPC
<1>8. CASE Bootstrap \/ Create \/ End \/ Close \/ Compete
  BY <1>3, <1>4, <1>8 DEF Bootstrap, Create, End, Close, Compete
<1>9. CASE PutFails \/ PutInterrupted \/ BodyFails \/ Cancel \/ CancelJoin \/ Cleanup \/ Fail
  BY <1>3, <1>9 DEF PutFails, PutInterrupted, BodyFails, Cancel, CancelJoin, Cleanup, Fail,
                    DrainedPC, JoinedPC, CheckedPC, PublishedPC
<1>10. CASE Put
  <2>1. \A t \in Relations : Flows(t)'
    BY <1>3, <1>10, PutFlows
  <2>2. ~shut /\ UNCHANGED shut
    BY <1>10 DEF Put
  <2> QED
    BY <2>1, <2>2
<1>11. CASE Collect
  <2>1. \A t \in Relations : Flows(t)'
    BY <1>3, <1>11, CollectFlows
  <2>2. UNCHANGED <<pc, shut>>
    BY <1>11 DEF Collect
  <2> QED
    BY <1>3, <2>1, <2>2
<1>12. CASE Flush
  <2>1. PICK e \in Relations :
          /\ pc = "active" /\ pc' = "put" /\ given[e] < MaxRows
          /\ given' = [given EXCEPT ![e] = @ + 1]
          /\ hand' = <<[relation |-> e, rows |-> Append(buffer[e], given'[e])]>>
          /\ buffer' = [buffer EXCEPT ![e] = <<>>]
          /\ UNCHANGED <<accepted, queue, taken, written, shut>>
    BY <1>12 DEF Flush
  <2>2. hand = <<>>
    BY <2>1 DEF IInv, OwnerInv, PuttingPC
  <2>3. given'[e] = given[e] + 1
    BY <2>1, FlowTypes
  <2>4. \A t \in Relations : Flows(t)'
    BY <1>3, <2>1, <2>2, <2>3, BatchFlows
  <2> QED
    BY <1>3, <2>1, <2>4 DEF DrainedPC, JoinedPC, CheckedPC, PublishedPC
<1>13. CASE Drain
  <2>1. CASE pc' = "join"
    BY <1>3, <1>4, <1>13, <2>1 DEF Drain, DrainedPC
  <2>2. CASE pc' # "join"
    <3>1. PICK e \in Relations :
            /\ pc = "drain" /\ pc' = "putDrain"
            /\ hand' = <<[relation |-> e, rows |-> buffer[e]]>>
            /\ buffer' = [buffer EXCEPT ![e] = <<>>]
            /\ UNCHANGED <<given, accepted, queue, taken, written, shut>>
      BY <1>13, <2>2 DEF Drain
    <3>2. hand = <<>>
      BY <3>1 DEF IInv, OwnerInv, PuttingPC
    <3>3. \A t \in Relations : Flows(t)'
      BY <1>3, <3>1, <3>2, BatchFlows
    <3> QED
      BY <1>3, <3>1, <3>3 DEF DrainedPC, JoinedPC, CheckedPC, PublishedPC
  <2> QED
    BY <2>1, <2>2
<1>14. CASE Get
  <2>1. UNCHANGED <<pc, shut>>
    BY <1>14 DEF Get
  <2>2. CASE worker' = "close"
    BY <1>3, <1>4, <1>14, <2>1, <2>2 DEF Get
  <2>3. CASE worker' # "close"
    <3>1. /\ queue # <<>> /\ taken' = <<Head(queue)>> /\ queue' = Tail(queue) /\ worker = "get"
          /\ UNCHANGED <<pc, given, accepted, buffer, hand, written>>
      BY <1>14, <2>3 DEF Get
    <3>2. taken = <<>>
      BY <3>1 DEF IInv, WriterInv
    <3> QED
      BY <1>3, <2>1, <3>1, <3>2, GetFlows
  <2> QED
    BY <2>2, <2>3
<1>15. CASE Write
  <2>1. /\ worker = "write" /\ taken' = <<>>
        /\ written' = [written EXCEPT ![taken[1].relation] = @ \o taken[1].rows]
        /\ UNCHANGED <<pc, given, accepted, buffer, hand, queue, shut>>
    BY <1>3, <1>15 DEF Write
  <2>2. taken # <<>>
    BY <2>1 DEF IInv, WriterInv
  <2> QED
    BY <1>3, <2>1, <2>2, WriteFlows
<1> QED
  BY <1>5, <1>6, <1>7, <1>8, <1>9, <1>10, <1>11, <1>12, <1>13, <1>14, <1>15
     DEF Next, OwnerStep, Body, WriterStep

\* The invariant of the rows, for bodies that let interrupts pass.
THEOREM RowsFlow ==
  ASSUME ~Catches
  PROVE  Spec => []FlowInv
<1>1. IInv /\ FlowInv /\ [Next]_vars => FlowInv'
  BY FlowStep
<1> QED
  BY <1>1, InitFlows, Inductive, PTL DEF Spec

\* When the writer has ended well, every accepted row is in its file, in order.
LEMMA FilesAreWhole ==
  ASSUME IInv, FlowInv, pc \in JoinedPC, NEW t \in Relations
  PROVE  written[t] = accepted[t]
<1>1. /\ worker = "over" /\ ~failure /\ hand = <<>> /\ taken = <<>> /\ queue = <<>>
      /\ buffer[t] = <<>> /\ ~Lost
  BY DEF IInv, OwnerInv, WriterInv, JoinedPC, DrainedPC, CheckedPC, PublishedPC, PuttingPC, Lost
<1>2. Flows(t)
  BY <1>1 DEF FlowInv
<1>3. PICK low \in 0..MaxRows, high \in 0..MaxRows, cut \in [0..Len(queue) -> 0..MaxRows] :
        Spread(t, low, cut, high)
  BY <1>2 DEF Flows
<1>4. Len(queue) = 0
  BY <1>1
<1>5. written[t] = Seg(0, high) /\ high <= given[t] /\ buffer[t] = Seg(high, given[t])
  BY <1>1, <1>3, <1>4 DEF Spread, Spans
<1>6. high \in Nat /\ given[t] \in Nat
  BY FlowTypes
<1>7. Len(Seg(high, given[t])) = given[t] - high
  BY <1>5, <1>6, SegProperties
<1>8. high = given[t]
  BY <1>1, <1>5, <1>6, <1>7
<1>9. accepted[t] = Seg(0, given[t])
  BY <1>1, <1>2 DEF Flows, Accepted, Waiting
<1> QED
  BY <1>5, <1>8, <1>9

\* Every step of the two threads is a step of the contract, or none.
LEMMA ContractStep ==
  ASSUME IInv, FlowInv, [Next]_vars
  PROVE  [Contract!WriteNext]_(Contract!mcvars)
<1> DEFINE content == [t \in Relations |-> IF destination = "ours" THEN written[t] ELSE <<>>]
           open == pc \notin EndPC
<1>0. OwnerInv /\ WriterInv /\ accepted \in [Relations -> Seq(1..MaxRows)]
  BY FlowTypes DEF IInv
<1>1. ASSUME UNCHANGED <<accepted, destination>>, open' <=> open,
             destination = "ours" => UNCHANGED written
      PROVE  UNCHANGED Contract!mcvars
  <2>1. content' = content
    BY <1>1
  <2>2. open' = open
    BY <1>1
  <2> QED
    BY <1>1, <2>1, <2>2 DEF Contract!mcvars
<1> USE DEF owner, writer, shared, disk, Owner, Writer, EndPC
<1>2. CASE UNCHANGED vars
  BY <1>1, <1>2 DEF vars
<1>3. CASE Enter \/ Start \/ Started \/ Ready \/ Look \/ PutTimeout
  BY <1>1, <1>3 DEF Enter, Start, Started, Ready, Look, PutTimeout
<1>4. CASE PutFails \/ PutInterrupted \/ BodyFails \/ BodyEnds \/ Flush
  BY <1>1, <1>4 DEF PutFails, PutInterrupted, BodyFails, BodyEnds, Flush
<1>5. CASE Drain \/ Join \/ Check \/ Cancel \/ CancelJoin
  BY <1>1, <1>5 DEF Drain, Join, Check, Cancel, CancelJoin
<1>6. CASE Bootstrap \/ Create \/ Get \/ Fail \/ Close \/ End
  BY <1>1, <1>6 DEF Bootstrap, Create, Get, Fail, Close, End
<1>7. CASE Write
  <2>1. destination # "ours"
    BY <1>0, <1>7 DEF Write, OwnerInv, JoinedPC, CheckedPC, PublishedPC
  <2> QED
    BY <1>1, <1>7, <2>1 DEF Write
<1>8. ASSUME NEW t \in Relations, NEW n \in 1..MaxRows,
             accepted' = [accepted EXCEPT ![t] = Append(@, n)],
             pc \in {"active", "wait"}, pc' = "active", UNCHANGED <<written, destination>>
      PROVE  Contract!Accept
  <2>1. content' = content /\ open /\ open' /\ open' = open
    BY <1>8
  <2> QED
    BY <1>8, <2>1 DEF Contract!Accept
<1>9. CASE Collect
  <2>1. PICK t \in Relations :
          /\ pc = "active" /\ pc' = pc /\ given[t] < MaxRows
          /\ given' = [given EXCEPT ![t] = @ + 1]
          /\ accepted' = [accepted EXCEPT ![t] = Append(@, given'[t])]
          /\ UNCHANGED <<written, destination>>
    BY <1>9 DEF Collect
  <2>2. given'[t] = given[t] + 1 /\ given[t] \in Nat /\ MaxRows \in Nat
    BY <2>1, FlowTypes
  <2>3. given'[t] \in 1..MaxRows
    BY <2>1, <2>2
  <2> QED
    BY <1>8, <2>1, <2>3 DEF Contract!WriteNext
<1>10. CASE Put
  <2>1. CASE pc = "waitDrain"
    BY <1>1, <1>10, <2>1 DEF Put
  <2>2. CASE pc # "waitDrain"
    <3>1. pc = "wait" /\ pc' = "active" /\ AcceptLast /\ UNCHANGED <<written, destination>>
      BY <1>10, <2>2 DEF Put
    <3>2. hand # <<>> /\ given[hand[1].relation] > 0
      BY <1>0, <3>1 DEF OwnerInv, PuttingPC
    <3>3. hand[1].relation \in Relations
      BY <3>2, FlowTypes DEF Batch
    <3>4. given[hand[1].relation] \in 1..MaxRows
      <4>1. given[hand[1].relation] \in 0..MaxRows /\ MaxRows \in Nat
        BY <3>3, FlowTypes
      <4> QED
        BY <3>2, <4>1
    <3> QED
      BY <1>8, <3>1, <3>3, <3>4 DEF AcceptLast, Contract!WriteNext
  <2> QED
    BY <2>1, <2>2
<1>11. CASE Publish
  <2>1. CASE pc' = "cancel"
    BY <1>1, <1>11, <2>1 DEF Publish
  <2>2. CASE pc' # "cancel"
    <3>1. /\ pc = "publish" /\ pc' \in {"committed", "raised"}
          /\ destination = "none" /\ destination' = "ours"
          /\ UNCHANGED <<accepted, written>>
      BY <1>11, <2>2 DEF Publish
    <3>2. \A t \in Relations : written[t] = accepted[t]
      BY <3>1, FilesAreWhole DEF JoinedPC, CheckedPC
    <3>3. content' = accepted
      BY <1>0, <3>1, <3>2
    <3>4. open = TRUE /\ open' = FALSE
      BY <3>1
    <3>5. Contract!Commit
      BY <3>1, <3>3, <3>4 DEF Contract!Commit
    <3> QED
      BY <3>5 DEF Contract!WriteNext
  <2> QED
    BY <2>1, <2>2
<1>12. CASE Cleanup
  <2>1. /\ pc = "cleanup" /\ pc' = "aborted"
        /\ UNCHANGED <<accepted, written, destination>>
    BY <1>12 DEF Cleanup
  <2>2. open = TRUE /\ open' = FALSE /\ content' = content
    BY <2>1
  <2>3. Contract!Abort
    BY <2>1, <2>2 DEF Contract!Abort
  <2> QED
    BY <2>3 DEF Contract!WriteNext
<1>13. CASE Compete
  <2>1. /\ destination = "none" /\ destination' = "foreign"
        /\ UNCHANGED <<pc, accepted, written>>
    BY <1>13 DEF Compete
  <2>2. open' = open /\ content' = content
    BY <2>1
  <2>3. Contract!Compete
    BY <2>1, <2>2 DEF Contract!Compete
  <2> QED
    BY <2>3 DEF Contract!WriteNext
<1> QED
  BY <1>2, <1>3, <1>4, <1>5, <1>6, <1>7, <1>9, <1>10, <1>11, <1>12, <1>13
     DEF Next, OwnerStep, Body, WriterStep

\* Owner and writer together keep the promise of a Datasource write, for any
\* relations, batches, queue, failures and interrupts, as long as the body
\* does not go on after an interrupt: the rows that were accepted, all of them
\* and in order, become the destination in one step, or nothing does.
THEOREM Refinement ==
  ASSUME ~Catches
  PROVE  Spec => ImplementsContract
<1>1. Init => Contract!WriteInit
  <2> SUFFICES ASSUME Init PROVE Contract!WriteInit
    OBVIOUS
  <2>1. (pc \notin EndPC) = TRUE
    BY DEF Init, EndPC
  <2>2. [t \in Relations |-> IF destination = "ours" THEN written[t] ELSE <<>>]
          = [t \in Relations |-> <<>>]
    BY DEF Init
  <2> QED
    BY <2>1, <2>2 DEF Init, Contract!WriteInit
<1>2. IInv /\ FlowInv /\ [Next]_vars => [Contract!WriteNext]_(Contract!mcvars)
  BY ContractStep
<1> QED
  BY <1>1, <1>2, Inductive, RowsFlow, PTL DEF Spec, ImplementsContract, Contract!WriteSpec

\* Such a body also finds every row that it saw accepted in the destination:
\* what is lost in the other case is lost by the interrupt alone.
THEOREM AcceptedArePublished ==
  ASSUME ~Catches
  PROVE  Spec => []AcceptedRowsArePublished
<1>1. IInv /\ FlowInv => AcceptedRowsArePublished
  BY FilesAreWhole DEF IInv, OwnerInv, JoinedPC, CheckedPC, AcceptedRowsArePublished
<1> QED
  BY <1>1, Inductive, RowsFlow, PTL
=============================================================================
