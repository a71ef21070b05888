-------------------------- MODULE WriteTransaction --------------------------
(***************************************************************************)
(* One Datasource write (_WriteTransaction in                              *)
(* workflow/api/dataprovider/_write.py).  The owner thread accepts rows,   *)
(* collects them per relation, and hands batches through a bounded queue   *)
(* to a writer thread, which alone writes the Parquet files of a staging   *)
(* directory.  Leaving the `with` body drains, joins and renames the       *)
(* staging directory to the destination; anything else takes it away.      *)
(*                                                                         *)
(* A row is the number of the append it was given in.  One action is one   *)
(* call that the other thread, another process or an interrupt can come    *)
(* between.  Interrupts (KeyboardInterrupt in the owner) are taken where   *)
(* the owner waits, makes the staging directory, or publishes it.          *)
(***************************************************************************)
EXTENDS Naturals, Sequences

CONSTANTS
  Relations,  \* the relations of the Datasource Schema
  MaxRows,    \* bound on the rows given for each relation
  BatchRows,  \* _MAX_BATCH_ROWS; a batch of large rows is cut off earlier
  Capacity,   \* _QUEUE_CAPACITY
  MaxFaults,  \* bound on failed calls and interrupts together
  Catches     \* whether the `with` body handles an interrupt and goes on

ASSUME BoundsAssumption == MaxRows \in Nat /\ BatchRows \in Nat \ {0} /\ MaxFaults \in Nat
ASSUME CapacityAssumption == Capacity \in Nat \ {0}
ASSUME CatchesAssumption == Catches \in BOOLEAN

VARIABLES
  pc,           \* the next step of the owner
  given,        \* the appends made for each relation
  accepted,     \* history: the rows whose append has returned
  buffer,       \* _buffers
  hand,         \* the batch the owner is putting, at most one
  worker,       \* the next step of the writer thread; "new" until it runs
  started,      \* history: Thread.start() has returned
  ready,        \* _worker_ready
  taken,        \* the batch the writer has got, at most one
  file,         \* the state of each relation's Parquet file
  written,      \* the rows written to it
  queue,        \* _queue
  shut,         \* whether it has been shut down
  failure,      \* _worker_failure is set
  staging,      \* the staging directory; "unnamed" if _staging does not name it
  destination,  \* "none", "ours" or "foreign"
  faults

owner == <<pc, given, accepted, buffer, hand>>
writer == <<worker, ready, taken, file, written>>
shared == <<queue, shut, failure>>
disk == <<staging, destination>>
vars == <<owner, writer, shared, disk, started, faults>>

Batch == [relation : Relations, rows : Seq(1..MaxRows)]
EndPC == {"committed", "raised", "aborted"}

TypeOK ==
  /\ pc \in {"new", "start", "starting", "ready", "active", "put", "wait", "drain", "putDrain",
             "waitDrain", "join", "check", "publish", "cancel", "cancelJoin", "cleanup"} \cup EndPC
  /\ given \in [Relations -> 0..MaxRows]
  /\ accepted \in [Relations -> Seq(1..MaxRows)]
  /\ buffer \in [Relations -> Seq(1..MaxRows)]
  /\ hand \in Seq(Batch) /\ Len(hand) <= 1
  /\ worker \in {"none", "new", "create", "get", "write", "failed", "close", "over"}
  /\ started \in BOOLEAN
  /\ ready \in BOOLEAN
  /\ taken \in Seq(Batch) /\ Len(taken) <= 1
  /\ file \in [Relations -> {"none", "open", "closed", "broken"}]
  /\ written \in [Relations -> Seq(1..MaxRows)]
  /\ queue \in Seq(Batch) /\ Len(queue) <= Capacity
  /\ shut \in BOOLEAN /\ failure \in BOOLEAN
  /\ staging \in {"none", "named", "unnamed", "stuck"}
  /\ destination \in {"none", "ours", "foreign"}
  /\ faults \in 0..MaxFaults

Init ==
  /\ pc = "new"
  /\ given = [t \in Relations |-> 0]
  /\ accepted = [t \in Relations |-> <<>>]
  /\ buffer = [t \in Relations |-> <<>>]
  /\ hand = <<>>
  /\ worker = "none" /\ started = FALSE /\ ready = FALSE /\ taken = <<>>
  /\ file = [t \in Relations |-> "none"]
  /\ written = [t \in Relations |-> <<>>]
  /\ queue = <<>> /\ shut = FALSE /\ failure = FALSE
  /\ staging = "none" /\ destination \in {"none", "foreign"}
  /\ faults = 0

-----------------------------------------------------------------------------
(* Helpers. *)

Owner(from, to) == pc = from /\ pc' = to
Writer(from, to) == worker = from /\ worker' = to
Fault == faults < MaxFaults /\ faults' = faults + 1

\* Queue.shutdown(immediate=True).
Discard == shut' = TRUE /\ queue' = <<>>

\* The batch in hand is of one relation; a row given with it is accepted when
\* its append returns.
AcceptLast ==
  LET t == hand[1].relation
  IN accepted' = [accepted EXCEPT ![t] = Append(@, given[t])]

-----------------------------------------------------------------------------
(* __enter__ *)

Enter ==
  \/ /\ Owner("new", "start")
     /\ destination = "none"
     /\ staging' = "named"
     /\ UNCHANGED <<given, accepted, buffer, hand, writer, shared, destination, started, faults>>
  \/ /\ Owner("new", "cancel")
     /\ \/ destination # "none" /\ UNCHANGED <<staging, faults>>
        \/ destination = "none" /\ Fault /\ staging' \in {"none", "unnamed"}
     /\ UNCHANGED <<given, accepted, buffer, hand, writer, shared, destination, started>>

\* The thread is made; or it cannot be, or an interrupt comes first.
Start ==
  /\ \/ Owner("start", "starting") /\ Writer("none", "new") /\ UNCHANGED faults
     \/ Owner("start", "cancel") /\ Fault /\ UNCHANGED worker
  /\ UNCHANGED <<given, accepted, buffer, hand, ready, taken, file, written, shared, disk, started>>

\* Thread.start() returns once the thread runs.  An interrupt of that wait may
\* leave a thread that does not run yet.
Started ==
  /\ \/ Owner("starting", "ready") /\ worker # "new" /\ started' = TRUE /\ UNCHANGED faults
     \/ Owner("starting", "cancel") /\ Fault /\ UNCHANGED started
  /\ UNCHANGED <<given, accepted, buffer, hand, writer, shared, disk>>

Ready ==
  /\ \/ Owner("ready", "active") /\ ready /\ ~failure /\ UNCHANGED faults
     \/ Owner("ready", "cancel") /\ ready /\ failure /\ UNCHANGED faults
     \/ Owner("ready", "cancel") /\ Fault
  /\ UNCHANGED <<given, accepted, buffer, hand, writer, shared, disk, started>>

-----------------------------------------------------------------------------
(* The body: _append, _enqueue_buffer and _enqueue. *)

\* A row is collected; an append after a failure raises and changes nothing.
Collect ==
  \E t \in Relations :
    /\ pc = "active" /\ ~failure
    /\ given[t] < MaxRows /\ Len(buffer[t]) + 1 < BatchRows
    /\ given' = [given EXCEPT ![t] = @ + 1]
    /\ buffer' = [buffer EXCEPT ![t] = Append(@, given'[t])]
    /\ accepted' = [accepted EXCEPT ![t] = Append(@, given'[t])]
    /\ UNCHANGED <<pc, hand, writer, shared, disk, started, faults>>

\* The row makes its batch full: the buffer is emptied, then the batch is put.
Flush ==
  \E t \in Relations :
    /\ Owner("active", "put") /\ ~failure
    /\ given[t] < MaxRows
    /\ given' = [given EXCEPT ![t] = @ + 1]
    /\ hand' = <<[relation |-> t, rows |-> Append(buffer[t], given'[t])]>>
    /\ buffer' = [buffer EXCEPT ![t] = <<>>]
    /\ UNCHANGED <<accepted, writer, shared, disk, started, faults>>

\* _enqueue looks for a failure of the writer before each wait.
Look ==
  /\ Owner("put", "wait") \/ Owner("putDrain", "waitDrain")
  /\ ~failure
  /\ UNCHANGED <<given, accepted, buffer, hand, writer, shared, disk, started, faults>>

\* Mutation of Put: a batch for which there is no room in time is given up.
PutDropping ==
  /\ \/ Owner("wait", "active") /\ AcceptLast
     \/ Owner("waitDrain", "drain") /\ UNCHANGED accepted
  /\ ~shut
  /\ queue' = IF Len(queue) < Capacity THEN Append(queue, hand[1]) ELSE queue
  /\ hand' = <<>>
  /\ UNCHANGED <<given, buffer, writer, shut, failure, disk, started, faults>>

\* The queue takes the batch, also if the writer has failed since the look and
\* has not yet shut it down.
Put ==
  /\ \/ Owner("wait", "active") /\ AcceptLast
     \/ Owner("waitDrain", "drain") /\ UNCHANGED accepted
  /\ ~shut /\ Len(queue) < Capacity
  /\ queue' = Append(queue, hand[1])
  /\ hand' = <<>>
  /\ UNCHANGED <<given, buffer, writer, shut, failure, disk, started, faults>>

\* queue.Full: the wait is over, and begins again with a look.
PutTimeout ==
  /\ Owner("wait", "put") \/ Owner("waitDrain", "putDrain")
  /\ ~shut /\ Len(queue) = Capacity
  /\ UNCHANGED <<given, accepted, buffer, hand, writer, shared, disk, started, faults>>

\* _enqueue raises: the body may handle that, the end of the write does not.
PutFails ==
  /\ \/ failure /\ (Owner("put", "active") \/ Owner("putDrain", "cancel"))
     \/ shut /\ (Owner("wait", "active") \/ Owner("waitDrain", "cancel"))
  /\ hand' = <<>>
  /\ UNCHANGED <<given, accepted, buffer, writer, shared, disk, started, faults>>

\* The wait is interrupted, with the batch in no buffer any more.
PutInterrupted ==
  /\ \/ Owner("wait", IF Catches THEN "active" ELSE "cancel")
     \/ Owner("waitDrain", "cancel")
  /\ Fault
  /\ hand' = <<>>
  /\ UNCHANGED <<given, accepted, buffer, writer, shared, disk, started>>

\* The body raises: __exit__ with an error.
BodyFails ==
  /\ Owner("active", "cancel")
  /\ UNCHANGED <<given, accepted, buffer, hand, writer, shared, disk, started, faults>>

-----------------------------------------------------------------------------
(* The end: _finish and _publish. *)

BodyEnds ==
  /\ Owner("active", IF failure THEN "cancel" ELSE "drain")
  /\ UNCHANGED <<given, accepted, buffer, hand, writer, shared, disk, started, faults>>

\* What is still in a buffer becomes a batch; then the queue is shut down.
Drain ==
  \/ \E t \in Relations :
       /\ Owner("drain", "putDrain")
       /\ buffer[t] # <<>>
       /\ hand' = <<[relation |-> t, rows |-> buffer[t]]>>
       /\ buffer' = [buffer EXCEPT ![t] = <<>>]
       /\ UNCHANGED <<given, accepted, writer, shared, disk, started, faults>>
  \/ /\ Owner("drain", "join")
     /\ \A t \in Relations : buffer[t] = <<>>
     /\ shut' = TRUE
     /\ UNCHANGED <<given, accepted, buffer, hand, writer, queue, failure, disk, started, faults>>

\* Mutation of Join: the failure is looked at before the writer is joined only.
JoinBlind ==
  /\ \/ Owner("join", "check") /\ worker = "over" /\ UNCHANGED faults
     \/ Owner("join", "cancel") /\ Fault
  /\ UNCHANGED <<given, accepted, buffer, hand, writer, shared, disk, started>>

Join ==
  /\ \/ Owner("join", "check") /\ worker = "over" /\ ~failure /\ UNCHANGED faults
     \/ Owner("join", "cancel") /\ worker = "over" /\ failure /\ UNCHANGED faults
     \/ Owner("join", "cancel") /\ Fault
  /\ UNCHANGED <<given, accepted, buffer, hand, writer, shared, disk, started>>

\* The set of files must be that of the Schema.
Check ==
  /\ Owner("check", IF \A t \in Relations : file[t] # "none" THEN "publish" ELSE "cancel")
  /\ UNCHANGED <<given, accepted, buffer, hand, writer, shared, disk, started, faults>>

\* Mutation of Publish: an interrupt after the rename is taken for a failure.
PublishUnseen ==
  /\ \/ /\ Owner("publish", "committed")
        /\ destination = "none"
        /\ destination' = "ours" /\ staging' = "none"
        /\ UNCHANGED faults
     \/ /\ Owner("publish", "cancel")
        /\ destination = "none"
        /\ destination' = "ours" /\ staging' = "none"
        /\ Fault
     \/ /\ Owner("publish", "cancel")
        /\ (destination # "none" /\ UNCHANGED faults) \/ Fault
        /\ UNCHANGED disk
  /\ UNCHANGED <<given, accepted, buffer, hand, writer, shared, started>>

\* A rename that replaces nothing.  An interrupt after it raises, and the
\* write is committed all the same.
Publish ==
  /\ \/ /\ \/ Owner("publish", "committed") /\ UNCHANGED faults
           \/ Owner("publish", "raised") /\ Fault
        /\ destination = "none"
        /\ destination' = "ours" /\ staging' = "none"
     \/ /\ Owner("publish", "cancel")
        /\ (destination # "none" /\ UNCHANGED faults) \/ Fault
        /\ UNCHANGED disk
  /\ UNCHANGED <<given, accepted, buffer, hand, writer, shared, started>>

-----------------------------------------------------------------------------
(* The other end: _cancel_and_join and _cleanup_staging. *)

Cancel ==
  /\ Owner("cancel", "cancelJoin")
  /\ Discard
  /\ UNCHANGED <<given, accepted, buffer, hand, writer, failure, disk, started, faults>>

\* Mutation of CancelJoin: the queue is shut down, but the writer not waited for.
CancelUnjoined ==
  /\ Owner("cancelJoin", "cleanup")
  /\ UNCHANGED <<given, accepted, buffer, hand, writer, shared, disk, started, faults>>

\* Interrupts of this wait are only noted.  is_alive() is false of a thread
\* that does not run yet: it is not waited for.
CancelJoin ==
  /\ Owner("cancelJoin", "cleanup")
  /\ worker \in {"none", "new", "over"}
  /\ UNCHANGED <<given, accepted, buffer, hand, writer, shared, disk, started, faults>>

\* rmtree, which also fails if a writer not waited for creates its files in
\* the meantime.
Cleanup ==
  /\ Owner("cleanup", "aborted")
  /\ \/ staging' = (IF staging = "named" THEN "none" ELSE staging) /\ UNCHANGED faults
     \/ /\ staging = "named" /\ staging' = "stuck"
        /\ Fault \/ (worker \notin {"none", "over"} /\ UNCHANGED faults)
  /\ UNCHANGED <<given, accepted, buffer, hand, writer, shared, destination, started>>

-----------------------------------------------------------------------------
(* The writer thread: _run_worker. *)

\* The directory is gone, or going, under the writer: what it does there may
\* fail for that alone.
Bereft == staging # "named" /\ UNCHANGED faults

\* The thread runs, and says so to start() and is_alive().
Bootstrap ==
  /\ Writer("new", "create")
  /\ UNCHANGED <<owner, ready, taken, file, written, shared, disk, started, faults>>

\* The files of all relations are created, or of some of them only.
Create ==
  /\ \/ /\ Writer("create", "get")
        /\ staging # "none"
        /\ file' = [t \in Relations |-> "open"]
        /\ ready' = TRUE
        /\ UNCHANGED <<failure, faults>>
     \/ /\ Writer("create", "failed")
        /\ \E some \in SUBSET Relations :
             file' = [t \in Relations |-> IF t \in some THEN "open" ELSE "none"]
        /\ failure' = TRUE
        /\ Fault \/ Bereft
        /\ UNCHANGED ready
  /\ UNCHANGED <<owner, taken, written, queue, shut, disk, started>>

Get ==
  /\ \/ /\ Writer("get", "write")
        /\ queue # <<>>
        /\ taken' = <<Head(queue)>>
        /\ queue' = Tail(queue)
     \/ /\ Writer("get", "close")
        /\ queue = <<>> /\ shut
        /\ UNCHANGED <<taken, queue>>
  /\ UNCHANGED <<owner, ready, file, written, shut, failure, disk, started, faults>>

Write ==
  /\ \/ /\ Writer("write", "get")
        /\ written' = [written EXCEPT ![taken[1].relation] = @ \o taken[1].rows]
        /\ UNCHANGED <<failure, faults>>
     \/ /\ Writer("write", "failed")
        /\ failure' = TRUE
        /\ Fault
        /\ UNCHANGED written
  /\ taken' = <<>>
  /\ UNCHANGED <<owner, ready, file, queue, shut, disk, started>>

\* The first failure shuts the queue down after it was recorded.
Fail ==
  /\ Writer("failed", "close")
  /\ Discard
  /\ UNCHANGED <<owner, ready, taken, file, written, failure, disk, started, faults>>

\* Each writer is closed and its footer verified, whatever the others do.
Close ==
  /\ worker = "close" /\ UNCHANGED worker
  /\ \E t \in Relations :
       /\ file[t] = "open"
       /\ \/ /\ file' = [file EXCEPT ![t] = "closed"]
             /\ UNCHANGED <<shared, faults>>
          \/ /\ file' = [file EXCEPT ![t] = "broken"]
             /\ failure' = TRUE
             /\ Discard
             /\ Fault \/ Bereft
  /\ UNCHANGED <<owner, ready, taken, written, disk, started>>

\* Mutation of End: a writer that never came to be ready does not say so.
EndUnready ==
  /\ Writer("close", "over")
  /\ \A t \in Relations : file[t] # "open"
  /\ UNCHANGED <<owner, ready, taken, file, written, shared, disk, started, faults>>

End ==
  /\ Writer("close", "over")
  /\ \A t \in Relations : file[t] # "open"
  /\ ready' = TRUE
  /\ UNCHANGED <<owner, taken, file, written, shared, disk, started, faults>>

\* Another process, or another write, puts its own destination in place.
Compete ==
  /\ destination = "none" /\ destination' = "foreign"
  /\ UNCHANGED <<owner, writer, shared, staging, started, faults>>

-----------------------------------------------------------------------------

\* What the owner does whether the body wants it or not.
OwnerStep ==
  \/ Enter \/ Start \/ Started \/ Ready
  \/ Look \/ Put \/ PutTimeout \/ PutFails \/ PutInterrupted
  \/ Drain \/ Join \/ Check \/ Publish
  \/ Cancel \/ CancelJoin \/ Cleanup

Body == Collect \/ Flush \/ BodyFails \/ BodyEnds

WriterStep == Bootstrap \/ Create \/ Get \/ Write \/ Fail \/ Close \/ End

Next == OwnerStep \/ Body \/ WriterStep \/ Compete

Spec == Init /\ [][Next]_vars

\* Both threads go on; a call of the Parquet library returns.  The body takes
\* as long as it likes.
FairSpec == Spec /\ WF_vars(OwnerStep) /\ WF_vars(WriterStep)

-----------------------------------------------------------------------------
(* Properties. *)

\* A destination of ours is whole: every file of it was closed and verified,
\* nothing is left on its way, and the writer has not failed.
PublishedIsWhole ==
  destination = "ours" =>
    /\ \A t \in Relations : file[t] = "closed" /\ buffer[t] = <<>>
    /\ hand = <<>> /\ taken = <<>> /\ queue = <<>>
    /\ ~failure

\* While there is a writer thread nothing is published, and its directory
\* stays: unless start() was interrupted before the thread ran, and then the
\* writer that loses its directory writes no row.
WriterKeepsItsDirectory ==
  worker \notin {"none", "over"} =>
    /\ destination # "ours"
    /\ staging # "named" => ~started /\ \A t \in Relations : written[t] = <<>>

\* Nothing is published, and nothing removed, under the hands of the writer.
PublicationIsWhole == PublishedIsWhole /\ WriterKeepsItsDirectory

\* A write that raises from its end has either published everything or left
\* nothing, but for a directory that it could not remove or never learned of.
AbortLeavesNothing ==
  /\ pc = "aborted" => destination # "ours" /\ staging # "named"
  /\ pc \in {"committed", "raised"} => destination = "ours" /\ staging = "none"

\* The owner never waits for ever, neither for the queue nor for the writer,
\* whatever fails on either side.
OwnerReturns ==
  (pc \notin {"active"} \cup EndPC) ~> (pc \in {"active"} \cup EndPC)

\* The rows whose append returned are the rows of the destination.
AcceptedRowsArePublished ==
  destination = "ours" => \A t \in Relations : written[t] = accepted[t]

-----------------------------------------------------------------------------

Contract == INSTANCE MaterializationContract WITH
  Rows <- 1..MaxRows,
  open <- pc \notin EndPC,
  rows <- accepted,
  content <- [t \in Relations |-> IF destination = "ours" THEN written[t] ELSE <<>>]

\* Both threads together keep the promise of a Datasource write, as long as the
\* body does not go on after an interrupt.
ImplementsContract == Contract!WriteSpec
=============================================================================
