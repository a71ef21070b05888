---------------------------- MODULE ControlPump ----------------------------
(***************************************************************************)
(* The Host's side of the control channel: pump_control_requests in        *)
(* cli/src/workflow_runtime.rs.  A reader thread decodes requests, the     *)
(* pump starts one worker thread for each, a worker executes its call and  *)
(* writes the answer, and the pump joins all workers before it returns.    *)
(*                                                                         *)
(* The reader thread and the queue of events are part of the pipe here:    *)
(* the pump takes a frame when its event comes up.  Once the pump has left *)
(* its loop nobody looks at what the reader thread still reads.            *)
(***************************************************************************)
EXTENDS ControlPipes

VARIABLES
  worker,  \* the worker thread of each call id
  payload, \* the call it executes
  pump,    \* "loop", "join" or "over"
  error,   \* pump_error
  begun    \* history: how many worker threads each call has been given

hostVars == <<worker, payload, pump, error, begun>>

\* Threads that have not come to their end.
Working == {"running", "writing"}

HostTypeOK ==
  /\ worker \in [Ids -> {"none", "done", "failed", "reaped"} \cup Working]
  /\ payload \in [Ids -> Calls \cup {NoCall}]
  /\ pump \in {"loop", "join", "over"}
  /\ error \in {"none", "request", "duplicate", "thread", "write"}
  /\ begun \in [Calls -> Nat]

HostInit ==
  /\ worker = [i \in Ids |-> "none"]
  /\ payload = [i \in Ids |-> NoCall]
  /\ pump = "loop"
  /\ error = "none"
  /\ begun = [c \in Calls |-> 0]

-----------------------------------------------------------------------------

\* seen_call_ids.
Seen == {i \in Ids : payload[i] # NoCall}

Thread(i, from, to) == worker[i] = from /\ worker' = [worker EXCEPT ![i] = to]

\* A worker thread starts to execute a request.
StartWorker(request) ==
  /\ worker' = [worker EXCEPT ![request.id] = "running"]
  /\ begun' = [begun EXCEPT ![request.call] = @ + 1]

\* The loop is left with an error.
Fail(kind) == pump' = "join" /\ error' = kind

\* The thread that would read requests cannot be started: nothing is served.
NoReader ==
  /\ pump = "loop" /\ "hostReads" \in ends /\ Seen = {}
  /\ Fault
  /\ pump' = "over" /\ error' = "thread"
  /\ ends' = ends \ HostEnds
  /\ UNCHANGED <<worker, payload, begun, requests, answers>>

\* Mutation of Take: a worker that cannot be started is not an error.
TakeUnstarted ==
  /\ pump = "loop" /\ "hostReads" \in ends
  /\ requests # <<>> /\ Head(requests) # Torn
  /\ requests' = Tail(requests)
  /\ LET request == Head(requests)
     IN /\ payload' = [payload EXCEPT ![request.id] = request.call]
        /\ \/ StartWorker(request) /\ UNCHANGED faults
           \/ Fault /\ UNCHANGED <<worker, begun>>
  /\ UNCHANGED <<pump, error, answers, ends>>

\* A request: its id is recorded, then its worker is started.
Take ==
  /\ pump = "loop" /\ "hostReads" \in ends
  /\ requests # <<>> /\ Head(requests) # Torn
  /\ requests' = Tail(requests)
  /\ LET request == Head(requests)
     IN \/ /\ request.id \in Seen
           /\ Fail("duplicate")
           /\ UNCHANGED <<worker, payload, begun, faults>>
        \/ /\ request.id \notin Seen
           /\ payload' = [payload EXCEPT ![request.id] = request.call]
           /\ \/ StartWorker(request) /\ UNCHANGED <<pump, error, faults>>
              \/ Fault /\ Fail("thread") /\ UNCHANGED <<worker, begun>>
  /\ UNCHANGED <<answers, ends>>

\* What does not decode ends the reader thread, and with it the pipe.
TakeTorn ==
  /\ pump = "loop" /\ "hostReads" \in ends
  /\ requests # <<>> /\ Head(requests) = Torn
  /\ Fail("request")
  /\ ends' = ends \ {"hostReads"}
  /\ UNCHANGED <<worker, payload, begun, requests, answers, faults>>

\* ReaderFinished at the end of the stream.
TakeEnd ==
  /\ pump = "loop" /\ "hostReads" \in ends
  /\ RequestsEnded
  /\ ends' = ends \ {"hostReads"}
  /\ UNCHANGED <<hostVars, requests, answers, faults>>

\* respond(call_id, call): the child Run is executed; a panic is an outcome too.
Work(i) ==
  /\ Thread(i, "running", "writing")
  /\ UNCHANGED <<payload, begun, pump, error, pipes>>

\* write_control_response, under the writer's mutex.
WriteAnswer(i) ==
  /\ \/ /\ Thread(i, "writing", "done")
        /\ CanSend
        /\ answers' = Append(answers, [id |-> i, call |-> payload[i]])
        /\ UNCHANGED faults
     \/ /\ Thread(i, "writing", "failed")
        /\ ("runtimeReads" \notin ends /\ UNCHANGED faults) \/ Fault
        /\ UNCHANGED answers
  /\ UNCHANGED <<payload, begun, pump, error, requests, ends>>

\* WorkerFinished.
Reap(i) ==
  /\ pump = "loop"
  /\ \/ Thread(i, "done", "reaped") /\ UNCHANGED <<pump, error>>
     \/ Thread(i, "failed", "reaped") /\ Fail("write")
  /\ UNCHANGED <<payload, begun, pipes>>

\* The stream of requests has ended and every worker has reported.
Leave ==
  /\ pump = "loop" /\ "hostReads" \notin ends
  /\ \A i \in Ids : worker[i] \in {"none", "reaped"}
  /\ pump' = "join"
  /\ UNCHANGED <<worker, payload, begun, error, pipes>>

\* Mutation of Join: after an error the workers are left to themselves.
JoinUnlessFailed ==
  /\ pump = "join"
  /\ error # "none" \/ \A i \in Ids : worker[i] \notin Working
  /\ pump' = "over"
  /\ ends' = ends \ {"hostWrites"}
  /\ UNCHANGED <<worker, payload, begun, error, requests, answers, faults>>

\* Mutation of Join: the reader thread is joined too, before the Runtime is
\* killed.
JoinReader ==
  /\ pump = "join" /\ ("hostReads" \notin ends \/ "runtimeWrites" \notin ends)
  /\ \A i \in Ids : worker[i] \notin Working
  /\ pump' = "over"
  /\ ends' = ends \ {"hostWrites"}
  /\ UNCHANGED <<worker, payload, begun, error, requests, answers, faults>>

\* Every worker is joined, also after an error, and then stdin is closed.  The
\* reader thread is joined only if it has reported its end: otherwise it may
\* be waiting for a Runtime that nobody has killed yet.
Join ==
  /\ pump = "join"
  /\ \A i \in Ids : worker[i] \notin Working
  /\ pump' = "over"
  /\ ends' = ends \ {"hostWrites"}
  /\ UNCHANGED <<worker, payload, begun, error, requests, answers, faults>>

PumpStep == Take \/ TakeTorn \/ TakeEnd \/ Leave \/ Join
WorkerStep(i) == Work(i) \/ WriteAnswer(i) \/ Reap(i)

HostStep == NoReader \/ PumpStep \/ (\E i \in Ids : WorkerStep(i))
=============================================================================
