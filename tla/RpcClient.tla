----------------------------- MODULE RpcClient -----------------------------
(***************************************************************************)
(* The Runtime's side of the control channel: the threads of a Workflow    *)
(* that call other Workflows (_NestedRunClient in runtime/rpc.py), the     *)
(* Context that counts their calls (WorkflowContext in                     *)
(* runtime/execution.py), and the main thread that ends the Runtime        *)
(* (runtime/__main__.py).                                                  *)
(*                                                                         *)
(* There is no permanent reader thread: a caller that finds none starts    *)
(* one, and it leaves when no call waits for an answer.  Every failure     *)
(* poisons the channel for good.  Each action is one critical section of   *)
(* _state_lock or of the Context's condition, or one call on a stream.     *)
(***************************************************************************)
EXTENDS ControlPipes

VARIABLES
  stage,     \* how far each call is
  id,        \* the call id it was given
  answer,    \* what it has been answered: a call stands for its own outcome
  nextId,    \* _next_call_id
  poisoned,  \* _poisoned
  reader,    \* the step of the reader thread
  frame,     \* the answer it has read, as a sequence of at most one
  context,   \* the state of the Context; "none" for the tests of kat test
  busy,      \* had_active_calls_on_close
  runtime,   \* the step of the main thread
  outcome    \* what its Runtime Response will say

calling == <<stage, id, answer, nextId>>
reading == <<reader, frame>>
main == <<context, busy, runtime, outcome>>
clientVars == <<calling, poisoned, reading, main>>

PendingStages == {"write", "ensure", "start", "unstarted", "wait"}

ClientTypeOK ==
  /\ stage \in [Calls -> {"idle", "entered", "done"} \cup PendingStages]
  /\ id \in [Calls -> Ids \cup {NoId}]
  /\ answer \in [Calls -> Calls \cup {"none", "channel"}]
  /\ nextId \in 0..(MaxCallId + 1)
  /\ poisoned \in BOOLEAN
  /\ reader \in {"none", "new", "check", "read", "dispatch"}
  /\ frame \in Seq(Answer)
  /\ context \in {"none", "open", "closing", "closed"}
  /\ busy \in BOOLEAN
  /\ runtime \in {"run", "close", "respond", "streams", "exit", "exited", "dead"}
  /\ outcome \in {"none", "success", "failure"}

ClientInit ==
  /\ stage = [c \in Calls |-> "idle"]
  /\ id = [c \in Calls |-> NoId]
  /\ answer = [c \in Calls |-> "none"]
  /\ nextId = 0
  /\ poisoned = FALSE
  /\ reader = "none" /\ frame = <<>>
  /\ context \in {"none", "open"}
  /\ busy = FALSE
  /\ runtime = "run" /\ outcome = "none"

-----------------------------------------------------------------------------
(* Helpers. *)

Gone == runtime \in {"exited", "dead"}
Step(c, from, to) == ~Gone /\ stage[c] = from /\ stage' = [stage EXCEPT ![c] = to]
Main(from, to) == runtime = from /\ runtime' = to
Reader(from, to) == ~Gone /\ reader = from /\ reader' = to

\* The calls in _pending, and those of them without a response.
Pending == {c \in Calls : stage[c] \in PendingStages}
Unanswered == {c \in Pending : answer[c] = "none"}

\* The calls the Context counts.
Active == {c \in Calls : stage[c] \notin {"idle", "done"}}

\* _poison: no later call is accepted, and every pending call is released.
Poison ==
  /\ poisoned' = TRUE
  /\ answer' = [c \in Calls |-> IF c \in Unanswered THEN "channel" ELSE answer[c]]

-----------------------------------------------------------------------------
(* A call: WorkflowContext.run and _exchange. *)

\* The Context takes calls while it is open.
Enter(c) ==
  /\ context \in {"none", "open"}
  /\ Step(c, "idle", "entered")
  /\ UNCHANGED <<id, answer, nextId, poisoned, reading, main, pipes>>

\* _register_call: refused by a poisoned channel; the end of the ids poisons it.
Register(c) ==
  /\ \/ /\ poisoned
        /\ Step(c, "entered", "done")
        /\ answer' = [answer EXCEPT ![c] = "channel"]
        /\ UNCHANGED <<id, nextId, poisoned>>
     \/ /\ ~poisoned /\ nextId > MaxCallId
        /\ Step(c, "entered", "done")
        /\ poisoned' = TRUE
        /\ answer' = [d \in Calls |-> IF d \in Unanswered \cup {c} THEN "channel" ELSE answer[d]]
        /\ UNCHANGED <<id, nextId>>
     \/ /\ ~poisoned /\ nextId <= MaxCallId
        /\ Step(c, "entered", "write")
        /\ id' = [id EXCEPT ![c] = nextId]
        /\ nextId' = nextId + 1
        /\ UNCHANGED <<answer, poisoned>>
  /\ UNCHANGED <<reading, main, pipes>>

\* What a failed write leaves behind: nothing, a part of the frame, or, when
\* the flush failed, the whole frame.
Leftovers(c) == {<<>>, <<Torn>>, <<[call |-> c, id |-> id[c]]>>}

\* Mutation of Write: a frame whose write failed is sent again, under a new id.
WriteRetried(c) ==
  /\ \/ /\ Step(c, "write", "ensure")
        /\ {"runtimeWrites", "hostReads"} \subseteq ends
        /\ requests' = Append(requests, [call |-> c, id |-> id[c]])
        /\ UNCHANGED <<answer, poisoned, faults>>
     \/ /\ Step(c, "write", "entered")
        /\ {"runtimeWrites", "hostReads"} \subseteq ends
        /\ Fault /\ \E rest \in Leftovers(c) : requests' = requests \o rest
        /\ UNCHANGED <<answer, poisoned>>
     \/ /\ Step(c, "write", "wait")
        /\ ~({"runtimeWrites", "hostReads"} \subseteq ends)
        /\ Poison
        /\ UNCHANGED <<requests, faults>>
  /\ UNCHANGED <<id, nextId, reading, main, answers, ends>>

\* _write_frame, under _write_lock, with no look at _poisoned.
Write(c) ==
  /\ \/ /\ Step(c, "write", "ensure")
        /\ {"runtimeWrites", "hostReads"} \subseteq ends
        /\ requests' = Append(requests, [call |-> c, id |-> id[c]])
        /\ UNCHANGED <<answer, poisoned, faults>>
     \/ /\ Step(c, "write", "wait")
        /\ Poison
        /\ \/ /\ ~({"runtimeWrites", "hostReads"} \subseteq ends)
              /\ UNCHANGED <<requests, faults>>
           \/ /\ {"runtimeWrites", "hostReads"} \subseteq ends
              /\ Fault /\ \E rest \in Leftovers(c) : requests' = requests \o rest
  /\ UNCHANGED <<id, nextId, reading, main, answers, ends>>

\* _ensure_reader.
Ensure(c) ==
  /\ \/ /\ poisoned \/ reader # "none"
        /\ Step(c, "ensure", "wait")
        /\ UNCHANGED reader
     \/ /\ ~poisoned
        /\ Step(c, "ensure", "start")
        /\ reader = "none" /\ reader' = "new"
  /\ UNCHANGED <<id, answer, nextId, poisoned, frame, main, pipes>>

Start(c) ==
  /\ \/ Step(c, "start", "wait") /\ Reader("new", "check") /\ UNCHANGED faults
     \/ Step(c, "start", "unstarted") /\ Reader("new", "none") /\ Fault
  /\ UNCHANGED <<id, answer, nextId, poisoned, frame, main, requests, answers, ends>>

\* The failure to start the reader poisons the channel in a section of its own.
Unstarted(c) ==
  /\ Step(c, "unstarted", "wait")
  /\ Poison
  /\ UNCHANGED <<id, nextId, reading, main, pipes>>

\* The call is answered, leaves _pending, and the Context counts it no more.
Return(c) ==
  /\ answer[c] # "none"
  /\ Step(c, "wait", "done")
  /\ UNCHANGED <<id, answer, nextId, poisoned, reading, main, pipes>>

-----------------------------------------------------------------------------
(* The reader thread: _read_responses. *)

\* Mutation of Check: what the reader has seen of _pending may be out of date
\* when it leaves.
CheckStale ==
  /\ \/ Reader("check", "read")
     \/ Reader("check", "none")
  /\ UNCHANGED <<calling, poisoned, frame, main, pipes>>

\* The reader leaves in the critical section in which it sees no call waiting.
Check ==
  /\ \/ Reader("check", "read") /\ ~poisoned /\ Unanswered # {}
     \/ Reader("check", "none") /\ (poisoned \/ Unanswered = {})
  /\ UNCHANGED <<calling, poisoned, frame, main, pipes>>

\* The end of the stream, an error, and a frame that does not decode, all end
\* the channel.
ReadAnswer ==
  /\ \/ /\ Reader("read", "dispatch")
        /\ answers # <<>>
        /\ frame' = <<Head(answers)>>
        /\ answers' = Tail(answers)
        /\ UNCHANGED <<answer, poisoned, faults>>
     \/ /\ Reader("read", "none")
        /\ Poison
        /\ (AnswersEnded /\ UNCHANGED faults) \/ Fault
        /\ UNCHANGED <<frame, answers>>
  /\ UNCHANGED <<stage, id, nextId, main, requests, ends>>

\* An answer to no pending call, or a second one, poisons the channel.
Dispatch ==
  /\ Reader("dispatch", "check")
  /\ \/ \E c \in Unanswered :
          /\ id[c] = frame[1].id
          /\ answer' = [answer EXCEPT ![c] = frame[1].call]
          /\ UNCHANGED poisoned
     \/ (\A c \in Unanswered : id[c] # frame[1].id) /\ Poison
  /\ frame' = <<>>
  /\ UNCHANGED <<stage, id, nextId, main, pipes>>

-----------------------------------------------------------------------------
(* The main thread. *)

\* The Workflow function, or the test session, returns or raises; close()
\* turns further calls away from then on.
FunctionReturns ==
  /\ outcome' \in {"success", "failure"}
  /\ \/ /\ context = "none"
        /\ Main("run", "respond")
        /\ UNCHANGED <<context, busy>>
     \/ /\ context = "open"
        /\ Main("run", "close")
        /\ context' = "closing"
        /\ busy' = (Active # {})
  /\ UNCHANGED <<calling, poisoned, reading, pipes>>

\* Mutation of ContextClosed: calls that were left behind are forgiven.
ContextClosedForgiving ==
  /\ Active = {}
  /\ Main("close", "respond")
  /\ context' = "closed"
  /\ UNCHANGED <<outcome, busy, calling, poisoned, reading, pipes>>

\* A Workflow that returned with calls under way has failed.
ContextClosed ==
  /\ Active = {}
  /\ Main("close", "respond")
  /\ context' = "closed"
  /\ outcome' = IF busy THEN "failure" ELSE outcome
  /\ UNCHANGED <<busy, calling, poisoned, reading, pipes>>

\* Outputs are written and the Runtime Response is put in place; both may fail.
Respond ==
  /\ Main("respond", "streams")
  /\ outcome' \in {outcome, "failure"}
  /\ UNCHANGED <<context, busy, calling, poisoned, reading, pipes>>

\* close() and the end of _nested_run_standard_streams: the stream of answers
\* is left open if a reader may be reading from it.
CloseStreams ==
  /\ Main("streams", "exit")
  /\ Poison
  /\ ends' = ends \ IF reader \in {"none", "new"} THEN RuntimeEnds ELSE {"runtimeWrites"}
  /\ UNCHANGED <<context, busy, outcome, stage, id, nextId, reading, requests, answers, faults>>

\* What the process had open is closed by the operating system.
Exit ==
  /\ Main("exit", "exited")
  /\ ends' = ends \ RuntimeEnds
  /\ UNCHANGED <<context, busy, outcome, calling, poisoned, reading, requests, answers, faults>>

\* The Runtime is killed or crashes.
Die ==
  /\ ~Gone
  /\ Fault
  /\ runtime' = "dead"
  /\ ends' = ends \ RuntimeEnds
  /\ UNCHANGED <<context, busy, outcome, calling, poisoned, reading, requests, answers>>

-----------------------------------------------------------------------------

CallStep(c) ==
  Register(c) \/ Write(c) \/ Ensure(c) \/ Start(c) \/ Unstarted(c) \/ Return(c)
ReaderStep == Check \/ ReadAnswer \/ Dispatch
MainStep == ContextClosed \/ Respond \/ CloseStreams \/ Exit

ClientNext ==
  \/ \E c \in Calls : Enter(c) \/ CallStep(c)
  \/ ReaderStep
  \/ FunctionReturns \/ MainStep
  \/ Die
=============================================================================
