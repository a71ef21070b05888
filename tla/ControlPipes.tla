---------------------------- MODULE ControlPipes ----------------------------
(***************************************************************************)
(* The two pipes between a Workflow Runtime and its Host: requests go up   *)
(* the Runtime's stdout, answers come down its stdin, one JSON frame per   *)
(* line (set up in cli/src/workflow_runtime.rs and runtime/__main__.py).   *)
(*                                                                         *)
(* A frame is what it is about: a request names its call and the id it is  *)
(* sent under; an answer names the id it is for and the call whose outcome *)
(* it carries.                                                             *)
(***************************************************************************)
EXTENDS Naturals, Sequences

CONSTANTS
  Calls,      \* the nested calls a Workflow, or a test, makes
  NoCall,     \* not a call
  MaxCallId,  \* the last call id; 2^64 - 1 in the code
  NoId,       \* not a call id
  Capacity,   \* the answers the pipe holds before a write to it blocks
  MaxFaults   \* bound on failed system calls and deaths of the Runtime

Ids == 0..MaxCallId

ASSUME CallsAssumption == NoCall \notin Calls /\ Calls \cap {"none", "channel"} = {}
ASSUME IdsAssumption == MaxCallId \in Nat /\ NoId \notin Nat
ASSUME CapacityAssumption == Capacity \in Nat \ {0}
ASSUME MaxFaultsAssumption == MaxFaults \in Nat

VARIABLES
  requests,   \* written by the Runtime, not yet taken by the Host
  answers,    \* written by the Host, not yet read by the Runtime
  ends,       \* the ends of the pipes that are open
  faults      \* faults so far

pipes == <<requests, answers, ends, faults>>

\* A line that does not decode as a request.
Torn == [call |-> NoCall, id |-> NoId]
Request == [call : Calls, id : Ids]
Answer == [id : Ids, call : Calls]

RuntimeEnds == {"runtimeWrites", "runtimeReads"}
HostEnds == {"hostReads", "hostWrites"}

PipesTypeOK ==
  /\ requests \in Seq(Request \cup {Torn})
  /\ answers \in Seq(Answer)
  /\ ends \subseteq RuntimeEnds \cup HostEnds
  /\ faults \in 0..MaxFaults

PipesInit ==
  /\ requests = <<>>
  /\ answers = <<>>
  /\ ends = RuntimeEnds \cup HostEnds
  /\ faults = 0

Fault == faults < MaxFaults /\ faults' = faults + 1


\* A frame that fits is written at once; a full pipe blocks its writer, and a
\* pipe nobody reads from fails it.
CanSend == {"hostWrites", "runtimeReads"} \subseteq ends /\ Len(answers) < Capacity
AnswersEnded == answers = <<>> /\ "hostWrites" \notin ends
RequestsEnded == requests = <<>> /\ "runtimeWrites" \notin ends
=============================================================================
