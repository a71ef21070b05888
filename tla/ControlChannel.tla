--------------------------- MODULE ControlChannel ---------------------------
(***************************************************************************)
(* The control channel of one Run: the Runtime's client and the Host's     *)
(* pump, joined by their pipes, and exchange_run_workflow_bytes in         *)
(* cli/src/workflow_runtime.rs, which starts the pump, waits for the       *)
(* Runtime or kills it, and accepts its Response or not.                   *)
(***************************************************************************)
EXTENDS RpcClient, ControlPump, FiniteSets

VARIABLE result  \* of the exchange: "none", "accepted" or "failed"

vars == <<pipes, clientVars, hostVars, result>>

TypeOK ==
  /\ PipesTypeOK
  /\ ClientTypeOK
  /\ HostTypeOK
  /\ result \in {"none", "accepted", "failed"}

Init ==
  /\ PipesInit
  /\ ClientInit
  /\ HostInit
  /\ result = "none"

\* terminate_test_runtime, after an error of the pump.
Kill ==
  /\ pump = "over" /\ error # "none" /\ result = "none"
  /\ result' = "failed"
  /\ runtime' = IF Gone THEN runtime ELSE "dead"
  /\ ends' = ends \ RuntimeEnds
  /\ UNCHANGED <<context, busy, outcome, calling, poisoned, reading, hostVars,
                 requests, answers, faults>>

\* The Runtime has ended: its exit status and its Response decide.
Conclude ==
  /\ pump = "over" /\ error = "none" /\ result = "none"
  /\ Gone
  /\ result' = IF runtime = "exited" /\ outcome = "success" THEN "accepted" ELSE "failed"
  /\ UNCHANGED <<pipes, clientVars, hostVars>>

Client == ClientNext /\ UNCHANGED <<hostVars, result>>
Host == HostStep /\ UNCHANGED <<clientVars, result>>

Next == Client \/ Host \/ Kill \/ Conclude

Spec == Init /\ [][Next]_vars

\* Threads go on; a Workflow function, or a test session, returns some day.
\* Nobody has to make a call.
FairSpec ==
  /\ Spec
  /\ \A c \in Calls : WF_vars(CallStep(c) /\ UNCHANGED <<hostVars, result>>)
  /\ WF_vars(ReaderStep /\ UNCHANGED <<hostVars, result>>)
  /\ WF_vars((FunctionReturns \/ MainStep) /\ UNCHANGED <<hostVars, result>>)
  /\ WF_vars(PumpStep /\ UNCHANGED <<clientVars, result>>)
  /\ \A i \in Ids : WF_vars(WorkerStep(i) /\ UNCHANGED <<clientVars, result>>)
  /\ WF_vars(Kill \/ Conclude)

-----------------------------------------------------------------------------
(* Properties. *)

\* Nobody waits on a poisoned channel: whatever ended it has released every
\* call that was registered, also those still on their way to wait.
PoisonReleasesAll == poisoned => Unanswered = {}

\* No wake-up is lost: as long as a call waits there is a reader, or the thread
\* that could not start one is about to poison the channel.
WaitingCallHasReader ==
  (\E c \in Unanswered : stage[c] = "wait") =>
    reader # "none" \/ \E c \in Calls : stage[c] = "unstarted"

\* Every call that waits will be answered or released.
NoCallIsStranded == PoisonReleasesAll /\ WaitingCallHasReader

\* When the exchange is over no call of the Run is being executed any more:
\* the Run may be published or dropped, and its ledger does not change again.
\* (Module NestedRuns rests on this: its Drained.)
NoCallOutlivesPump == pump = "over" => \A i \in Ids : worker[i] \notin Working

\* A Response is accepted only from a Runtime that ended in order, and only if
\* each call of the Workflow had come back to it by then; a call that was
\* executed and not answered was refused to the Workflow.
AcceptedRunIsQuiet ==
  result = "accepted" =>
    /\ runtime = "exited" /\ error = "none"
    /\ context = "closed" => Active = {}
    /\ Unanswered = {}

\* The exchange ends quietly, on the side of the Host and on that of the Runtime.
ExchangeIsQuiet == NoCallOutlivesPump /\ AcceptedRunIsQuiet

\* A Workflow that returns while its calls are under way is never accepted,
\* and no call begins once its Context is closed.
ClosedContextStaysQuiet ==
  [][/\ context = "closed" => nextId' = nextId
     /\ result' = "accepted" /\ result = "none" => ~busy]_vars

\* No caller waits for ever: each call returns or its Runtime ends.
EveryCallReturns ==
  \A c \in Calls : c \in Active ~> (c \notin Active \/ Gone)

\* The exchange ends: neither side waits for the other for ever.
ExchangeEnds == <>(result # "none")

-----------------------------------------------------------------------------

Status(c) ==
  CASE stage[c] = "idle" -> "idle"
    [] stage[c] \notin {"idle", "done"} -> "open"
    [] stage[c] = "done" /\ answer[c] = c -> "answered"
    [] stage[c] = "done" /\ answer[c] = "channel" -> "refused"
    [] stage[c] = "done" /\ answer[c] \notin {c, "channel"} -> "astray"

Promise == INSTANCE CallContract WITH
  status <- [c \in Calls |-> Status(c)],
  executed <- begun

\* Client, pipes and pump together keep the promise of a call; above all no
\* call is given a second worker, under whatever id its frame arrives.
ImplementsCalls == Promise!CallSpec
=============================================================================
