---------------------------- MODULE TestSessions ----------------------------
(***************************************************************************)
(* `kat test`: pytest runs in a Runtime; its fixture `kat_run` begins a    *)
(* test session on the Host, runs Workflows of the PACK in it and ends it. *)
(* Requests travel over the control channel (module ControlChannel), so a  *)
(* worker executes each of them, at any time and in any order.  The Host   *)
(* keeps the sessions in temporary storage: test.rs, run/nested.rs,        *)
(* workflow_runtime.rs, workflow/runtime/testing.py and rpc.py.            *)
(***************************************************************************)
EXTENDS FiniteSets, Integers

CONSTANTS
  Sessions,   \* test sessions, one per test that uses kat_run
  Calls,      \* calls of kat_run
  NoSession

ASSUME NoSessionAssumption == NoSession \notin Sessions

VARIABLES
  command,    \* progress of kat test
  storage,    \* the temporary data home exists
  sessions,   \* TestRunCoordinator.sessions, the map of live scopes
  scope,      \* what the fixture knows of its session
  of,         \* the session a call names
  stage,      \* progress of a call
  held,       \* calls whose worker shares the scope of its session (an Arc)
  hasty,      \* sessions whose end was requested beside a call of theirs
  notes,      \* log notes in the coordinator of a session
  kept,       \* log notes in the TestRunCoordinator
  logged,     \* log notes in the Operation log
  executed,   \* calls a Workflow was run for
  pump,       \* the pump of control requests
  runtime,    \* the Runtime process
  verdict,    \* the Runtime Response
  report,     \* the PACK Test Report is on disk
  mirror,     \* the mirror of the Runtime's output
  answer      \* the Response of kat test

hostVars == <<sessions, held, notes, kept, logged, executed>>
testVars == <<scope, of, hasty>>
endVars == <<runtime, verdict, report, mirror>>
vars == <<command, storage, hostVars, testVars, stage, pump, endVars, answer>>

ScopeStage == {"none", "begin", "open", "end", "closed", "unclosed", "unavailable"}

\* A worker is at the request.
WorkStage == {"executing", "noted", "collected", "released", "refused"}
CallStage == {"idle", "sent", "answered"} \cup WorkStage

\* The calls whose answer has not reached their test.
Waiting(s) == {c \in Calls : of[c] = s /\ stage[c] \notin {"idle", "answered"}}

TypeOK ==
  /\ command \in {"new", "running", "concluded", "answered"}
  /\ storage \in BOOLEAN
  /\ sessions \subseteq Sessions
  /\ scope \in [Sessions -> ScopeStage]
  /\ of \in [Calls -> Sessions \cup {NoSession}]
  /\ stage \in [Calls -> CallStage]
  /\ hasty \subseteq Sessions
  /\ held \subseteq Calls
  /\ notes \in [Sessions -> SUBSET Calls]
  /\ kept \in SUBSET Calls /\ logged \in SUBSET Calls /\ executed \in SUBSET Calls
  /\ pump \in {"on", "failed"}
  /\ runtime \in {"none", "running", "exited", "dead"}
  /\ verdict \in {"none", "success", "failure"}
  /\ report \in BOOLEAN
  /\ mirror \in {"none", "on", "over", "failed"}
  /\ answer \in {"none", "success", "failure"}

Init ==
  /\ command = "new" /\ storage = FALSE
  /\ sessions = {}
  /\ scope = [s \in Sessions |-> "none"]
  /\ of = [c \in Calls |-> NoSession]
  /\ stage = [c \in Calls |-> "idle"]
  /\ hasty = {}
  /\ held = {}
  /\ notes = [s \in Sessions |-> {}]
  /\ kept = {} /\ logged = {} /\ executed = {}
  /\ pump = "on"
  /\ runtime = "none" /\ verdict = "none" /\ report = FALSE /\ mirror = "none"
  /\ answer = "none"

-----------------------------------------------------------------------------
(* The command starts. *)

\* The log, the PACK, its tests, the selectors and the report directory are
\* examined in turn; whichever fails, nothing has been started.
Reject ==
  /\ command = "new" /\ command' = "answered"
  /\ answer' = "failure"
  /\ UNCHANGED <<storage, hostVars, testVars, stage, pump, endVars>>

\* TestRunCoordinator::new, and the Runtime is spawned; if that fails the
\* coordinator goes away with its storage.
Start ==
  /\ command = "new"
  /\ \/ /\ command' = "running" /\ storage' = TRUE
        /\ runtime' = "running" /\ mirror' = "on"
     \/ /\ command' = "concluded" /\ storage' = TRUE
        /\ runtime' = "dead" /\ mirror' = "failed"
  /\ UNCHANGED <<hostVars, testVars, stage, pump, verdict, report, answer>>

-----------------------------------------------------------------------------
(* The tests, inside the Runtime. *)

InTest == command = "running" /\ runtime = "running" /\ verdict = "none"

BeginSession(s) ==
  /\ InTest
  /\ scope[s] = "none" /\ scope' = [scope EXCEPT ![s] = "begin"]
  /\ UNCHANGED <<command, storage, hostVars, of, hasty, stage, pump, endVars, answer>>

\* A thread that the test has left behind may call kat_run at any time.
Call(c, s) ==
  /\ InTest
  /\ scope[s] \in {"open", "end", "closed", "unclosed"}
  /\ stage[c] = "idle" /\ stage' = [stage EXCEPT ![c] = "sent"]
  /\ of' = [of EXCEPT ![c] = s]
  /\ hasty' = IF scope[s] = "end" THEN hasty \cup {s} ELSE hasty
  /\ UNCHANGED <<command, storage, hostVars, scope, pump, endVars, answer>>

\* The test is over, whether it passed or not; its fixture ends the session.
EndSession(s) ==
  /\ InTest
  /\ scope[s] = "open" /\ scope' = [scope EXCEPT ![s] = "end"]
  /\ hasty' = IF Waiting(s) # {} THEN hasty \cup {s} ELSE hasty
  /\ UNCHANGED <<command, storage, hostVars, of, stage, pump, endVars, answer>>

\* pytest comes to its end when every fixture has.  A session that could not
\* be begun or closed fails its test.
Finish ==
  /\ InTest
  /\ \A s \in Sessions : scope[s] \notin {"begin", "open", "end"}
  /\ verdict' \in
       IF \E s \in Sessions : scope[s] \in {"unclosed", "unavailable"}
       THEN {"failure"} ELSE {"success", "failure"}
  /\ report' \in BOOLEAN
  /\ UNCHANGED <<command, storage, hostVars, testVars, stage, pump, runtime, mirror, answer>>

Exit ==
  /\ runtime = "running" /\ verdict # "none"
  /\ runtime' = "exited"
  /\ UNCHANGED <<command, storage, hostVars, testVars, stage, pump, verdict, report, mirror, answer>>

\* The Runtime crashes, before or after it has written its Response.
Die ==
  /\ runtime = "running" /\ runtime' = "dead"
  /\ UNCHANGED <<command, storage, hostVars, testVars, stage, pump, verdict, report, mirror, answer>>

-----------------------------------------------------------------------------
(* The workers of the Host.  They go on with what has been sent, also when  *)
(* the Runtime has ended since; but then their answers cannot be written,   *)
(* and the pump fails.                                                      *)

Deliver == pump' = IF runtime = "running" THEN pump ELSE "failed"

\* begin_session: the Session is created and its scope becomes known.
HostBegin(s) ==
  /\ command = "running" /\ scope[s] = "begin"
  /\ \/ scope' = [scope EXCEPT ![s] = "open"] /\ sessions' = sessions \cup {s}
     \/ scope' = [scope EXCEPT ![s] = "unavailable"] /\ UNCHANGED sessions
  /\ Deliver
  /\ UNCHANGED <<command, storage, of, hasty, stage, held, notes, kept, logged, executed, endVars, answer>>

CallStep(c, from, to) ==
  /\ command = "running"
  /\ stage[c] = from /\ stage' = [stage EXCEPT ![c] = to]
  /\ UNCHANGED <<command, storage, testVars, endVars, answer>>

\* Mutation of LookUp: a request for an unknown session is dropped.
LookUpSilent(c) ==
  /\ of[c] \in sessions
  /\ CallStep(c, "sent", "executing")
  /\ held' = held \cup {c}
  /\ UNCHANGED <<sessions, notes, kept, logged, executed, pump>>

\* execute_workflow looks the scope up under the lock, and shares it.
LookUp(c) ==
  /\ \/ /\ of[c] \in sessions
        /\ CallStep(c, "sent", "executing")
        /\ held' = held \cup {c}
     \/ /\ of[c] \notin sessions
        /\ CallStep(c, "sent", "refused")
        /\ UNCHANGED held
  /\ UNCHANGED <<sessions, notes, kept, logged, executed, pump>>

\* execute_child: once a Workflow was run, a note tells where its log is,
\* whatever the outcome.  Its log or its Run may fail to be created before.
Execute(c) ==
  /\ CallStep(c, "executing", "noted")
  /\ \/ /\ notes' = [notes EXCEPT ![of[c]] = @ \cup {c}]
        /\ executed' = executed \cup {c}
     \/ UNCHANGED <<notes, executed>>
  /\ UNCHANGED <<sessions, held, kept, logged, pump>>

\* All notes of the session are taken over, those of its other calls as well.
Collect(c) ==
  /\ CallStep(c, "noted", "collected")
  /\ kept' = kept \cup notes[of[c]]
  /\ notes' = [notes EXCEPT ![of[c]] = {}]
  /\ UNCHANGED <<sessions, held, logged, executed, pump>>

\* Mutation of Release: the worker keeps its share until it is joined.
ReleaseLate(c) == CallStep(c, "collected", "released") /\ UNCHANGED <<hostVars, pump>>

\* execute_workflow returns: the share of the scope is dropped ...
Release(c) ==
  /\ CallStep(c, "collected", "released")
  /\ held' = held \ {c}
  /\ UNCHANGED <<sessions, notes, kept, logged, executed, pump>>

\* ... before the answer is written.
Answer(c) ==
  /\ \E from \in {"released", "refused"} : CallStep(c, from, "answered")
  /\ Deliver
  /\ UNCHANGED hostVars

\* Mutation of IsIdle: a scope may be ended as soon as it is known.
IsKnown(s) == s \in sessions

\* Arc::strong_count: nobody but the map holds the scope.
IsIdle(s) == s \in sessions /\ \A c \in held : of[c] # s

\* end_session, under the lock of the map.
HostEnd(s) ==
  /\ command = "running" /\ scope[s] = "end"
  /\ \/ IsIdle(s) /\ sessions' = sessions \ {s} /\ scope' = [scope EXCEPT ![s] = "closed"]
     \/ ~IsIdle(s) /\ UNCHANGED sessions /\ scope' = [scope EXCEPT ![s] = "unclosed"]
  /\ Deliver
  /\ UNCHANGED <<command, storage, of, hasty, stage, held, notes, kept, logged, executed, endVars, answer>>

-----------------------------------------------------------------------------
(* The command ends. *)

\* The mirror copies until the output is closed; if it cannot, it kills the
\* Runtime.
Mirror ==
  /\ command = "running" /\ mirror = "on"
  /\ \/ runtime # "running" /\ mirror' = "over" /\ UNCHANGED runtime
     \/ mirror' = "failed" /\ runtime' = IF runtime = "running" THEN "dead" ELSE runtime
  /\ UNCHANGED <<command, storage, hostVars, testVars, stage, pump, verdict, report, answer>>

\* The pump has joined its workers, and unless it has failed it has read every
\* request before.
Drained ==
  /\ \A c \in Calls : stage[c] \notin WorkStage
  /\ pump = "on" =>
       /\ \A c \in Calls : stage[c] # "sent"
       /\ \A s \in Sessions : scope[s] \notin {"begin", "end"}

\* Mutation of Conclude: the notes are taken before the workers are joined.
ConcludeEarly ==
  /\ command = "running" /\ mirror # "on" /\ runtime # "running"
  /\ command' = "concluded"
  /\ logged' = kept
  /\ UNCHANGED <<storage, sessions, held, notes, kept, executed, testVars, stage, pump, endVars, answer>>

\* The exchange is over; take_logs, and the notes go to the Operation log.
Conclude ==
  /\ command = "running" /\ mirror # "on" /\ runtime # "running"
  /\ Drained
  /\ command' = "concluded"
  /\ logged' = kept
  /\ UNCHANGED <<storage, sessions, held, notes, kept, executed, testVars, stage, pump, endVars, answer>>

\* test_pack returns: the coordinator is dropped, its scopes first and its
\* storage last.  Then the report is looked for and the Response is made; the
\* log may fail at its end.
Respond ==
  /\ command = "concluded" /\ command' = "answered"
  /\ sessions' = {} /\ storage' = FALSE
  /\ answer' \in
       IF runtime = "exited" /\ pump = "on" /\ mirror = "over" /\ verdict = "success" /\ report
       THEN {"success", "failure"} ELSE {"failure"}
  /\ UNCHANGED <<testVars, stage, held, notes, kept, logged, executed, pump, endVars>>

-----------------------------------------------------------------------------

TestStep(s) == BeginSession(s) \/ EndSession(s) \/ \E c \in Calls : Call(c, s)

WorkerStep ==
  \/ \E s \in Sessions : HostBegin(s) \/ HostEnd(s)
  \/ \E c \in Calls : LookUp(c) \/ Execute(c) \/ Collect(c) \/ Release(c) \/ Answer(c)

CommandStep == Start \/ Mirror \/ Conclude \/ Respond

Next ==
  \/ \E s \in Sessions : TestStep(s)
  \/ Finish \/ Exit \/ Die
  \/ WorkerStep
  \/ Reject \/ CommandStep

Spec == Init /\ [][Next]_vars

\* The Workflows of the tests end, and so do the tests; threads go on.  Nobody
\* has to call, to die or to reject.
FairSpec ==
  /\ Spec
  /\ WF_vars(\E s \in Sessions : EndSession(s))
  /\ WF_vars(\E s \in Sessions : HostBegin(s))
  /\ WF_vars(Finish \/ Exit)
  /\ WF_vars(WorkerStep)
  /\ WF_vars(Mirror /\ runtime # "running") /\ WF_vars(Conclude) /\ WF_vars(Respond)

-----------------------------------------------------------------------------
(* Properties. *)

\* A session whose test was told that it is closed is quiet: it is not known
\* any more, and no worker still uses it.  Storage is removed only when no
\* worker uses any session in it.
ClosedSessionIsQuiet ==
  /\ \A s \in Sessions : scope[s] = "closed" => s \notin sessions /\ \A c \in held : of[c] # s
  /\ held # {} => storage

\* A test that ends its session after all its calls have returned is never told
\* that the session is still in use.
OrderlyTestCloses == \A s \in Sessions : scope[s] = "unclosed" => s \in hasty

\* `kat test` reports success only if its tests passed with every session
\* closed, the report is there, no call was lost, and the log names the log of
\* every Workflow that was run.
SuccessIsTrue ==
  answer = "success" =>
    /\ verdict = "success" /\ report
    /\ \A s \in Sessions : scope[s] \in {"none", "closed"}
    /\ \A c \in Calls : stage[c] \in {"idle", "answered"}
    /\ executed \subseteq logged

\* `kat test` ends once its Runtime has been started, whatever fails.
TestConcludes == command = "running" ~> command = "answered"
=============================================================================
